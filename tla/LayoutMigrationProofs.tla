----------------------- MODULE LayoutMigrationProofs ------------------------
(***************************************************************************)
(* Proofs about LayoutMigration, for any entries, profiles, user data and  *)
(* platform directories, and any number of runs that stop.                 *)
(*                                                                         *)
(* The invariant IInv has a part for each thing a later step relies on:    *)
(* Shape (inside an entry), Stage (which step has which plan), Homes and   *)
(* Paths (the renames), Links (who may own a profile's links), Texts (the  *)
(* emulators' config files), Ties (who is linked when) and Referring (what *)
(* is named).  Of the profile's installs one is Chosen, the first that can *)
(* be linked.  All turns on that the pass gives links and saves/<profile>  *)
(* to nobody else, whichever run stops where.                              *)
(***************************************************************************)
EXTENDS LayoutMigration, TLAPS

AtHand  == Head(todo)
Rest(t) == {t[k] : k \in 1 .. Len(t)}
Done    == Installs \ Rest(todo)

\* What is to be done is the end of the list of entries.
Suffix(t) ==
    /\ t \in Seq(Installs) /\ Len(t) <= Len(Entries)
    /\ \A j \in 1 .. Len(t) : t[j] = Entries[Len(Entries) - Len(t) + j]

\* The entries are a list without repetition, in config order.
LEMMA ListLaid ==
  /\ Entries \in Seq(Installs) /\ Len(Entries) \in Nat
  /\ DOMAIN Entries = 1 .. Len(Entries)
  /\ Installs = {Entries[k] : k \in 1 .. Len(Entries)}
  /\ \A j, k \in 1 .. Len(Entries) : Entries[j] = Entries[k] => j = k
<1>1. Entries \in Seq(Installs) BY MigrationAssumption
<1>2. Len(Entries) \in Nat /\ DOMAIN Entries = 1 .. Len(Entries) BY <1>1
<1> QED BY <1>1, <1>2, MigrationAssumption DEF Installs

\* A pass begins with the whole list and ends with none of it.
LEMMA SuffixBegins ==
  /\ Suffix(Entries) /\ Rest(Entries) = Installs
  /\ Suffix(<< >>) /\ Rest(<< >>) = {}
<1>1. Suffix(Entries) BY ListLaid DEF Suffix
<1>2. Rest(Entries) = Installs BY ListLaid DEF Rest
<1>3. << >> \in Seq(Installs) /\ Len(<< >>) = 0 OBVIOUS
<1>4. Suffix(<< >>) BY <1>3, ListLaid DEF Suffix
<1>5. Rest(<< >>) = {} BY <1>3 DEF Rest
<1> QED BY <1>1, <1>2, <1>4, <1>5

LEMMA SuffixEnds ==
  ASSUME NEW t, Suffix(t), Rest(t) = {}
  PROVE  t = << >>
<1>1. t \in Seq(Installs) BY DEF Suffix
<1>2. Len(t) = 0 BY <1>1 DEF Rest
<1> QED BY <1>1, <1>2

\* Leaving an entry takes it, and only it, from what is to be done.
LEMMA SuffixSteps ==
  ASSUME NEW t, Suffix(t), t # << >>
  PROVE  /\ Suffix(Tail(t)) /\ Head(t) \in Installs
         /\ Head(t) \in Rest(t)
         /\ Rest(Tail(t)) = Rest(t) \ {Head(t)}
         /\ Rest(t) \subseteq Installs
<1>1. t \in Seq(Installs) /\ Len(t) \in Nat /\ Len(t) > 0 BY DEF Suffix
<1>2. Head(t) = t[1] /\ Head(t) \in Installs BY <1>1
<1>3. /\ Tail(t) \in Seq(Installs) /\ Len(Tail(t)) = Len(t) - 1
      /\ \A j \in 1 .. Len(t) - 1 : Tail(t)[j] = t[j + 1]
      BY <1>1
<1>4. Suffix(Tail(t))
  <2> SUFFICES ASSUME NEW j \in 1 .. Len(t) - 1
               PROVE  Tail(t)[j] = Entries[Len(Entries) - (Len(t) - 1) + j]
      BY <1>1, <1>3, ListLaid DEF Suffix
  <2>1. j + 1 \in 1 .. Len(t) BY <1>1
  <2>2. Tail(t)[j] = Entries[Len(Entries) - Len(t) + (j + 1)] BY <1>3, <2>1 DEF Suffix
  <2>3. Len(Entries) - Len(t) + (j + 1) = Len(Entries) - (Len(t) - 1) + j
        BY <1>1, ListLaid
  <2> QED BY <2>2, <2>3
<1>5. \A j, k \in 1 .. Len(t) : t[j] = t[k] => j = k
  <2> TAKE j, k \in 1 .. Len(t)
  <2> HAVE t[j] = t[k]
  <2>1. /\ Len(Entries) - Len(t) + j \in 1 .. Len(Entries)
        /\ Len(Entries) - Len(t) + k \in 1 .. Len(Entries)
        BY <1>1, ListLaid DEF Suffix
  <2>2. Len(Entries) - Len(t) + j = Len(Entries) - Len(t) + k
        BY <2>1, ListLaid DEF Suffix
  <2> QED BY <2>2, <1>1, ListLaid
<1>6. Rest(Tail(t)) = Rest(t) \ {Head(t)}
  <2>1. ASSUME NEW x \in Rest(Tail(t)) PROVE x \in Rest(t) /\ x # Head(t)
    <3>1. PICK j \in 1 .. Len(t) - 1 : x = t[j + 1] BY <1>3, <2>1 DEF Rest
    <3>2. j + 1 \in 1 .. Len(t) /\ j + 1 # 1 /\ 1 \in 1 .. Len(t) BY <1>1
    <3> QED BY <3>1, <3>2, <1>2, <1>5 DEF Rest
  <2>2. ASSUME NEW x \in Rest(t), x # Head(t) PROVE x \in Rest(Tail(t))
    <3>1. PICK k \in 1 .. Len(t) : x = t[k] BY DEF Rest
    <3>2. k # 1 BY <3>1, <2>2, <1>2
    <3>3. k - 1 \in 1 .. Len(t) - 1 /\ (k - 1) + 1 = k BY <3>2, <1>1
    <3>4. Tail(t)[k - 1] = x BY <3>1, <3>3, <1>3
    <3> QED BY <3>3, <3>4, <1>3 DEF Rest
  <2> QED BY <2>1, <2>2
<1>7. Head(t) \in Rest(t) BY <1>1, <1>2 DEF Rest
<1>8. Rest(t) \subseteq Installs BY <1>1 DEF Rest
<1> QED BY <1>2, <1>4, <1>6, <1>7, <1>8

\* First picks one install of a set, if any.
LEMMA FirstIsOne ==
  ASSUME NEW S
  PROVE  /\ First(S) \subseteq S \cap Installs
         /\ \A e, f \in First(S) : e = f
<1> DEFINE at == {k \in 1 .. Len(Entries) : Entries[k] \in S}
<1>1. First(S) = {Entries[k] : k \in {k \in at : \A j \in at : k <= j}}
      BY ListLaid DEF First
<1>2. First(S) \subseteq S \cap Installs BY <1>1, ListLaid
<1>3. ASSUME NEW e \in First(S), NEW f \in First(S) PROVE e = f
  <2>1. PICK j \in at : e = Entries[j] /\ \A i \in at : j <= i BY <1>1
  <2>2. PICK k \in at : f = Entries[k] /\ \A i \in at : k <= i BY <1>1
  <2>3. j = k BY <2>1, <2>2, ListLaid
  <2> QED BY <2>1, <2>2, <2>3
<1> QED BY <1>2, <1>3

\* What the list is at belongs to S: the first of S is not behind it, and is
\* it if nothing before it belongs to S.
LEMMA FirstAndRest ==
  ASSUME NEW S, NEW t, Suffix(t), t # << >>, Head(t) \in S
  PROVE  /\ \A e \in First(S) : e \notin Rest(Tail(t))
         /\ (\A e \in S \cap Installs : e \in Rest(t)) => Head(t) \in First(S)
<1> DEFINE at == {k \in 1 .. Len(Entries) : Entries[k] \in S}
           h  == Len(Entries) - Len(t) + 1
<1>1. First(S) = {Entries[k] : k \in {k \in at : \A j \in at : k <= j}}
      BY ListLaid DEF First
<1>2. t \in Seq(Installs) /\ Len(t) \in Nat /\ Len(t) > 0 /\ Len(t) <= Len(Entries)
      BY DEF Suffix
<1>3. Head(t) = Entries[h] /\ h \in at
  <2>1. Head(t) = t[1] /\ 1 \in 1 .. Len(t) BY <1>2
  <2>2. Head(t) = Entries[h] BY <2>1 DEF Suffix
  <2>3. h \in 1 .. Len(Entries) BY <1>2, ListLaid
  <2> QED BY <2>2, <2>3
<1>4. ASSUME NEW e \in First(S) PROVE e \notin Rest(Tail(t))
  <2> SUFFICES ASSUME e \in Rest(Tail(t)) PROVE FALSE OBVIOUS
  <2>1. PICK k \in at : e = Entries[k] /\ k <= h BY <1>1, <1>3
  <2>2. Suffix(Tail(t)) /\ Len(Tail(t)) = Len(t) - 1 BY <1>2, SuffixSteps
  <2>3. PICK j \in 1 .. Len(t) - 1 : e = Tail(t)[j] BY <2>2 DEF Rest
  <2>4. e = Entries[Len(Entries) - (Len(t) - 1) + j] BY <2>2, <2>3 DEF Suffix
  <2>5. Len(Entries) - (Len(t) - 1) + j \in 1 .. Len(Entries) BY <1>2, ListLaid
  <2>6. k = Len(Entries) - (Len(t) - 1) + j BY <2>1, <2>4, <2>5, ListLaid
  <2> QED BY <2>1, <2>6, <1>2, ListLaid
<1>5. ASSUME \A e \in S \cap Installs : e \in Rest(t) PROVE Head(t) \in First(S)
  <2>1. ASSUME NEW j \in at PROVE h <= j
    <3>1. Entries[j] \in Rest(t) BY <1>5, ListLaid
    <3>2. PICK k \in 1 .. Len(t) : Entries[j] = t[k] BY <3>1 DEF Rest
    <3>3. Entries[j] = Entries[Len(Entries) - Len(t) + k] BY <3>2 DEF Suffix
    <3>4. Len(Entries) - Len(t) + k \in 1 .. Len(Entries) BY <1>2, ListLaid
    <3>5. j = Len(Entries) - Len(t) + k BY <3>3, <3>4, ListLaid
    <3> QED BY <3>5, <1>2, ListLaid
  <2> QED BY <2>1, <1>1, <1>3
<1> QED BY <1>4, <1>5

-----------------------------------------------------------------------------
(* The types, and how the parts of a run fit together.                     *)

Eligible(e) == UserData[e] # {} /\ e \notin Hollow

\* Inside an entry: the names behind are linked, the one at hand is not, and
\* has its place under saves/.
Shape ==
    /\ Suffix(todo)
    /\ sub = "pick" => left = {}
    /\ sub # "pick" =>
          /\ Linking /\ todo # << >> /\ Eligible(AtHand) /\ left \subseteq UserData[AtHand]
          /\ \A n \in UserData[AtHand] \ left : kind[AtHand][n] = "link"
          /\ pc = "data" => AtHand \in Nested
    /\ sub \in {"shift", "tie"} =>
          /\ cur \in left /\ kind[AtHand][cur] # "link"
          /\ saved[Profile[AtHand]][cur] # "absent"
    /\ sub = "tie" => kind[AtHand][cur] = "none"

\* An install's profile and its names are known ones.
LEMMA Belongs ==
  ASSUME NEW e \in Installs
  PROVE  Profile[e] \in Profiles /\ UserData[e] \subseteq Names
  BY DEF Profiles, Names

\* What a step works at is an install and one of its names.
LEMMA AtWork ==
  ASSUME TypeOK, Shape
  PROVE  /\ sub # "pick" => AtHand \in Installs /\ left \subseteq UserData[AtHand]
         /\ sub \in {"shift", "tie"} => cur \in Names /\ cur \in UserData[AtHand]
         /\ todo # << >> => AtHand \in Installs /\ Tail(todo) \in Seq(Installs)
<1>1. todo # << >> => AtHand \in Installs /\ Tail(todo) \in Seq(Installs)
      BY SuffixSteps DEF Shape, AtHand, Suffix
<1> QED BY <1>1, Belongs DEF Shape

\* A plan holds platform directories.
LEMMA DerivedTyped ==
  ASSUME TypeOK
  PROVE  Derived \subseteq Dirs /\ Stored \subseteq Dirs
  BY DEF Derived, Stored, Named, TypeOK

LEMMA NewPathTyped ==
  ASSUME TypeOK, NEW e \in Installs
  PROVE  NewPath(e) \in Places
<1>1. path[e] \in Places BY DEF TypeOK
<1>2. Profile[e] \in Profiles BY Belongs
<1>3. path[e].name \in Installs \cup Profiles BY <1>1 DEF Places
<1> QED BY <1>1, <1>2, <1>3 DEF NewPath, In, Places, Roots

LEMMA MovedTyped ==
  ASSUME NEW refs \in SUBSET Refs
  PROVE  Moved(refs) \subseteq Refs
  BY DEF Moved, Refs

RunTyped ==
    /\ pc \in Working \cup {"off", "up"}
    /\ plan \subseteq Dirs /\ todo \in Seq(Installs) /\ filled \subseteq Profiles
    /\ sub \in {"pick", "unlink", "make", "shift", "tie"}
    /\ left \subseteq Names /\ cur \in Names \cup {"-"}

DiskTyped ==
    /\ flat \subseteq Dirs /\ games \subseteq Dirs
    /\ roots \subseteq Roots /\ home \in [Installs -> Places]
    /\ kind \in [Installs -> [Names -> {"none", "empty", "full", "link", "astray"}]]
    /\ beside \in [Installs -> SUBSET Names]
    /\ saved \in [Profiles -> [Names -> {"absent", "empty"} \cup Installs]]
    /\ rows \subseteq Refs /\ conf \subseteq Refs /\ text \in [Installs -> SUBSET Refs]
    /\ path \in [Installs -> Places] /\ version \in 0 .. 2

BookTyped ==
    /\ clash \in BOOLEAN /\ wrote \subseteq Installs \X Names
    /\ lost \subseteq {Probed} /\ cut \subseteq Installs /\ stops \in 0 .. MaxStops

\* The type invariant in three parts: a step mostly leaves two of them alone.
LEMMA TypeParts == TypeOK <=> RunTyped /\ DiskTyped /\ BookTyped
  BY DEF TypeOK, RunTyped, DiskTyped, BookTyped

LEMMA TypePartsNext == TypeOK' <=> RunTyped' /\ DiskTyped' /\ BookTyped'
  BY DEF TypeOK, RunTyped, DiskTyped, BookTyped

LEMMA RunKept ==
  ASSUME RunTyped, UNCHANGED run
  PROVE  RunTyped'
  BY DEF RunTyped, run

LEMMA DiskKept ==
  ASSUME DiskTyped, UNCHANGED disk
  PROVE  DiskTyped'
  BY DEF DiskTyped, disk

LEMMA BookKept ==
  ASSUME BookTyped, UNCHANGED book
  PROVE  BookTyped'
  BY DEF BookTyped, book

LEMMA RestTyped ==
  ASSUME NEW at \in Working \cup {"off", "up"}, Resting(at)
  PROVE  RunTyped'
  BY DEF Resting, RunTyped

LEMMA EnterTyped ==
  ASSUME RunTyped, NEW at \in Working, Enter(at), plan' \subseteq Dirs
  PROVE  RunTyped'
  BY ListLaid DEF Enter, RunTyped

\* The states a run starts from are typed: a flat library,
LEMMA FlatTyped ==
  ASSUME FlatLibrary
  PROVE  /\ flat \subseteq Dirs /\ games \subseteq Dirs /\ clash \in BOOLEAN
         /\ roots \subseteq Roots /\ home \in [Installs -> Places]
         /\ kind \in [Installs -> [Names -> {"none", "empty", "full", "link", "astray"}]]
         /\ beside \in [Installs -> SUBSET Names]
         /\ saved \in [Profiles -> [Names -> {"absent", "empty"} \cup Installs]]
         /\ rows \subseteq Refs /\ conf \subseteq Refs
         /\ text \in [Installs -> SUBSET Refs] /\ version \in 0 .. 2
<1> USE DEF FlatLibrary
<1>1. PICK new \in SUBSET Fresh, has \in [Installs -> {"none", "full", "astray", "link"}] :
         /\ home = [e \in Installs |-> IF e \in new THEN In("emulators", Profile[e])
                                       ELSE In("Emulators", e)]
         /\ kind = [e \in Installs |-> Kinds(e, has[e])]
      OBVIOUS
<1>2. home \in [Installs -> Places]
  <2>1. \A e \in Installs : In("emulators", Profile[e]) \in Places /\ In("Emulators", e) \in Places
        BY Belongs DEF In, Places, Roots
  <2> QED BY <1>1, <2>1
<1>3. kind \in [Installs -> [Names -> {"none", "empty", "full", "link", "astray"}]]
  <2>1. \A e \in Installs : Kinds(e, has[e]) \in [Names -> {"none", "empty", "full", "link", "astray"}]
        BY DEF Kinds
  <2> QED BY <1>1, <2>1
<1>4. roots \subseteq Roots BY <1>2 DEF Places
<1>5. PICK full \in [Profiles -> BOOLEAN] : saved = [p \in Profiles |-> [n \in Names |->
          LET own == {e \in Of(p) : kind[e][n] = "link"}
          IN  IF own = {} THEN "absent"
              ELSE IF full[p] THEN CHOOSE e \in own : TRUE ELSE "empty"]]
      OBVIOUS
<1>6. \A own \in SUBSET Installs : own # {} => (CHOOSE e \in own : TRUE) \in Installs
      OBVIOUS
<1>7. saved \in [Profiles -> [Names -> {"absent", "empty"} \cup Installs]]
  <2>1. \A p \in Profiles, n \in Names : {e \in Of(p) : kind[e][n] = "link"} \in SUBSET Installs
        BY DEF Of
  <2> QED BY <1>5, <1>6, <2>1
<1>8. rows \subseteq Refs /\ conf \subseteq Refs BY DEF Refs
<1>9. text \in [Installs -> SUBSET Refs] BY DEF Refs
<1>10. /\ flat \subseteq Dirs /\ games \subseteq Dirs /\ clash \in BOOLEAN
       /\ version \in 0 .. 2
      OBVIOUS
<1>11. beside \in [Installs -> SUBSET Names] OBVIOUS
<1> HIDE DEF FlatLibrary
<1> QED BY <1>2, <1>3, <1>4, <1>7, <1>8, <1>9, <1>10, <1>11

\* and a library of layout 1.
LEMMA LinkedTyped ==
  ASSUME LinkedLibrary
  PROVE  /\ flat \subseteq Dirs /\ games \subseteq Dirs /\ clash \in BOOLEAN
         /\ roots \subseteq Roots /\ home \in [Installs -> Places]
         /\ kind \in [Installs -> [Names -> {"none", "empty", "full", "link", "astray"}]]
         /\ beside \in [Installs -> SUBSET Names]
         /\ saved \in [Profiles -> [Names -> {"absent", "empty"} \cup Installs]]
         /\ rows \subseteq Refs /\ conf \subseteq Refs
         /\ text \in [Installs -> SUBSET Refs] /\ version \in 0 .. 2
<1> USE DEF LinkedLibrary
<1>1. home \in [Installs -> Places]
  <2>1. \A e \in Installs : In("emulators", Profile[e]) \in Places /\ In("emulators", e) \in Places
        BY Belongs DEF In, Places, Roots
  <2> QED BY <2>1
<1>2. PICK has \in [Installs -> {"none", "full"}] :
         kind = [e \in Installs |->
                    Kinds(e, IF e \in Owner(Profile[e]) \ Nested THEN "link" ELSE has[e])]
      OBVIOUS
<1>3. kind \in [Installs -> [Names -> {"none", "empty", "full", "link", "astray"}]]
  <2>1. \A e \in Installs, k \in {"none", "full", "link"} :
           Kinds(e, k) \in [Names -> {"none", "empty", "full", "link", "astray"}]
        BY DEF Kinds
  <2> QED BY <1>2, <2>1
<1>4. beside \in [Installs -> SUBSET Names] BY Belongs
<1>5. rows \subseteq Refs /\ text \in [Installs -> SUBSET Refs] BY DEF Refs
<1>6. /\ flat = {} /\ games = Dirs /\ version = 1 /\ conf = {} /\ clash = FALSE
      BY Zenon
<1>7. roots \subseteq Roots BY DEF Roots
<1>8. saved \in [Profiles -> [Names -> {"absent", "empty"} \cup Installs]]
      BY Zenon
<1>9. flat \subseteq Dirs /\ games \subseteq Dirs /\ version \in 0 .. 2 /\ conf \subseteq Refs
      BY <1>6
<1>10. clash \in BOOLEAN BY <1>6, Zenon
<1> HIDE DEF LinkedLibrary
<1> QED BY <1>1, <1>3, <1>4, <1>5, <1>7, <1>8, <1>9, <1>10

LEMMA InitTyped ==
  ASSUME Init
  PROVE  TypeOK
<1>1. RunTyped BY DEF Init, RunTyped
<1>2. DiskTyped BY FlatTyped, LinkedTyped DEF Init, DiskTyped
<1>3. BookTyped BY FlatTyped, LinkedTyped, MigrationAssumption DEF Init, BookTyped
<1> QED BY <1>1, <1>2, <1>3, TypeParts

\* One step per action of a run.
LEMMA StepTyped ==
  ASSUME TypeOK, Shape, Step
  PROVE  TypeOK'
<1>0. RunTyped /\ DiskTyped /\ BookTyped BY TypeParts
<1>a. Derived \subseteq Dirs BY DerivedTyped
<1>b. "up" \in Working \cup {"off", "up"} /\ {"names", "data", "link", "text", "rows", "stamp"} \subseteq Working
      BY DEF Working
<1> USE <1>0, RunKept, DiskKept, BookKept, TypePartsNext
<1>1. CASE Preflight
  <2>1. CASE Resting("up") BY <2>1, <1>1, <1>b, RestTyped DEF Preflight
  <2>2. CASE Enter("data") /\ UNCHANGED plan
        BY <2>2, <1>1, <1>b, EnterTyped DEF Preflight, RunTyped
  <2>3. CASE pc' = "games" /\ plan' = Derived /\ UNCHANGED <<todo, filled, sub, left, cur>>
    <3>1. RunTyped' BY <2>3, <1>a DEF RunTyped, Working
    <3> QED BY <3>1, <1>1 DEF Preflight
  <2> QED BY <2>1, <2>2, <2>3, <1>1 DEF Preflight
<1>2. CASE GamesMoved
  <2>1. RunTyped' BY <1>2 DEF GamesMoved, RunTyped, Working
  <2> QED BY <2>1, <1>2 DEF GamesMoved
<1>3. ASSUME NEW d \in Dirs, MoveDir(d) PROVE TypeOK'
  <2>1. DiskTyped' BY <1>3 DEF MoveDir, DiskTyped
  <2> QED BY <2>1, <1>3 DEF MoveDir
<1>r. ASSUME NEW from, NEW to \in Roots, RenameRoot(from, to)
      PROVE  DiskTyped' /\ BookTyped'
  <2>1. roots' \subseteq Roots BY <1>r DEF RenameRoot, DiskTyped
  <2>2. \A e \in Installs : In(to, home[e].name) \in Places
        BY <1>r DEF DiskTyped, Places, In
  <2>3. home' \in [Installs -> Places] BY <1>r, <2>2 DEF RenameRoot, DiskTyped
  <2>4. DiskTyped' BY <1>r, <2>1, <2>3 DEF RenameRoot, DiskTyped
  <2> QED BY <2>4, <1>r DEF RenameRoot
<1>4. CASE Direct
  <2>1. RunTyped'
    <3>1. CASE Enter("names") BY <3>1, <1>4, <1>b, EnterTyped DEF Direct, RunTyped
    <3>2. CASE pc' = "temporary" /\ UNCHANGED <<todo, filled, sub, left, cur>>
          BY <3>2, <1>4 DEF Direct, RunTyped, Working
    <3> QED BY <3>1, <3>2, <1>4 DEF Direct
  <2>2. DiskTyped' /\ BookTyped' BY <1>r, <1>4 DEF Direct, Roots
  <2> QED BY <2>1, <2>2
<1>5. CASE ThroughTemporary
  <2>1. RunTyped' BY <1>5, <1>b, EnterTyped DEF ThroughTemporary, RunTyped
  <2>2. DiskTyped' /\ BookTyped' BY <1>r, <1>5 DEF ThroughTemporary, Roots
  <2> QED BY <2>1, <2>2
<1>6. CASE Merged
  <2>1. RunTyped' BY <1>6, <1>b, EnterTyped DEF Merged, RunTyped
  <2>2. DiskTyped' BY <1>6 DEF Merged, DiskTyped
  <2> QED BY <2>1, <2>2, <1>6 DEF Merged
<1>7. ASSUME NEW e \in Installs, Merge(e) PROVE TypeOK'
  <2>1. \A p \in Places : [p EXCEPT !.root = "emulators"] \in Places
        BY DEF Places, Roots
  <2>2. home' \in [Installs -> Places] BY <2>1, <1>7 DEF Merge, DiskTyped
  <2>3. DiskTyped' BY <1>7, <2>2 DEF Merge, DiskTyped
  <2> QED BY <2>3, <1>7 DEF Merge
<1>8. CASE Rename
  <2>1. AtHand \in Installs /\ Tail(todo) \in Seq(Installs) BY <1>8, AtWork DEF Rename
  <2>2. In("emulators", Profile[Head(todo)]) \in Places
        BY <2>1, Belongs DEF In, Places, Roots, AtHand
  <2>3. home' \in [Installs -> Places] BY <1>8, <2>2 DEF Rename, DiskTyped
  <2>4. DiskTyped' BY <1>8, <2>3 DEF Rename, DiskTyped
  <2>5. RunTyped' BY <1>8, <2>1 DEF Rename, RunTyped
  <2> QED BY <2>4, <2>5, <1>8 DEF Rename
<1>9. CASE PickEntry
  <2>1. AtHand \in Installs /\ Tail(todo) \in Seq(Installs) BY <1>9, AtWork DEF PickEntry
  <2>2. UserData[Head(todo)] \subseteq Names /\ Profile[Head(todo)] \in Profiles
        BY <2>1, Belongs DEF AtHand
  <2>3. RunTyped'
    <3>1. CASE Linkable(Head(todo))
      <4>1. sub' \in {"unlink", "make"} /\ left' = UserData[Head(todo)]
            /\ UNCHANGED <<todo, filled, pc, plan, cur>>
            BY <3>1, <1>9 DEF PickEntry
      <4> QED BY <4>1, <2>2 DEF RunTyped
    <3>2. CASE ~Linkable(Head(todo))
      <4>1. /\ todo' = Tail(todo) /\ UNCHANGED <<sub, left, pc, plan, cur>>
            /\ filled' \subseteq filled \cup {Profile[Head(todo)]}
            BY <3>2, <1>9 DEF PickEntry
      <4> QED BY <4>1, <2>1, <2>2 DEF RunTyped
    <3> QED BY <3>1, <3>2
  <2> QED BY <2>3, <1>9 DEF PickEntry
<1>10. CASE Unlinked
  <2>1. RunTyped' BY <1>10 DEF Unlinked, RunTyped
  <2> QED BY <2>1, <1>10 DEF Unlinked
<1>11. CASE Shift
  <2>1. AtHand \in Installs /\ cur \in Names BY <1>11, AtWork DEF Shift
  <2>2. kind' \in [Installs -> [Names -> {"none", "empty", "full", "link", "astray"}]]
        BY <1>11, <2>1 DEF Shift, DiskTyped, AtHand
  <2>3. saved' \in [Profiles -> [Names -> {"absent", "empty"} \cup Installs]]
    <3>1. Profile[Head(todo)] \in Profiles BY <2>1, Belongs DEF AtHand
    <3> QED BY <1>11, <2>1, <3>1 DEF Shift, DiskTyped, AtHand
  <2>4. DiskTyped' BY <1>11, <2>2, <2>3 DEF Shift, DiskTyped
  <2>5. RunTyped' BY <1>11 DEF Shift, RunTyped
  <2> QED BY <2>4, <2>5, <1>11 DEF Shift
<1>12. CASE Tie
  <2>1. AtHand \in Installs /\ cur \in Names BY <1>12, AtWork DEF Tie
  <2>2. kind' \in [Installs -> [Names -> {"none", "empty", "full", "link", "astray"}]]
        BY <1>12, <2>1 DEF Tie, DiskTyped, AtHand
  <2>3. DiskTyped' BY <1>12, <2>2 DEF Tie, DiskTyped
  <2>4. RunTyped' BY <1>12 DEF Tie, RunTyped
  <2> QED BY <2>3, <2>4, <1>12 DEF Tie
<1>13. CASE EntryLinked
  <2>1. AtHand \in Installs BY <1>13, AtWork DEF EntryLinked
  <2>2. Tail(todo) \in Seq(Installs) BY <1>13, AtWork DEF EntryLinked, Shape
  <2>3. RunTyped' BY <1>13, <2>1, <2>2, Belongs DEF EntryLinked, RunTyped, AtHand
  <2> QED BY <2>3, <1>13 DEF EntryLinked
<1>14. ASSUME NEW n \in Names, Unlink(n) PROVE TypeOK'
  <2>1. beside' \in [Installs -> SUBSET Names] BY <1>14 DEF Unlink, DiskTyped
  <2>2. DiskTyped' BY <1>14, <2>1 DEF Unlink, DiskTyped
  <2> QED BY <2>2, <1>14 DEF Unlink
<1>15. ASSUME NEW n \in Names, MakeSaves(n) PROVE TypeOK'
  <2>1. AtHand \in Installs BY <1>15, AtWork DEF MakeSaves
  <2>2. saved' \in [Profiles -> [Names -> {"absent", "empty"} \cup Installs]]
    <3>1. Profile[Head(todo)] \in Profiles BY <2>1, Belongs DEF AtHand
    <3> QED BY <1>15, <3>1 DEF MakeSaves, DiskTyped
  <2>3. DiskTyped' BY <1>15, <2>2 DEF MakeSaves, DiskTyped
  <2>4. RunTyped' BY <1>15 DEF MakeSaves, RunTyped
  <2> QED BY <2>3, <2>4, <1>15 DEF MakeSaves
<1>16. CASE RewriteText
  <2>1. Tail(todo) \in Seq(Installs) BY <1>16, AtWork DEF RewriteText
  <2>2. \A e \in Installs : Moved(text[e]) \subseteq Refs BY MovedTyped DEF DiskTyped
  <2>3. text' \in [Installs -> SUBSET Refs] BY <1>16, <2>2 DEF RewriteText, DiskTyped
  <2>4. DiskTyped' BY <1>16, <2>3 DEF RewriteText, DiskTyped
  <2>5. RunTyped' BY <1>16, <2>1 DEF RewriteText, RunTyped
  <2> QED BY <2>4, <2>5, <1>16 DEF RewriteText
<1>17. CASE RewriteRows
  <2>1. Moved(rows) \subseteq Refs BY MovedTyped DEF DiskTyped
  <2>2. DiskTyped' BY <1>17, <2>1 DEF RewriteRows, DiskTyped
  <2>3. RunTyped' BY <1>17 DEF RewriteRows, RunTyped, Working
  <2> QED BY <2>2, <2>3, <1>17 DEF RewriteRows
<1>18. CASE RewriteConfig
  <2>1. Moved(conf) \subseteq Refs BY MovedTyped DEF DiskTyped
  <2>2. path' \in [Installs -> Places] BY <1>18, NewPathTyped DEF RewriteConfig
  <2>3. DiskTyped' BY <1>18, <2>1, <2>2 DEF RewriteConfig, DiskTyped
  <2>4. RunTyped' BY <1>18, <1>b, EnterTyped DEF RewriteConfig, RunTyped
  <2> QED BY <2>3, <2>4, <1>18 DEF RewriteConfig
<1>19. CASE Stamp
  <2>1. DiskTyped' BY <1>19 DEF Stamp, DiskTyped
  <2>2. RunTyped' BY <1>19, <1>b, RestTyped DEF Stamp
  <2> QED BY <2>1, <2>2, <1>19 DEF Stamp
<1>20. ASSUME NEW from, NEW to \in {"link", "text", "rows", "stamp"}, NextStage(from, to)
       PROVE  TypeOK'
  <2>1. RunTyped' BY <1>20, <1>b, EnterTyped DEF NextStage, RunTyped
  <2> QED BY <2>1, <1>20 DEF NextStage
<1> HIDE RunKept, DiskKept, BookKept, TypePartsNext
<1> QED BY <1>1, <1>2, <1>3, <1>4, <1>5, <1>6, <1>7, <1>8, <1>9, <1>10, <1>11, <1>12,
           <1>13, <1>14, <1>15, <1>16, <1>17, <1>18, <1>19, <1>20 DEF Step

\* The same for what happens between two runs.
LEMMA OthersTyped ==
  ASSUME TypeOK, Shape, Start \/ Stop \/ Between \/ UNCHANGED vars
  PROVE  TypeOK'
<1>0. RunTyped /\ DiskTyped /\ BookTyped BY TypeParts
<1>b. {"start", "up", "off"} \subseteq Working \cup {"off", "up"}
      BY DEF Working
<1> USE <1>0, RunKept, DiskKept, BookKept, TypePartsNext
<1>1. CASE Start BY <1>1, <1>b, RestTyped DEF Start
<1>2. CASE Stop
  <2>1. RunTyped' BY <1>2, <1>b, RestTyped DEF Stop
  <2>2. BookTyped'
    <3>1. stops' \in 0 .. MaxStops BY <1>2, MigrationAssumption DEF Stop, BookTyped
    <3>2. cut' \subseteq Installs BY <1>2 DEF Stop, BookTyped, HalfLinked
    <3>3. lost' \subseteq {Probed} BY <1>2 DEF Stop, BookTyped, RunTyped
    <3> QED BY <1>2, <3>1, <3>2, <3>3 DEF Stop, BookTyped
  <2>3. CASE UNCHANGED disk BY <2>1, <2>2, <2>3
  <2>4. CASE /\ text' = [text EXCEPT ![Head(todo)] = {}]
             /\ UNCHANGED <<flat, games, roots, home, kind, beside, saved, rows, conf,
                            path, version>>
    <3>1. DiskTyped' BY <2>4 DEF DiskTyped
    <3> QED BY <2>1, <2>2, <3>1
  <2> QED BY <2>3, <2>4, <1>2 DEF Stop
<1>3. CASE Quit BY <1>3, <1>b, RestTyped DEF Quit
<1>4. CASE Resolve
  <2>1. DiskTyped' BY <1>4 DEF Resolve, DiskTyped
  <2>2. BookTyped' BY <1>4 DEF Resolve, BookTyped, DiskTyped
  <2> QED BY <2>1, <2>2, <1>4 DEF Resolve
<1>5. ASSUME NEW d \in Dirs, InstallGame(d) PROVE TypeOK'
  <2>1. DiskTyped' BY <1>5 DEF InstallGame, DiskTyped, Refs
  <2> QED BY <2>1, <1>5 DEF InstallGame
<1>6. ASSUME NEW e \in Installs, NEW n \in Names, Save(e, n) PROVE TypeOK'
  <2>1. Profile[e] \in Profiles BY Belongs
  <2>2. /\ kind' \in [Installs -> [Names -> {"none", "empty", "full", "link", "astray"}]]
        /\ saved' \in [Profiles -> [Names -> {"absent", "empty"} \cup Installs]]
    <3>1. CASE kind[e][n] = "link"
      <4>1. /\ kind' = kind
            /\ saved' = [saved EXCEPT ![Profile[e]][n] = IF @ \in Installs THEN @ ELSE e]
            BY <1>6, <3>1 DEF Save
      <4> QED BY <2>1, <4>1 DEF DiskTyped
    <3>2. CASE kind[e][n] # "link"
      <4>1. kind' = [kind EXCEPT ![e][n] = "full"] /\ saved' = saved
            BY <1>6, <3>2 DEF Save
      <4> QED BY <2>1, <4>1 DEF DiskTyped
    <3> QED BY <3>1, <3>2
  <2>3. DiskTyped' BY <1>6, <2>2 DEF Save, DiskTyped
  <2>4. wrote' \subseteq Installs \X Names BY <1>6 DEF Save, BookTyped
  <2>5. BookTyped' BY <1>6, <2>4 DEF Save, BookTyped
  <2> QED BY <2>3, <2>5, <1>6 DEF Save
<1>7. CASE UNCHANGED vars
  <2>1. UNCHANGED <<disk, run, book>> BY <1>7 DEF vars, disk, run, book
  <2> QED BY <2>1
<1> HIDE RunKept, DiskKept, BookKept, TypePartsNext
<1> QED BY <1>1, <1>2, <1>3, <1>4, <1>5, <1>6, <1>7 DEF Between

\* Outside an entry there is nothing to keep but the list.
LEMMA ShapeAtRest ==
  ASSUME sub' = "pick", left' = {}, Suffix(todo')
  PROVE  Shape'
  BY DEF Shape, Suffix

LEMMA ShapeBegins ==
  ASSUME NEW at, Resting(at) \/ Enter(at)
  PROVE  Shape'
  BY ShapeAtRest, SuffixBegins DEF Resting, Enter

LEMMA ShapeFramed ==
  ASSUME Shape, UNCHANGED <<run, kind, saved>>
  PROVE  Shape'
  BY DEF Shape, run, AtHand, Linking, Suffix

LEMMA ShapeBetween ==
  ASSUME Shape, ~Linking, UNCHANGED <<sub, left>>, Suffix(todo')
  PROVE  Shape'
  BY ShapeAtRest DEF Shape

LEMMA ShapeInit == Init => Shape
  BY SuffixBegins DEF Init, Shape

\* Only Shift, Tie and MakeSaves touch what an entry is at.
LEMMA ShapeStep ==
  ASSUME TypeOK, Shape, Step
  PROVE  Shape'
<1> USE ShapeFramed, ShapeBegins
<1>1. CASE Preflight
  <2>1. CASE Resting("up") \/ Enter("data") BY <2>1
  <2>2. CASE pc = "start" /\ UNCHANGED <<todo, sub, left>>
        BY <2>2, ShapeBetween DEF Linking, Shape
  <2> QED BY <1>1, <2>1, <2>2 DEF Preflight
<1>2. CASE GamesMoved
  BY <1>2, ShapeBetween DEF GamesMoved, Linking, Shape
<1>3. ASSUME NEW d \in Dirs, MoveDir(d) PROVE Shape' BY <1>3 DEF MoveDir
<1>4. CASE Direct
  <2>1. CASE Enter("names") BY <2>1
  <2>2. CASE UNCHANGED <<todo, sub, left>>
        BY <1>4, <2>2, ShapeBetween DEF Direct, Linking, Shape
  <2> QED BY <1>4, <2>1, <2>2 DEF Direct
<1>5. CASE ThroughTemporary BY <1>5 DEF ThroughTemporary
<1>6. CASE Merged BY <1>6 DEF Merged
<1>7. ASSUME NEW e \in Installs, Merge(e) PROVE Shape' BY <1>7 DEF Merge
<1>8. CASE Rename
  BY <1>8, ShapeBetween, SuffixSteps DEF Rename, Linking, Shape
<1>9. CASE PickEntry
  <2>1. CASE Linkable(AtHand)
    <3>1. Eligible(AtHand) /\ (pc = "data" => AtHand \in Nested)
          BY <2>1 DEF Linkable, Eligible
    <3>2. /\ sub' \in {"unlink", "make"} /\ left' = UserData[AtHand]
          /\ UNCHANGED <<todo, pc, kind, saved>> /\ Linking /\ todo # << >>
          BY <1>9, <2>1 DEF PickEntry, AtHand, disk
    <3>3. AtHand' = AtHand BY <3>2 DEF AtHand
    <3>4. Suffix(todo') BY <3>2 DEF Shape
    <3> QED BY <3>1, <3>2, <3>3, <3>4 DEF Shape, Linking, Eligible
  <2>2. CASE ~Linkable(AtHand)
        BY <1>9, <2>2, ShapeAtRest, SuffixSteps DEF PickEntry, Shape, AtHand
  <2> QED BY <2>1, <2>2
<1>10. CASE Unlinked
  <2>1. sub = "unlink" /\ sub' = "make" /\ UNCHANGED <<pc, todo, left, cur, kind, saved>>
        BY <1>10 DEF Unlinked, disk
  <2> QED BY <2>1 DEF Shape, AtHand, Linking, Suffix
<1>11. CASE Shift
  <2>1. AtHand \in Installs /\ cur \in Names /\ cur \in left BY <1>11, AtWork DEF Shift, Shape
  <2>2. sub' = "tie" /\ UNCHANGED <<pc, todo, left, cur>> BY <1>11 DEF Shift
  <2>3. /\ kind[AtHand] \in [Names -> {"none", "empty", "full", "link", "astray"}]
        /\ kind' = [kind EXCEPT ![AtHand][cur] = "none"]
        BY <1>11, <2>1 DEF Shift, AtHand, TypeOK
  <2>4. \A n \in Names \ {cur} : kind'[AtHand][n] = kind[AtHand][n]
        BY <2>1, <2>3 DEF TypeOK
  <2>5. kind'[AtHand][cur] = "none" BY <2>1, <2>3 DEF TypeOK
  <2>6. saved'[Profile[AtHand]][cur] # "absent"
    <3>1. Profile[AtHand] \in Profiles BY <2>1, Belongs
    <3>2. saved[Profile[AtHand]][cur] # "absent" BY <1>11 DEF Shift, Shape
    <3>3. AtHand # "absent" BY <2>1, MigrationAssumption
    <3>4. saved'[Profile[AtHand]][cur] =
             IF saved[Profile[AtHand]][cur] = "empty" /\ kind[AtHand][cur] = "full"
             THEN AtHand ELSE saved[Profile[AtHand]][cur]
          BY <1>11, <2>1, <3>1 DEF Shift, AtHand, TypeOK
    <3> QED BY <3>2, <3>3, <3>4
  <2>7. UserData[AtHand] \subseteq Names BY <2>1, Belongs
  <2> QED BY <1>11, <2>1, <2>2, <2>4, <2>5, <2>6, <2>7 DEF Shift, Shape, AtHand, Linking, Suffix
<1>12. CASE Tie
  <2>1. AtHand \in Installs /\ cur \in Names BY <1>12, AtWork DEF Tie
  <2>2. sub' = "make" /\ left' = left \ {cur} /\ UNCHANGED <<pc, todo>> BY <1>12 DEF Tie
  <2>3. \A n \in Names : kind'[AtHand][n] = IF n = cur THEN "link" ELSE kind[AtHand][n]
        BY <1>12, <2>1 DEF Tie, TypeOK, AtHand
  <2>4. UserData[AtHand] \subseteq Names BY <2>1, Belongs
  <2> QED BY <1>12, <2>2, <2>3, <2>4 DEF Tie, Shape, AtHand, Linking, Suffix
<1>13. CASE EntryLinked
  BY <1>13, ShapeAtRest, SuffixSteps DEF EntryLinked, Shape
<1>14. ASSUME NEW n \in Names, Unlink(n) PROVE Shape' BY <1>14 DEF Unlink
<1>15. ASSUME NEW n \in Names, MakeSaves(n) PROVE Shape'
  <2>1. AtHand \in Installs /\ Profile[AtHand] \in Profiles
        BY <1>15, AtWork, Belongs DEF MakeSaves
  <2>2. sub = "make" /\ n \in left /\ UNCHANGED <<pc, todo, kind>> BY <1>15 DEF MakeSaves
  <2>3. CASE kind[AtHand][n] = "link"
    <3>1. left' = left \ {n} /\ UNCHANGED <<sub, cur>> BY <1>15, <2>3 DEF MakeSaves, AtHand
    <3> QED BY <2>2, <2>3, <3>1 DEF Shape, AtHand, Linking, Suffix
  <2>4. CASE kind[AtHand][n] # "link"
    <3>1. left' = left /\ sub' = "shift" /\ cur' = n BY <1>15, <2>4 DEF MakeSaves, AtHand
    <3>2. saved'[Profile[AtHand]][n] # "absent"
          BY <1>15, <2>1 DEF MakeSaves, AtHand, TypeOK
    <3> QED BY <2>2, <2>4, <3>1, <3>2 DEF Shape, AtHand, Linking, Suffix
  <2> QED BY <2>3, <2>4
<1>16. CASE RewriteText
  BY <1>16, ShapeBetween, SuffixSteps DEF RewriteText, Linking, Shape
<1>17. CASE RewriteRows
  BY <1>17, ShapeBetween DEF RewriteRows, Linking, Shape
<1>18. CASE RewriteConfig BY <1>18 DEF RewriteConfig
<1>19. CASE Stamp BY <1>19 DEF Stamp
<1>20. ASSUME NEW from, NEW to, NextStage(from, to) PROVE Shape' BY <1>20 DEF NextStage
<1> QED BY <1>1, <1>2, <1>3, <1>4, <1>5, <1>6, <1>7, <1>8, <1>9, <1>10, <1>11, <1>12,
           <1>13, <1>14, <1>15, <1>16, <1>17, <1>18, <1>19, <1>20 DEF Step

LEMMA ShapeOthers ==
  ASSUME Shape, Start \/ Stop \/ Between \/ UNCHANGED vars
  PROVE  Shape'
<1>1. CASE Start \/ Stop \/ Quit
  BY <1>1, ShapeBegins DEF Start, Stop, Quit
<1>2. CASE Resolve \/ \E d \in Dirs : InstallGame(d)
  BY <1>2, ShapeFramed DEF Resolve, InstallGame
<1>3. ASSUME NEW e \in Installs, NEW n \in Names, Save(e, n) PROVE Shape'
  BY <1>3, ShapeBetween DEF Save, Ready, Linking, run, Shape
<1>4. CASE UNCHANGED vars
  BY <1>4, ShapeFramed DEF vars, run
<1> QED BY <1>1, <1>2, <1>3, <1>4 DEF Between

\* Every variable keeps its type, whatever a run meets and where it stops
\* (migrate, 454-492), and an entry is worked at as Shape says.
THEOREM TypeCorrect == Spec => [](TypeOK /\ Shape)
<1>1. Init => TypeOK /\ Shape BY InitTyped, ShapeInit
<1>2. TypeOK /\ Shape /\ [Next]_vars => (TypeOK /\ Shape)'
  BY StepTyped, OthersTyped, ShapeStep, ShapeOthers DEF Next
<1> QED BY <1>1, <1>2, PTL DEF Spec

-----------------------------------------------------------------------------
(* The stages of a run, and what its plan covers.                          *)

Renaming == {"games", "roots", "temporary", "names"}
Late     == {"text", "rows", "config", "data", "stamp"}

Stage ==
    /\ pc \in Renaming \cup {"link", "text", "rows", "config"} => version = 0
    /\ pc \in Working => version < 2
    /\ pc \in {"off", "up", "start"} => plan = {}
    /\ flat \cup games = Dirs
    /\ version = 0 /\ pc \in Working \ {"start"} => Derived \subseteq plan
    /\ version = 0 /\ pc \in Working \ {"start", "games"} => plan \cap flat = {}

\* A rewrite turns what the plan holds and leaves the rest.
LEMMA MovedNames ==
  ASSUME NEW refs \in SUBSET Refs
  PROVE  /\ Named(Moved(refs), "legacy") = Named(refs, "legacy") \ plan
         /\ Named(Moved(refs), "games")
               = Named(refs, "games") \cup (Named(refs, "legacy") \cap plan)
<1>1. \A r \in refs : r = <<r[1], r[2]>> /\ r[1] \in Dirs /\ r[2] \in {"legacy", "games"}
      BY DEF Refs
<1>2. ASSUME NEW d \in Dirs
      PROVE  /\ <<d, "legacy">> \in Moved(refs) <=> <<d, "legacy">> \in refs /\ d \notin plan
             /\ <<d, "games">> \in Moved(refs) <=>
                   <<d, "games">> \in refs \/ (<<d, "legacy">> \in refs /\ d \in plan)
  <2>1. ASSUME NEW form \in {"legacy", "games"}, <<d, form>> \in refs
        PROVE  <<d, IF d \in plan THEN "games" ELSE form>> \in Moved(refs)
    <3>1. <<d, form>>[1] = d /\ <<d, form>>[2] = form OBVIOUS
    <3> QED BY <2>1, <3>1, Zenon DEF Moved
  <2>2. ASSUME NEW form \in {"legacy", "games"}, <<d, form>> \in Moved(refs)
        PROVE  \E r \in refs : d = r[1] /\ form = (IF r[1] \in plan THEN "games" ELSE r[2])
    <3>1. PICK r \in refs : <<d, form>> = <<r[1], IF r[1] \in plan THEN "games" ELSE r[2]>>
          BY <2>2 DEF Moved
    <3> QED BY <3>1
  <2>3. <<d, "legacy">> \in Moved(refs) => <<d, "legacy">> \in refs /\ d \notin plan
        BY <1>1, <2>2
  <2>4. <<d, "games">> \in Moved(refs) =>
           <<d, "games">> \in refs \/ (<<d, "legacy">> \in refs /\ d \in plan)
    <3> SUFFICES ASSUME <<d, "games">> \in Moved(refs)
                 PROVE  <<d, "games">> \in refs \/ (<<d, "legacy">> \in refs /\ d \in plan)
        OBVIOUS
    <3>1. PICK r \in refs : d = r[1] /\ "games" = (IF r[1] \in plan THEN "games" ELSE r[2])
          BY <2>2
    <3>2. r = <<d, "legacy">> \/ r = <<d, "games">> BY <1>1, <3>1
    <3> QED BY <3>1, <3>2
  <2>5. <<d, "legacy">> \in refs /\ d \notin plan => <<d, "legacy">> \in Moved(refs)
        BY <2>1
  <2>6. <<d, "games">> \in refs \/ (<<d, "legacy">> \in refs /\ d \in plan)
           => <<d, "games">> \in Moved(refs)
        BY <2>1
  <2> QED BY <2>3, <2>4, <2>5, <2>6
<1> QED BY <1>2 DEF Named

LEMMA StageFramed ==
  ASSUME Stage, UNCHANGED <<pc, plan, version, flat, games, rows, conf>>
  PROVE  Stage'
  BY DEF Stage, Derived, Stored, Named

LEMMA StageAtRest ==
  ASSUME Stage, plan' = {}, pc' \in {"off", "up", "start"}, pc' = "start" => version' < 2,
         flat' \cup games' = Dirs
  PROVE  Stage'
  BY DEF Stage, Working, Renaming

\* The stage goes on with the same plan, in a run of layout 0.
LEMMA StageGoesOn ==
  ASSUME Stage, pc \in Working \ {"start", "games"}, version = 0,
         pc' \in Working \ {"start", "games"},
         UNCHANGED <<plan, version, flat, games, rows, conf>>
  PROVE  Stage'
  BY DEF Stage, Derived, Stored, Named, Working

LEMMA StageInit == Init => Stage
<1> SUFFICES ASSUME Init PROVE Stage OBVIOUS
<1>1. flat \cup games = Dirs
      BY DEF Init, FlatLibrary, LinkedLibrary
<1> QED BY <1>1 DEF Init, Stage, Working, Renaming

\* A rewrite only shrinks what a new plan would derive, so the plan keeps
\* covering it.
LEMMA StageStep ==
  ASSUME TypeOK, Stage, Step
  PROVE  Stage'
<1>1. CASE Preflight
  <2>0. pc = "start" /\ plan = {} /\ UNCHANGED disk BY <1>1 DEF Preflight, Stage
  <2>1. CASE Resting("up")
        BY <2>0, <2>1, StageAtRest DEF Resting, disk, Stage
  <2>2. CASE version = 0 /\ pc' = "games" /\ plan' = Derived
    <3>1. Derived' = Derived BY <2>0 DEF disk, Derived, Stored, Named
    <3> QED BY <2>0, <2>2, <3>1 DEF Stage, disk, Working
  <2>3. CASE version = 1 /\ Enter("data") /\ UNCHANGED plan
        BY <2>0, <2>3 DEF Stage, Enter, disk, Renaming
  <2> QED BY <1>1, <2>1, <2>2, <2>3 DEF Preflight
<1>2. CASE GamesMoved
  <2>1. pc = "games" /\ pc' = "roots" /\ plan \cap flat = {} /\ UNCHANGED <<disk, plan>>
        BY <1>2 DEF GamesMoved
  <2>2. Derived' = Derived BY <2>1 DEF disk, Derived, Stored, Named
  <2> QED BY <2>1, <2>2 DEF Stage, disk, Working, Renaming
<1>3. ASSUME NEW d \in Dirs, MoveDir(d) PROVE Stage'
  <2>1. /\ pc = "games" /\ d \in plan /\ flat' = flat \ {d} /\ games' = games \cup {d}
        /\ UNCHANGED <<pc, plan, version, rows, conf>>
        BY <1>3 DEF MoveDir, run
  <2>2. Derived' \subseteq Derived BY <2>1 DEF Derived, Stored, Named
  <2> QED BY <2>1, <2>2 DEF Stage, Working, Renaming
<1>4. ASSUME Direct \/ ThroughTemporary \/ Merged \/ (\E e \in Installs : Merge(e)) \/ Rename
      PROVE  Stage'
  <2>1. pc \in {"roots", "temporary", "names"} /\ pc' \in {"roots", "temporary", "names"}
        /\ UNCHANGED <<plan, version, flat, games, rows, conf>>
        BY <1>4 DEF Direct, ThroughTemporary, RenameRoot, Merged, Merging, Merge, Enter,
                    Rename, run
  <2> QED BY <2>1, StageGoesOn DEF Stage, Working, Renaming
<1>5. ASSUME \/ PickEntry \/ Unlinked \/ Shift \/ Tie \/ EntryLinked
             \/ \E n \in Names : Unlink(n) \/ MakeSaves(n)
      PROVE  Stage'
  BY <1>5, StageFramed DEF PickEntry, Unlinked, Shift, Tie, EntryLinked, Unlink, MakeSaves,
                           disk, run
<1>6. CASE RewriteText BY <1>6, StageFramed DEF RewriteText
<1>7. CASE RewriteRows
  <2>1. /\ pc = "rows" /\ pc' = "config" /\ rows' = Moved(rows)
        /\ UNCHANGED <<plan, version, flat, games, conf>>
        BY <1>7 DEF RewriteRows
  <2>2. Named(rows', "legacy") \subseteq Named(rows, "legacy") BY <2>1, MovedNames DEF TypeOK
  <2>3. Derived' \subseteq Derived BY <2>1, <2>2 DEF Derived, Stored, Named
  <2> QED BY <2>1, <2>3 DEF Stage, Working, Renaming
<1>8. CASE RewriteConfig
  <2>1. /\ pc = "config" /\ pc' = "data" /\ conf' = Moved(conf)
        /\ UNCHANGED <<plan, version, flat, games, rows>>
        BY <1>8 DEF RewriteConfig, Enter
  <2>2. Named(conf', "legacy") \subseteq Named(conf, "legacy") BY <2>1, MovedNames DEF TypeOK
  <2>3. Derived' \subseteq Derived BY <2>1, <2>2 DEF Derived, Stored, Named
  <2> QED BY <2>1, <2>3 DEF Stage, Working, Renaming
<1>9. CASE Stamp
  BY <1>9, StageAtRest DEF Stamp, Resting, Stage
<1>10. ASSUME NEW from \in {"names", "link", "text", "data"},
              NEW to \in {"link", "text", "rows", "stamp"},
              to = "stamp" => from = "data", from = "data" => to = "stamp",
              NextStage(from, to)
       PROVE  Stage'
  <2>1. pc = from /\ pc' = to /\ UNCHANGED <<plan, version, flat, games, rows, conf>>
        BY <1>10 DEF NextStage, Enter, disk
  <2>2. Derived' = Derived BY <2>1 DEF Derived, Stored, Named
  <2> QED BY <1>10, <2>1, <2>2 DEF Stage, Working, Renaming
<1> QED BY <1>1, <1>2, <1>3, <1>4, <1>5, <1>6, <1>7, <1>8, <1>9, <1>10 DEF Step

LEMMA StageOthers ==
  ASSUME TypeOK, Stage, Start \/ Stop \/ Between \/ UNCHANGED vars
  PROVE  Stage'
<1>1. CASE Start BY <1>1, StageAtRest DEF Start, Resting, disk, Stage
<1>2. CASE Stop
  <2>1. plan' = {} /\ pc' \in {"up", "off"} BY <1>2 DEF Stop, Resting
  <2>2. UNCHANGED <<flat, games>> BY <1>2 DEF Stop, disk
  <2> QED BY <2>1, <2>2, StageAtRest DEF Stage
<1>3. CASE Quit BY <1>3, StageAtRest DEF Quit, Resting, disk, Stage
<1>4. CASE Resolve
  <2>1. flat' = flat \ games /\ pc' = "up" /\ plan' = plan /\ pc = "up" /\ games' = games
        BY <1>4 DEF Resolve, Ready, run
  <2> QED BY <2>1, StageAtRest DEF Stage
<1>5. ASSUME NEW d \in Dirs, InstallGame(d) PROVE Stage'
  <2>1. games' = games \cup {d} /\ pc' = "up" /\ plan' = plan /\ pc = "up" /\ flat' = flat
        BY <1>5 DEF InstallGame, Ready, run
  <2> QED BY <2>1, StageAtRest DEF Stage
<1>6. ASSUME NEW e \in Installs, NEW n \in Names, Save(e, n) PROVE Stage'
  BY <1>6, StageFramed DEF Save, run
<1>7. CASE UNCHANGED vars BY <1>7, StageFramed DEF vars
<1> QED BY <1>1, <1>2, <1>3, <1>4, <1>5, <1>6, <1>7 DEF Between

-----------------------------------------------------------------------------
(* Where the installs are, and where the config says they are.  A tagged   *)
(* directory has its install's own name, so the roots never hold two of a  *)
(* name; what has its profile's name has it for good.                      *)

Taken(e) == Profile[e] \in NamesIn("emulators")

Homes ==
    /\ \A e \in Installs :
          /\ home[e].root \in roots
          /\ home[e].name \in {e, Profile[e]}
          /\ home[e].root # "emulators" => home[e].name = e
    /\ "temporary" \in roots => roots = {"temporary"}
    /\ version > 0 \/ pc \in {"names", "link"} \cup Late =>
          \A e \in Installs : home[e].root = "emulators"
    /\ pc = "names" => \A e \in Done : Taken(e)
    /\ version = 0 /\ pc \in {"link"} \cup Late => \A e \in Installs : Taken(e)

Paths ==
    /\ version = 0 => \A e \in Installs :
          \/ path[e] = In("Emulators", e)
          \/ path[e] = home[e] /\ home[e].root = "emulators" /\ Taken(e)
    /\ version > 0 \/ pc \in {"data", "stamp"} => path = home

LEMMA PlaceIs ==
  ASSUME NEW p \in Places
  PROVE  p = In(p.root, p.name) /\ p.root \in Roots
  BY DEF Places, In

LEMMA Places2 ==
  ASSUME NEW r, NEW m
  PROVE  In(r, m).root = r /\ In(r, m).name = m
  BY DEF In

LEMMA Apart ==
  ASSUME NEW e \in Installs, NEW f \in Installs
  PROVE  e # Profile[f]
  BY MigrationAssumption, Belongs

\* The config's place of every install, once the names are done.
LEMMA NewPathIsHome ==
  ASSUME TypeOK, Homes, Paths, version = 0, pc \in {"link"} \cup Late, NEW e \in Installs
  PROVE  NewPath(e) = home[e]
<1>1. home[e] \in Places /\ home[e].root = "emulators" /\ Taken(e) BY DEF TypeOK, Homes
<1>2. CASE path[e] = In("Emulators", e)
  <2>1. path[e].root = "Emulators" /\ path[e].name = e BY <1>2, Places2
  <2>2. \A f \in Installs : home[f].name = e => f = e BY Apart DEF Homes
  <2>3. NamesIn("Emulators") = {} BY DEF Homes, NamesIn
  <2>4. CASE home[e].name = Profile[e]
    <3>1. e \notin NamesIn("emulators") BY <2>2, <2>4, Apart DEF NamesIn
    <3>2. Kept(e) BY <1>1, <2>1, <2>3, <3>1, Apart DEF Kept, Taken
    <3>3. NewPath(e) = In("emulators", Profile[e]) BY <2>1, <3>2 DEF NewPath
    <3> QED BY <1>1, <2>4, <3>3, PlaceIs
  <2>5. CASE home[e].name = e
    <3>1. e \in NamesIn("emulators") BY <1>1, <2>5 DEF NamesIn
    <3>2. ~Kept(e) BY <2>1, <3>1 DEF Kept
    <3>3. NewPath(e) = In("emulators", e) BY <2>1, <3>2 DEF NewPath
    <3> QED BY <1>1, <2>5, <3>3, PlaceIs
  <2> QED BY <2>4, <2>5 DEF Homes
<1>3. CASE path[e] = home[e]
  BY <1>1, <1>3 DEF NewPath
<1> QED BY <1>2, <1>3 DEF Paths

\* A rename gives one install, with its own name in the config, its profile's.
LEMMA RenameEffect ==
  ASSUME TypeOK, Stage, Shape, Homes, Paths, Rename
  PROVE  /\ AtHand \in Installs /\ version = 0
         /\ \/ Taken(AtHand) /\ home' = home
            \/ /\ path[AtHand] = In("Emulators", AtHand)
               /\ home[AtHand] = In("emulators", AtHand)
               /\ home' = [home EXCEPT ![AtHand] = In("emulators", Profile[AtHand])]
<1>1. AtHand \in Installs /\ version = 0 /\ pc = "names"
      BY AtWork DEF Rename, Stage, Renaming
<1>2. home' = [f \in Installs |->
                  IF home[f] = In("emulators", path[AtHand].name) /\ ~Taken(AtHand)
                  THEN In("emulators", Profile[AtHand]) ELSE home[f]]
      BY DEF Rename, AtHand, Taken
<1>3. CASE Taken(AtHand)
  <2>1. home' = home BY <1>2, <1>3 DEF TypeOK
  <2> QED BY <1>1, <1>3, <2>1
<1>4. CASE ~Taken(AtHand)
  <2>1. path[AtHand] = In("Emulators", AtHand) BY <1>1, <1>4 DEF Paths
  <2>2. path[AtHand].name = AtHand BY <2>1, Places2
  <2>3. home[AtHand].root = "emulators" BY <1>1 DEF Homes
  <2>4. home[AtHand].name = AtHand BY <1>1, <1>4, <2>3 DEF Homes, Taken, NamesIn
  <2>5. home[AtHand] = In("emulators", AtHand) BY <1>1, <2>3, <2>4, PlaceIs DEF TypeOK
  <2>6. ASSUME NEW f \in Installs, home[f] = In("emulators", AtHand) PROVE f = AtHand
    <3>1. home[f].name = AtHand BY <2>6, Places2
    <3> QED BY <1>1, <3>1, Apart DEF Homes
  <2>7. home' = [home EXCEPT ![AtHand] = In("emulators", Profile[AtHand])]
        BY <1>1, <1>2, <1>4, <2>2, <2>5, <2>6 DEF TypeOK
  <2> QED BY <1>1, <2>1, <2>5, <2>7
<1> QED BY <1>3, <1>4

\* Renaming the root moves all that is below it.
LEMMA RootEffect ==
  ASSUME TypeOK, Homes, NEW from, NEW to, RenameRoot(from, to), to \in Roots,
         from # "emulators", to # "Emulators"
  PROVE  \A e \in Installs :
            /\ home'[e].name = home[e].name
            /\ home'[e].root = IF home[e].root = from THEN to ELSE home[e].root
            /\ home[e].root # from => home'[e] = home[e]
<1> SUFFICES ASSUME NEW e \in Installs
             PROVE  /\ home'[e].name = home[e].name
                    /\ home'[e].root = IF home[e].root = from THEN to ELSE home[e].root
                    /\ home[e].root # from => home'[e] = home[e]
    OBVIOUS
<1>1. home'[e] = IF home[e].root = from THEN In(to, home[e].name) ELSE home[e]
      BY DEF RenameRoot
<1> QED BY <1>1, Places2

LEMMA HomesFramed ==
  ASSUME Homes, Paths, UNCHANGED <<home, roots, path, pc, todo, version>>
  PROVE  Homes' /\ Paths'
<1>1. \A e : Taken(e)' = Taken(e) BY DEF Taken, NamesIn
<1>2. Done' = Done BY DEF Done, Rest
<1> QED BY <1>1, <1>2 DEF Homes, Paths

\* Before the names only the root matters, and after a run nothing.
LEMMA HomesEarly ==
  ASSUME Homes, Paths, UNCHANGED <<home, roots, path, version>>,
         pc' \notin {"names", "link"} \cup Late
  PROVE  Homes' /\ Paths'
<1>1. \A e : Taken(e)' = Taken(e) BY DEF Taken, NamesIn
<1> QED BY <1>1 DEF Homes, Paths, Late

\* After them nothing moves.
LEMMA HomesLate ==
  ASSUME Homes, Paths, pc \in {"link"} \cup Late, pc' \in {"link"} \cup Late,
         UNCHANGED <<home, roots, path, version>>,
         pc' \in {"data", "stamp"} => pc \in {"data", "stamp"}
  PROVE  Homes' /\ Paths'
<1>1. \A e : Taken(e)' = Taken(e) BY DEF Taken, NamesIn
<1> QED BY <1>1 DEF Homes, Paths, Late

LEMMA HomesInit == Init => Homes /\ Paths
<1> SUFFICES ASSUME Init PROVE Homes /\ Paths OBVIOUS
<1>0. pc = "off" /\ path = home BY DEF Init
<1>1. CASE FlatLibrary
  <2>1. version = 0 BY <1>1 DEF FlatLibrary
  <2>2. PICK new \in SUBSET Fresh :
           home = [e \in Installs |-> IF e \in new THEN In("emulators", Profile[e])
                                      ELSE In("Emulators", e)]
        BY <1>1 DEF FlatLibrary
  <2>3. \A e \in Installs : \/ home[e] = In("emulators", Profile[e])
                            \/ home[e] = In("Emulators", e)
        BY <2>2
  <2>4. roots = {home[e].root : e \in Installs} BY <1>1 DEF FlatLibrary
  <2>5. \A e \in Installs : home[e].root \in roots BY <2>4
  <2>6. "temporary" \notin roots BY <2>3, <2>4, Places2
  <2>7. \A e \in Installs : home[e].name \in {e, Profile[e]}
                            /\ (home[e].root # "emulators" => home[e].name = e)
        BY <2>3, Places2
  <2>8. Homes BY <1>0, <2>1, <2>5, <2>6, <2>7 DEF Homes, Late
  <2>9. ASSUME NEW e \in Installs, home[e] = In("emulators", Profile[e])
        PROVE  home[e].root = "emulators" /\ Taken(e)
    <3>1. home[e].root = "emulators" /\ home[e].name = Profile[e] BY <2>9, Places2
    <3> QED BY <3>1 DEF Taken, NamesIn
  <2>10. Paths BY <1>0, <2>1, <2>3, <2>9 DEF Paths
  <2> QED BY <2>8, <2>10
<1>2. CASE LinkedLibrary
  <2>1. version = 1 /\ roots = {"emulators"} BY <1>2 DEF LinkedLibrary
  <2>2. \A e \in Installs : \/ home[e] = In("emulators", Profile[e])
                            \/ home[e] = In("emulators", e)
        BY <1>2 DEF LinkedLibrary
  <2>3. \A e \in Installs : home[e].root = "emulators" /\ home[e].name \in {e, Profile[e]}
        BY <2>2, Places2
  <2>4. Homes BY <1>0, <2>1, <2>3 DEF Homes, Late
  <2> QED BY <1>0, <2>1, <2>4 DEF Paths
<1> QED BY <1>1, <1>2 DEF Init

\* Each way to rename a root, the merge and the tagged names, one by one.
LEMMA HomesStep ==
  ASSUME TypeOK, Shape, Stage, Homes, Paths, Step
  PROVE  Homes' /\ Paths'
<1>1. CASE Preflight
  <2>1. UNCHANGED <<home, roots, path, version>> BY <1>1 DEF Preflight, disk
  <2>2. CASE pc' \in {"up", "games"} BY <2>1, <2>2, HomesEarly DEF Late
  <2>3. CASE version = 1 /\ pc' = "data"
    <3>1. path = home BY <2>3 DEF Paths
    <3>2. \A e \in Installs : home[e].root = "emulators"
          BY <2>3 DEF Homes
    <3> QED BY <2>1, <2>3, <3>1, <3>2 DEF Homes, Paths
  <2> QED BY <1>1, <2>2, <2>3 DEF Preflight, Resting, Enter
<1>2. CASE GamesMoved BY <1>2, HomesEarly DEF GamesMoved, disk, Late
<1>3. ASSUME NEW d \in Dirs, MoveDir(d) PROVE Homes' /\ Paths'
  BY <1>3, HomesFramed DEF MoveDir, run
<1>4. CASE Direct
  <2>0. version = 0 /\ pc = "roots" /\ "emulators" \notin roots /\ UNCHANGED <<path, version>>
        BY <1>4 DEF Direct, RenameRoot, Stage, Renaming
  <2>1. PICK to \in {"emulators", "temporary"} :
           /\ RenameRoot("Emulators", to)
           /\ to = "emulators" => pc' = "names" /\ todo' = Entries
           /\ to = "temporary" => pc' = "temporary"
        BY <1>4 DEF Direct, Enter
  <2>2. "Emulators" \in roots /\ "temporary" \notin roots
        /\ roots' = (roots \ {"Emulators"}) \cup {to}
        BY <2>1 DEF RenameRoot, Homes
  <2>3. roots = {"Emulators"} BY <2>0, <2>2 DEF TypeOK, Roots
  <2>4. \A e \in Installs : home[e].root = "Emulators" /\ home[e].name = e
        BY <2>3 DEF Homes
  <2>5. \A e \in Installs : home'[e].name = e /\ home'[e].root = to
        BY <2>1, <2>4, RootEffect DEF Roots
  <2>6. \A e \in Installs : path'[e] = In("Emulators", e) BY <2>0, <2>4 DEF Paths
  <2>7. roots' = {to} BY <2>2, <2>3
  <2>8. pc' = "names" => Done' = {}
        BY <2>1, SuffixBegins DEF Done
  <2> QED BY <2>0, <2>1, <2>5, <2>6, <2>7, <2>8 DEF Homes, Paths, Late
<1>5. CASE ThroughTemporary
  <2>0. version = 0 /\ UNCHANGED <<path, version>>
        BY <1>5 DEF ThroughTemporary, RenameRoot, Stage, Renaming
  <2>1. RenameRoot("temporary", "emulators") /\ pc' = "names" /\ todo' = Entries
        BY <1>5 DEF ThroughTemporary, Enter
  <2>2. roots = {"temporary"} /\ roots' = {"emulators"}
        BY <2>1 DEF RenameRoot, Homes
  <2>3. \A e \in Installs : home[e].root = "temporary" /\ home[e].name = e
        BY <2>2 DEF Homes
  <2>4. \A e \in Installs : home'[e].name = e /\ home'[e].root = "emulators"
        BY <2>1, <2>3, RootEffect DEF Roots
  <2>5. \A e \in Installs : path'[e] = In("Emulators", e) BY <2>0, <2>3 DEF Paths
  <2>6. Done' = {} BY <2>1, SuffixBegins DEF Done
  <2> QED BY <2>0, <2>1, <2>2, <2>4, <2>5, <2>6 DEF Homes, Paths, Late
<1>6. CASE Merged
  <2>0. version = 0 /\ pc = "roots" /\ UNCHANGED <<path, version, home>>
        BY <1>6 DEF Merged, Merging, Stage, Renaming
  <2>1. Mergeable = {} /\ pc' = "names" /\ todo' = Entries
        /\ roots' = {r \in roots : r = "emulators" \/ NamesIn(r) # {}}
        BY <1>6 DEF Merged, Enter
  <2>2. \A e \in Installs : home[e].root = "emulators"
    <3> SUFFICES ASSUME NEW e \in Installs, home[e].root # "emulators" PROVE FALSE
        OBVIOUS
    <3>1. home[e].name = e BY DEF Homes
    <3>2. PICK f \in Installs : home[f].root = "emulators" /\ home[f].name = e
          BY <2>1, <3>1 DEF Mergeable, NamesIn
    <3>3. f = e BY <3>2, Apart DEF Homes
    <3> QED BY <3>2, <3>3
  <2>3. \A e : Taken(e)' = Taken(e) BY <2>0 DEF Taken, NamesIn
  <2>4. Done' = {} BY <2>1, SuffixBegins DEF Done
  <2>5. \A e \in Installs : home[e].root \in roots' BY <2>1, <2>2 DEF Homes
  <2> QED BY <2>0, <2>1, <2>2, <2>3, <2>4, <2>5 DEF Homes, Paths, Late
<1>7. ASSUME NEW e \in Installs, Merge(e) PROVE Homes' /\ Paths'
  <2>0. version = 0 /\ pc = "roots" /\ UNCHANGED <<pc, path, version, roots>>
        BY <1>7 DEF Merge, Merging, Stage, Renaming, run
  <2>1. home[e].root # "emulators" /\ home' = [home EXCEPT ![e].root = "emulators"]
        BY <1>7 DEF Merge, Mergeable
  <2>2. "emulators" \in roots
    <3>1. "emulators" \in roots \/ roots = {} BY <1>7 DEF Merge, Merging
    <3> QED BY <3>1 DEF Homes
  <2>3. home'[e].root = "emulators" /\ home'[e].name = home[e].name
        BY <2>1 DEF TypeOK, Places
  <2>4. \A f \in Installs \ {e} : home'[f] = home[f] BY <2>1 DEF TypeOK
  <2>5. \A f \in Installs : Taken(f) => Taken(f)'
    <3> TAKE f \in Installs
    <3> HAVE Taken(f)
    <3>1. PICK g \in Installs : home[g].root = "emulators" /\ home[g].name = Profile[f]
          BY DEF Taken, NamesIn
    <3>2. g # e BY <2>1, <3>1
    <3> QED BY <2>4, <3>1, <3>2 DEF Taken, NamesIn
  <2>6. path[e] = In("Emulators", e) BY <2>0, <2>1 DEF Paths
  <2>7. Homes' BY <2>0, <2>2, <2>3, <2>4 DEF Homes, Late
  <2>8. Paths' BY <2>0, <2>4, <2>5, <2>6 DEF Paths
  <2> QED BY <2>7, <2>8
<1>8. CASE Rename
  <2>0. AtHand \in Installs /\ version = 0 /\ pc = "names" /\ todo' = Tail(todo)
        /\ todo # << >> /\ UNCHANGED <<pc, path, version, roots>>
        BY <1>8, RenameEffect DEF Rename
  <2>1. Done' \subseteq Done \cup {AtHand}
        BY <2>0, SuffixSteps DEF Done, Shape, AtHand
  <2>2. CASE Taken(AtHand) /\ home' = home
    <3>1. \A f : Taken(f)' = Taken(f) BY <2>2 DEF Taken, NamesIn
    <3> QED BY <2>0, <2>1, <2>2, <3>1 DEF Homes, Paths, Late
  <2>3. CASE /\ path[AtHand] = In("Emulators", AtHand)
             /\ home[AtHand] = In("emulators", AtHand)
             /\ home' = [home EXCEPT ![AtHand] = In("emulators", Profile[AtHand])]
    <3>1. /\ home'[AtHand].root = "emulators" /\ home'[AtHand].name = Profile[AtHand]
          /\ \A f \in Installs \ {AtHand} : home'[f] = home[f]
          BY <2>0, <2>3, Places2 DEF TypeOK
    <3>2. ASSUME NEW f \in Installs, Taken(f) PROVE Taken(f)'
      <4>1. PICK g \in Installs : home[g].root = "emulators" /\ home[g].name = Profile[f]
            BY <3>2 DEF Taken, NamesIn
      <4>2. g # AtHand BY <4>1, <2>3, <2>0, Places2, Apart
      <4> QED BY <3>1, <4>1, <4>2 DEF Taken, NamesIn
    <3>3. ASSUME NEW f \in Installs, f = AtHand PROVE Taken(f)'
      BY <2>0, <3>1, <3>3 DEF Taken, NamesIn
    <3>4. \A f \in Done' : Taken(f)'
      <4> TAKE f \in Done'
      <4>1. f \in Installs /\ (f \in Done \/ f = AtHand) BY <2>1 DEF Done
      <4> QED BY <2>0, <3>2, <3>3, <4>1 DEF Homes
    <3>5. \A f \in Installs : home[f].root = "emulators" BY <2>0 DEF Homes
    <3>6. Homes'
      <4>1. \A f \in Installs : home'[f].root = "emulators" BY <3>1, <3>5
      <4>2. \A f \in Installs : home'[f].name \in {f, Profile[f]} BY <3>1 DEF Homes
      <4>3. "emulators" \in roots BY <2>0, <3>5 DEF Homes
      <4> QED BY <2>0, <3>4, <4>1, <4>2, <4>3 DEF Homes, Late
    <3>7. Paths' BY <2>0, <2>3, <3>1, <3>2 DEF Paths
    <3> QED BY <3>6, <3>7
  <2> QED BY <1>8, <2>2, <2>3, RenameEffect
<1>9. ASSUME \/ PickEntry \/ Unlinked \/ Shift \/ Tie \/ EntryLinked
             \/ \E n \in Names : Unlink(n) \/ MakeSaves(n)
      PROVE  Homes' /\ Paths'
  <2>1. pc \in {"link", "data"} /\ pc' = pc /\ UNCHANGED <<home, roots, path, version>>
        BY <1>9 DEF PickEntry, Unlinked, Shift, Tie, EntryLinked, Unlink, MakeSaves, disk, run,
                    Shape, Linking
  <2> QED BY <2>1, HomesLate DEF Late
<1>10. CASE RewriteText \/ RewriteRows
  <2>1. /\ pc \in {"text", "rows"} /\ pc' \in {"text", "config"}
        /\ UNCHANGED <<home, roots, path, version>>
        BY <1>10 DEF RewriteText, RewriteRows
  <2> QED BY <2>1, HomesLate DEF Late
<1>11. CASE RewriteConfig
  <2>1. /\ pc = "config" /\ pc' = "data" /\ version = 0
        /\ path' = [e \in Installs |-> NewPath(e)] /\ UNCHANGED <<home, roots, version>>
        BY <1>11 DEF RewriteConfig, Enter, Stage
  <2>2. path' = home BY <2>1, NewPathIsHome DEF Late, TypeOK
  <2>3. \A e : Taken(e)' = Taken(e) BY <2>1 DEF Taken, NamesIn
  <2>4. \A e \in Installs : home[e].root = "emulators" /\ Taken(e) BY <2>1 DEF Homes, Late
  <2> QED BY <2>1, <2>2, <2>3, <2>4 DEF Homes, Paths, Late
<1>12. CASE Stamp
  <2>1. /\ pc = "stamp" /\ pc' = "up" /\ version' = 2 /\ UNCHANGED <<home, roots, path>>
        BY <1>12 DEF Stamp, Resting
  <2>2. path = home /\ \A e \in Installs : home[e].root = "emulators"
        BY <2>1 DEF Homes, Paths, Late
  <2> QED BY <2>1, <2>2 DEF Homes, Paths, Late
<1>13. CASE NextStage("names", "link")
  <2>1. /\ pc = "names" /\ pc' = "link" /\ todo = << >> /\ version = 0
        /\ UNCHANGED <<home, roots, path, version>>
        BY <1>13 DEF NextStage, Enter, disk, Stage, Renaming
  <2>2. \A e \in Installs : Taken(e) BY <2>1, SuffixBegins DEF Homes, Done
  <2>3. \A e : Taken(e)' = Taken(e) BY <2>1 DEF Taken, NamesIn
  <2> QED BY <2>1, <2>2, <2>3 DEF Homes, Paths, Late
<1>14. ASSUME NextStage("link", "text") \/ NextStage("text", "rows") \/ NextStage("data", "stamp")
       PROVE  Homes' /\ Paths'
  <2>1. /\ pc \in {"link", "text", "data"} /\ pc' \in {"text", "rows", "stamp"}
        /\ pc' = "stamp" => pc = "data"
        /\ UNCHANGED <<home, roots, path, version>>
        BY <1>14 DEF NextStage, Enter, disk
  <2> QED BY <2>1, HomesLate DEF Late
<1> QED BY <1>1, <1>2, <1>3, <1>4, <1>5, <1>6, <1>7, <1>8, <1>9, <1>10, <1>11, <1>12,
           <1>13, <1>14 DEF Step

\* Between two runs nobody moves an install.
LEMMA HomesOthers ==
  ASSUME Homes, Paths, Start \/ Stop \/ Between \/ UNCHANGED vars
  PROVE  Homes' /\ Paths'
<1>1. CASE Start \/ Stop \/ Quit
  <2>1. pc' \in {"start", "up", "off"} /\ UNCHANGED <<home, roots, path, version>>
        BY <1>1 DEF Start, Stop, Quit, Resting, disk
  <2> QED BY <2>1, HomesEarly DEF Late
<1>2. ASSUME \/ Resolve \/ (\E d \in Dirs : InstallGame(d))
             \/ (\E e \in Installs, n \in Names : Save(e, n)) \/ UNCHANGED vars
      PROVE  Homes' /\ Paths'
  BY <1>2, HomesFramed DEF Resolve, InstallGame, Save, run, vars
<1> QED BY <1>1, <1>2 DEF Between

-----------------------------------------------------------------------------
(* What a step does to the links, to saves/ and to the names in the old    *)
(* form that somebody may still turn.                                      *)

LEMMA AtHandKept ==
  ASSUME UNCHANGED todo
  PROVE  AtHand' = AtHand /\ Done' = Done
  BY DEF AtHand, Done, Rest

\* The steps that leave links and saves/ alone.
LEMMA SavesUntouched ==
  ASSUME [Next]_vars, ~Shift, ~Tie, \A n \in Names : ~MakeSaves(n),
         \A e \in Installs, n \in Names : ~Save(e, n)
  PROVE  UNCHANGED <<kind, saved>>
<1>1. CASE Start \/ Stop
  BY <1>1 DEF Start, Stop, disk
<1>2. CASE Step
  BY <1>2 DEF Step, Preflight, GamesMoved, MoveDir, Direct, ThroughTemporary, RenameRoot,
              Merged, Merge, Rename, PickEntry, Unlinked, EntryLinked, Unlink,
              RewriteText, RewriteRows, RewriteConfig, Stamp, NextStage, disk
<1>3. CASE Between
  BY <1>3 DEF Between, Quit, Resolve, InstallGame, disk
<1> QED BY <1>1, <1>2, <1>3 DEF Next, vars

\* A link stays, and a new one is the one being tied.  A file leaves its
\* install when it is shifted.
LEMMA KindSteps ==
  ASSUME TypeOK, Shape, [Next]_vars, NEW e \in Installs, NEW n \in Names
  PROVE  /\ kind[e][n] = "link" => kind'[e][n] = "link"
         /\ kind'[e][n] = "link" /\ kind[e][n] # "link" => Tie /\ e = AtHand
         /\ kind[e][n] = "full" /\ kind'[e][n] # "full" => Shift /\ e = AtHand /\ n = cur
<1>1. CASE Shift
  <2>1. AtHand \in Installs /\ cur \in Names /\ kind[AtHand][cur] # "link"
        BY <1>1, AtWork DEF Shift, Shape
  <2>2. kind'[e][n] = IF e = AtHand /\ n = cur THEN "none" ELSE kind[e][n]
        BY <1>1, <2>1 DEF Shift, AtHand, TypeOK
  <2> QED BY <1>1, <2>1, <2>2
<1>2. CASE Tie
  <2>1. AtHand \in Installs /\ cur \in Names /\ kind[AtHand][cur] = "none"
        BY <1>2, AtWork DEF Tie, Shape
  <2>2. kind'[e][n] = IF e = AtHand /\ n = cur THEN "link" ELSE kind[e][n]
        BY <1>2, <2>1 DEF Tie, AtHand, TypeOK
  <2> QED BY <1>2, <2>1, <2>2
<1>3. ASSUME NEW m \in Names, MakeSaves(m)
      PROVE  kind' = kind
  BY <1>3 DEF MakeSaves
<1>4. ASSUME NEW f \in Installs, NEW m \in Names, Save(f, m)
      PROVE  kind'[e][n] = IF e = f /\ n = m /\ kind[f][m] # "link" THEN "full" ELSE kind[e][n]
  <2>1. CASE kind[f][m] = "link" BY <1>4, <2>1 DEF Save
  <2>2. CASE kind[f][m] # "link"
    <3>1. kind' = [kind EXCEPT ![f][m] = "full"] BY <1>4, <2>2 DEF Save
    <3> QED BY <2>2, <3>1 DEF TypeOK
  <2> QED BY <2>1, <2>2
<1> QED BY <1>1, <1>2, <1>3, <1>4, SavesUntouched

\* saves/ gains directories and files and loses neither.
LEMMA SavedSteps ==
  ASSUME TypeOK, Shape, [Next]_vars, NEW p \in Profiles, NEW n \in Names,
         saved'[p][n] # saved[p][n]
  PROVE  \/ /\ saved[p][n] = "absent" /\ saved'[p][n] = "empty"
            /\ MakeSaves(n) /\ p = Profile[AtHand]
         \/ /\ saved[p][n] = "empty" /\ saved'[p][n] = AtHand
            /\ Shift /\ p = Profile[AtHand] /\ n = cur /\ kind[AtHand][n] = "full"
         \/ \E e \in Installs : /\ Save(e, n) /\ kind[e][n] = "link" /\ p = Profile[e]
                                /\ saved[p][n] \notin Installs /\ saved'[p][n] = e
<1>1. CASE Shift
  <2>1. AtHand \in Installs /\ cur \in Names /\ Profile[AtHand] \in Profiles
        BY <1>1, AtWork, Belongs DEF Shift
  <2>2. saved'[p][n] = IF /\ p = Profile[AtHand] /\ n = cur
                          /\ saved[p][n] = "empty" /\ kind[AtHand][n] = "full"
                       THEN AtHand ELSE saved[p][n]
        BY <1>1, <2>1 DEF Shift, AtHand, TypeOK
  <2> QED BY <1>1, <2>2
<1>2. CASE Tie
  BY <1>2 DEF Tie
<1>3. ASSUME NEW m \in Names, MakeSaves(m)
      PROVE  saved'[p][n] = IF p = Profile[AtHand] /\ n = m /\ saved[p][n] = "absent"
                            THEN "empty" ELSE saved[p][n]
  <2>1. Profile[AtHand] \in Profiles
        BY <1>3, AtWork, Belongs DEF MakeSaves
  <2> QED BY <1>3, <2>1 DEF MakeSaves, AtHand, TypeOK
<1>4. ASSUME NEW f \in Installs, NEW m \in Names, Save(f, m)
      PROVE  saved'[p][n] = IF /\ p = Profile[f] /\ n = m /\ kind[f][m] = "link"
                               /\ saved[p][n] \notin Installs
                            THEN f ELSE saved[p][n]
  <2>1. Profile[f] \in Profiles BY Belongs
  <2>2. CASE kind[f][m] = "link"
    <3>1. saved' = [saved EXCEPT ![Profile[f]][m] = IF @ \in Installs THEN @ ELSE f]
          BY <1>4, <2>2 DEF Save
    <3> QED BY <2>1, <2>2, <3>1 DEF TypeOK
  <2>3. CASE kind[f][m] # "link" BY <1>4, <2>3 DEF Save
  <2> QED BY <2>2, <2>3
<1>5. ASSUME NEW m \in Names, MakeSaves(m) PROVE MakeSaves(n) /\ p = Profile[AtHand]
      /\ saved[p][n] = "absent" /\ saved'[p][n] = "empty"
  BY <1>3, <1>5
<1>6. ASSUME NEW f \in Installs, NEW m \in Names, Save(f, m)
      PROVE  /\ Save(f, n) /\ kind[f][n] = "link" /\ p = Profile[f]
             /\ saved[p][n] \notin Installs /\ saved'[p][n] = f
  BY <1>4, <1>6
<1> QED BY <1>1, <1>2, <1>5, <1>6, SavesUntouched

\* A link is for good, so is a linked profile.
LEMMA LinksStay ==
  ASSUME TypeOK, Shape, [Next]_vars, NEW e \in Installs
  PROVE  /\ OwnsLinks(e) => OwnsLinks(e)'
         /\ OwnsLinks(e)' /\ ~OwnsLinks(e) => Tie /\ e = AtHand
         /\ Linked(e) => Linked(e)'
         /\ Tied(Profile[e]) => Tied(Profile[e])'
<1>1. OwnsLinks(e) => OwnsLinks(e)' BY KindSteps DEF OwnsLinks
<1>2. OwnsLinks(e)' /\ ~OwnsLinks(e) => Tie /\ e = AtHand BY KindSteps DEF OwnsLinks
<1>3. \A f \in Installs : Linked(f) => Linked(f)' BY KindSteps, Belongs DEF Linked
<1>4. Tied(Profile[e]) => Tied(Profile[e])' BY <1>3 DEF Tied, Of
<1> QED BY <1>1, <1>2, <1>3, <1>4

\* What was cut is not forgotten.
LEMMA CutStays ==
  ASSUME [Next]_vars
  PROVE  cut \subseteq cut'
<1>1. CASE Stop BY <1>1 DEF Stop
<1>2. CASE UNCHANGED book BY <1>2 DEF book
<1>3. CASE Start BY <1>3, <1>2 DEF Start
<1>4. CASE Step
  BY <1>4, <1>2 DEF Step, Preflight, GamesMoved, MoveDir, Direct, ThroughTemporary, RenameRoot,
              Merged, Merge, Rename, PickEntry, Unlinked, EntryLinked, Unlink, Shift, Tie,
              MakeSaves, RewriteText, RewriteRows, RewriteConfig, Stamp, NextStage, book
<1>5. CASE Between
  BY <1>5, <1>2 DEF Between, Quit, Resolve, InstallGame, Save
<1> QED BY <1>1, <1>3, <1>4, <1>5 DEF Next, vars

\* Nothing is named in the old form that was not before, and a plan takes in
\* nothing that it does not find named or probed.
Exposed      == Derived \cup plan
Rewritten(e) == Named(text[e], "legacy") \cap Exposed = {}

LEMMA TextSteps ==
  ASSUME TypeOK, [Next]_vars, NEW e \in Installs
  PROVE  /\ Named(text'[e], "legacy") \subseteq Named(text[e], "legacy")
         /\ text'[e] # text[e] => RewriteText \/ (Stop /\ text'[e] = {})
<1>1. CASE RewriteText
  <2>1. text'[e] = text[e] \/ text'[e] = Moved(text[e]) BY <1>1 DEF RewriteText
  <2>2. text[e] \in SUBSET Refs BY DEF TypeOK
  <2> QED BY <1>1, <2>1, <2>2, MovedNames
<1>2. CASE Stop
  <2>1. text'[e] = text[e] \/ text'[e] = {} BY <1>2 DEF Stop, disk, TypeOK
  <2> QED BY <1>2, <2>1 DEF Named
<1>3. CASE Start \/ UNCHANGED vars BY <1>3 DEF Start, disk, vars
<1>4. CASE Step /\ ~RewriteText
  BY <1>4 DEF Step, Preflight, GamesMoved, MoveDir, Direct, ThroughTemporary, RenameRoot,
              Merged, Merge, Rename, PickEntry, Unlinked, EntryLinked, Unlink, Shift, Tie,
              MakeSaves, RewriteRows, RewriteConfig, Stamp, NextStage, disk
<1>5. CASE Between
  BY <1>5 DEF Between, Quit, Resolve, InstallGame, Save, disk
<1> QED BY <1>1, <1>2, <1>3, <1>4, <1>5 DEF Next

\* Only a rewrite takes an old name away, only a move or the user a
\* directory.
LEMMA RefsSteps ==
  ASSUME TypeOK, [Next]_vars
  PROVE  /\ Stored' \subseteq Stored /\ flat' \subseteq flat /\ games \subseteq games'
         /\ Stored' # Stored => RewriteRows \/ RewriteConfig
         /\ flat' # flat => Resolve \/ \E d \in Dirs : MoveDir(d)
<1>1. CASE RewriteRows
  <2>1. Named(rows', "legacy") \subseteq Named(rows, "legacy")
        BY <1>1, MovedNames DEF RewriteRows, TypeOK
  <2>2. UNCHANGED <<conf, flat, games>> BY <1>1 DEF RewriteRows
  <2> QED BY <1>1, <2>1, <2>2 DEF Stored, Named
<1>2. CASE RewriteConfig
  <2>1. Named(conf', "legacy") \subseteq Named(conf, "legacy")
        BY <1>2, MovedNames DEF RewriteConfig, TypeOK
  <2>2. UNCHANGED <<rows, flat, games>> BY <1>2 DEF RewriteConfig
  <2> QED BY <1>2, <2>1, <2>2 DEF Stored, Named
<1>3. ASSUME NEW d \in Dirs, InstallGame(d)
      PROVE  Stored' = Stored /\ flat' = flat /\ games \subseteq games'
  <2>1. /\ rows' = rows \cup {<<d, "games">>} /\ games' = games \cup {d}
        /\ UNCHANGED <<conf, flat>>
        BY <1>3 DEF InstallGame
  <2>2. Named(rows', "legacy") = Named(rows, "legacy") BY <2>1 DEF Named
  <2> QED BY <2>1, <2>2 DEF Stored, Named
<1>4. ASSUME Resolve \/ \E d \in Dirs : MoveDir(d)
      PROVE  Stored' = Stored /\ flat' \subseteq flat /\ games \subseteq games'
  <2>1. UNCHANGED <<rows, conf>> /\ flat' \subseteq flat /\ games \subseteq games'
        BY <1>4 DEF Resolve, MoveDir
  <2> QED BY <2>1 DEF Stored, Named
<1>5. CASE UNCHANGED <<rows, conf, flat, games>>
  BY <1>5 DEF Stored, Named
<1>6. CASE Start \/ Stop \/ UNCHANGED vars
  BY <1>5, <1>6 DEF Start, Stop, vars, disk
<1>7. CASE Step /\ ~RewriteRows /\ ~RewriteConfig /\ ~(\E d \in Dirs : MoveDir(d))
  BY <1>5, <1>7 DEF Step, Preflight, GamesMoved, Direct, ThroughTemporary, RenameRoot,
              Merged, Merge, Rename, PickEntry, Unlinked, EntryLinked, Unlink, Shift, Tie,
              MakeSaves, RewriteText, Stamp, NextStage, disk
<1>8. CASE Between /\ ~Resolve /\ ~(\E d \in Dirs : InstallGame(d))
  BY <1>5, <1>8 DEF Between, Quit, Save, disk
<1> QED BY <1>1, <1>2, <1>3, <1>4, <1>6, <1>7, <1>8 DEF Next, Between

\* A plan is made at the start of a run and dropped at its end.
LEMMA PlanSteps ==
  ASSUME [Next]_vars
  PROVE  plan' = plan \/ plan' = {} \/ (Preflight /\ pc = "start" /\ plan' = Derived)
<1>1. CASE Start \/ Stop \/ UNCHANGED vars BY <1>1 DEF Start, Stop, vars, Resting
<1>2. CASE Step
  BY <1>2 DEF Step, Preflight, GamesMoved, MoveDir, Direct, ThroughTemporary, RenameRoot,
              Merged, Merge, Rename, PickEntry, Unlinked, EntryLinked, Unlink, Shift, Tie,
              MakeSaves, RewriteText, RewriteRows, RewriteConfig, Stamp, NextStage, run, Resting
<1>3. CASE Between
  BY <1>3 DEF Between, Quit, Resolve, InstallGame, Save, run, Resting
<1> QED BY <1>1, <1>2, <1>3 DEF Next

LEMMA ExposureShrinks ==
  ASSUME TypeOK, [Next]_vars
  PROVE  /\ Exposed' \subseteq Exposed
         /\ \A e \in Installs : Rewritten(e) => Rewritten(e)'
<1>1. Derived' \subseteq Derived BY RefsSteps DEF Derived
<1>2. Exposed' \subseteq Exposed BY <1>1, PlanSteps DEF Exposed
<1>3. \A e \in Installs : Rewritten(e) => Rewritten(e)'
      BY <1>2, TextSteps DEF Rewritten
<1> QED BY <1>2, <1>3

\* Only the last step of a run stamps.
LEMMA VersionSteps ==
  ASSUME [Next]_vars
  PROVE  version' = version \/ (Stamp /\ version' = 2)
<1>1. CASE Start \/ Stop \/ UNCHANGED vars BY <1>1 DEF Start, Stop, vars, disk
<1>2. CASE Step
  BY <1>2 DEF Step, Preflight, GamesMoved, MoveDir, Direct, ThroughTemporary, RenameRoot,
              Merged, Merge, Rename, PickEntry, Unlinked, EntryLinked, Unlink, Shift, Tie,
              MakeSaves, RewriteText, RewriteRows, RewriteConfig, Stamp, NextStage, disk
<1>3. CASE Between
  BY <1>3 DEF Between, Quit, Resolve, InstallGame, Save, disk
<1> QED BY <1>1, <1>2, <1>3 DEF Next

-----------------------------------------------------------------------------
(* Who gets the links of a profile.                                        *)

Chosen(e) == e \in Owner(Profile[e])

\* Nobody else has a link into saves/<profile>, or a file there.
Sole(e) ==
    /\ \A b \in Of(Profile[e]) \ {e} : ~OwnsLinks(b)
    /\ \A n \in Names : saved[Profile[e]][n] \in {"absent", "empty", e}

\* A profile has one chosen install at most, and it can be linked.
LEMMA ChosenIsOne ==
  ASSUME NEW e \in Installs, Chosen(e)
  PROVE  /\ Eligible(e)
         /\ \A f \in Installs : Chosen(f) /\ Profile[f] = Profile[e] => f = e
<1> DEFINE S == {f \in Of(Profile[e]) : UserData[f] # {} /\ f \notin Hollow}
<1>1. Owner(Profile[e]) = First(S) BY DEF Owner
<1>2. First(S) \subseteq S /\ \A f, g \in First(S) : f = g
      <2> HIDE DEF S
      <2> QED BY FirstIsOne
<1>3. Eligible(e) BY <1>1, <1>2 DEF Chosen, Eligible
<1> HIDE DEF S
<1> QED BY <1>1, <1>2, <1>3 DEF Chosen

\* When an install that can be linked is left behind, its profile's chosen
\* one is behind as well; and it is the chosen one, if all that can be linked
\* are still ahead.
LEMMA ChosenAndList ==
  ASSUME Suffix(todo), todo # << >>, Eligible(AtHand)
  PROVE  /\ \A e \in Installs : Chosen(e) /\ Profile[e] = Profile[AtHand]
                                  => e \notin Rest(Tail(todo))
         /\ (\A e \in Installs : Eligible(e) /\ Profile[e] = Profile[AtHand] => e \in Rest(todo))
               => Chosen(AtHand)
<1> DEFINE S == {e \in Of(Profile[AtHand]) : UserData[e] # {} /\ e \notin Hollow}
<1>1. AtHand \in Installs BY SuffixSteps DEF AtHand
<1>2. Head(todo) \in S BY <1>1 DEF Of, Eligible, AtHand
<1>3. /\ \A e \in First(S) : e \notin Rest(Tail(todo))
      /\ (\A e \in S \cap Installs : e \in Rest(todo)) => Head(todo) \in First(S)
      <2> HIDE DEF S
      <2> QED BY <1>2, FirstAndRest
<1>4. \A e \in S : e \in Installs /\ Eligible(e) /\ Profile[e] = Profile[AtHand]
      BY DEF Of, Eligible
<1>5. Owner(Profile[AtHand]) = First(S) BY DEF Owner
<1> HIDE DEF S
<1>6. \A e \in Installs : Chosen(e) /\ Profile[e] = Profile[AtHand] => e \in First(S)
      BY <1>5 DEF Chosen
<1>7. AtHand \in First(S) => Chosen(AtHand) BY <1>5 DEF Chosen
<1> QED BY <1>3, <1>4, <1>6, <1>7 DEF AtHand

Reachable(e) ==
    /\ e \notin Hollow
    /\ \/ TextAt[e] = "exe"
       \/ /\ TextAt[e] # "exe"
          /\ \/ kind[e][TextAt[e]] = "full"
             \/ /\ saved[Profile[e]][TextAt[e]] = e
                /\ \/ kind[e][TextAt[e]] = "link"
                   \/ Chosen(e) /\ OwnsLinks(e)
                   \/ Chosen(e) /\ pc = "link" /\ sub = "tie" /\ AtHand = e

\* An emulator's own config file names nothing in the old form that a plan may
\* still hold, or it can be found when its turn comes; what it names, a row or
\* the config names too, or the probe finds it.
Texts ==
    version = 0 => \A e \in Installs \ cut :
        /\ Named(text[e], "legacy") \subseteq Stored \cup {Probed}
        /\ Named(text[e], "legacy") \ flat \subseteq lost \cup Exposed
        /\ Rewritten(e) \/ Reachable(e)
        /\ pc \in Late \ {"text"} => Rewritten(e)
        /\ pc = "text" /\ e \in Done => Rewritten(e)

LinkSaved ==
    \A e \in Installs, n \in Names : kind[e][n] = "link" => saved[Profile[e]][n] # "absent"

\* Who has a link has them all; or is alone with saves/<profile> and gets the
\* rest when its turn comes; or got them at its data root.
LinksSound ==
    version = 0 => \A e \in Installs : OwnsLinks(e) =>
        \/ Linked(e)
        \/ Sole(e) /\ Chosen(e)
        \/ e \in Nested /\ (e \in cut \/ Rewritten(e))

AtHandSound ==
    pc = "link" /\ sub # "pick" => Chosen(AtHand) /\ (OwnsLinks(AtHand) \/ Sole(AtHand))

DoneSound ==
    pc = "link" => \A e \in Done :
        /\ Eligible(e) => Profile[e] \in filled
        /\ Chosen(e) /\ OwnsLinks(e) => Linked(e)

LateSound ==
    version = 0 /\ pc \in Late => \A e \in Installs : Chosen(e) /\ OwnsLinks(e) =>
        Linked(e) \/ (e \in Nested /\ pc \in {"data", "stamp"})

TurnComes ==
    pc \in {"link", "data"} => \A e \in Rest(todo) : Chosen(e) => Profile[e] \notin filled

Links == LinkSaved /\ LinksSound /\ AtHandSound /\ DoneSound /\ LateSound /\ TurnComes

\* A newer version linked all its names or none; so did layout 1.
LEMMA LinksInit == Init => Links
<1> SUFFICES ASSUME Init PROVE Links OBVIOUS
<1>1. CASE FlatLibrary
  <2>1. PICK has \in [Installs -> {"none", "full", "astray", "link"}] :
           kind = [e \in Installs |-> Kinds(e, has[e])]
        BY <1>1 DEF FlatLibrary
  <2>2. \A e \in Installs, n \in Names :
           kind[e][n] = IF n \in UserData[e] THEN has[e] ELSE "none"
        BY <2>1 DEF Kinds
  <2>3. ASSUME NEW e \in Installs, OwnsLinks(e) PROVE Linked(e)
    <3>1. has[e] = "link" BY <2>2, <2>3 DEF OwnsLinks
    <3> QED BY <2>2, <3>1, Belongs DEF Linked
  <2>4. PICK full \in [Profiles -> BOOLEAN] : saved = [p \in Profiles |-> [n \in Names |->
          LET own == {e \in Of(p) : kind[e][n] = "link"}
          IN  IF own = {} THEN "absent"
              ELSE IF full[p] THEN CHOOSE e \in own : TRUE ELSE "empty"]]
        BY <1>1 DEF FlatLibrary
  <2>5. ASSUME NEW e \in Installs, NEW n \in Names, kind[e][n] = "link"
        PROVE  saved[Profile[e]][n] # "absent"
    <3> DEFINE own == {f \in Of(Profile[e]) : kind[f][n] = "link"}
    <3>1. e \in own /\ own \subseteq Installs BY <2>5 DEF Of
    <3>2. Profile[e] \in Profiles BY Belongs
    <3>3. saved[Profile[e]][n] = IF own = {} THEN "absent"
             ELSE IF full[Profile[e]] THEN CHOOSE f \in own : TRUE ELSE "empty"
          BY <2>4, <3>2
    <3> HIDE DEF own
    <3>4. (CHOOSE f \in own : TRUE) \in Installs BY <3>1
    <3> QED BY <3>1, <3>3, <3>4, MigrationAssumption
  <2> QED BY <2>3, <2>5 DEF Init, Links, LinkSaved, LinksSound, AtHandSound, DoneSound,
             LateSound, TurnComes, Late
<1>2. CASE LinkedLibrary
  <2>0. version = 1 BY <1>2 DEF LinkedLibrary
  <2>1. PICK has \in [Installs -> {"none", "full"}] :
           kind = [e \in Installs |->
                     Kinds(e, IF e \in Owner(Profile[e]) \ Nested THEN "link" ELSE has[e])]
        BY <1>2 DEF LinkedLibrary
  <2>2. ASSUME NEW e \in Installs, NEW n \in Names, kind[e][n] = "link"
        PROVE  e \in Owner(Profile[e]) /\ n \in UserData[e]
    <3>1. kind[e][n] = IF n \in UserData[e]
                       THEN IF e \in Owner(Profile[e]) \ Nested THEN "link" ELSE has[e]
                       ELSE "none"
          BY <2>1 DEF Kinds
    <3> QED BY <2>2, <3>1
  <2>3. \A p \in Profiles, n \in Names :
          saved[p][n] \in (IF \E e \in Owner(p) : n \in UserData[e]
                          THEN Owner(p) \cup {"empty"} ELSE {"absent"})
        BY <1>2, Zenon DEF LinkedLibrary
  <2>4. ASSUME NEW e \in Installs, NEW n \in Names, kind[e][n] = "link"
        PROVE  saved[Profile[e]][n] # "absent"
    <3>1. Profile[e] \in Profiles BY Belongs
    <3>2. saved[Profile[e]][n] \in Owner(Profile[e]) \cup {"empty"}
          BY <2>2, <2>3, <2>4, <3>1
    <3>3. Owner(Profile[e]) \subseteq Installs BY FirstIsOne DEF Owner
    <3> QED BY <3>2, <3>3, MigrationAssumption
  <2> QED BY <2>0, <2>4 DEF Init, Links, LinkSaved, LinksSound, AtHandSound, DoneSound,
             LateSound, TurnComes, Late
<1> QED BY <1>1, <1>2 DEF Init

\* Only another install of the profile, by its own links, ends that.
LEMMA SoleKept ==
  ASSUME TypeOK, Shape, [Next]_vars, NEW e \in Installs, Sole(e), ~Sole(e)'
  PROVE  /\ Tie \/ Shift
         /\ AtHand \in Installs /\ AtHand # e /\ Profile[AtHand] = Profile[e]
<1>1. CASE \E b \in Of(Profile[e]) \ {e} : OwnsLinks(b)'
  <2>1. PICK b \in Installs \ {e} : Profile[b] = Profile[e] /\ OwnsLinks(b)' /\ ~OwnsLinks(b)
        BY <1>1 DEF Of, Sole
  <2> QED BY <2>1, LinksStay
<1>2. CASE \E n \in Names : saved'[Profile[e]][n] \notin {"absent", "empty", e}
  <2>1. PICK n \in Names : /\ saved'[Profile[e]][n] \notin {"absent", "empty", e}
                           /\ saved'[Profile[e]][n] # saved[Profile[e]][n]
        BY <1>2 DEF Sole
  <2>2. Profile[e] \in Profiles BY Belongs
  <2>3. \A b \in Installs : Save(b, n) /\ kind[b][n] = "link" /\ Profile[e] = Profile[b]
                              => b = e
        BY DEF Sole, OwnsLinks, Of
  <2>4. Shift /\ Profile[e] = Profile[AtHand] /\ AtHand # e BY <2>1, <2>2, <2>3, SavedSteps
  <2> QED BY <2>4, AtWork DEF Shift
<1> QED BY <1>1, <1>2 DEF Sole, Of

\* How a pass over the entries goes on.
LEMMA PassSteps ==
  ASSUME Shape, [Next]_vars, pc' \in {"link", "data"}
  PROVE  \/ Enter(pc') /\ (pc' = "link" => NextStage("names", "link"))
         \/ pc' = pc /\ UNCHANGED <<todo, filled>>
         \/ PickEntry /\ ~Linkable(AtHand) /\ pc' = pc
         \/ EntryLinked /\ pc' = pc
<1>1. CASE Start \/ Stop \/ UNCHANGED vars BY <1>1 DEF Start, Stop, vars, Resting
<1>2. CASE PickEntry
  <2>1. pc' = pc BY <1>2 DEF PickEntry
  <2>2. Linkable(AtHand) => UNCHANGED <<todo, filled>> BY <1>2 DEF PickEntry, AtHand
  <2> QED BY <1>2, <2>1, <2>2
<1>3. CASE EntryLinked BY <1>3 DEF EntryLinked
<1>4. CASE Step /\ ~PickEntry /\ ~EntryLinked
  BY <1>4 DEF Step, Preflight, GamesMoved, MoveDir, Direct, ThroughTemporary, RenameRoot,
              Merged, Merge, Rename, Unlinked, Unlink, Shift, Tie, Enter,
              MakeSaves, RewriteText, RewriteRows, RewriteConfig, Stamp, NextStage, run, Resting
<1>5. CASE Between
  BY <1>5 DEF Between, Quit, Resolve, InstallGame, Save, run, Resting
<1> QED BY <1>1, <1>2, <1>3, <1>4, <1>5 DEF Next

\* Both ways to leave an entry.
LEMMA EntryLeft ==
  ASSUME TypeOK, Shape, NEW S, S = (PickEntry /\ ~Linkable(AtHand)) \/ EntryLinked, S
  PROVE  /\ todo # << >> /\ todo' = Tail(todo) /\ AtHand \in Installs /\ sub' = "pick"
         /\ AtHand \in Rest(todo) /\ Rest(todo') = Rest(todo) \ {AtHand}
         /\ Done' = Done \cup {AtHand}
         /\ filled' = filled \/ (Eligible(AtHand) /\ filled' = filled \cup {Profile[AtHand]})
<1>1. CASE PickEntry /\ ~Linkable(AtHand)
  <2>1. /\ todo # << >> /\ todo' = Tail(todo) /\ sub' = "pick"
        /\ filled' = filled \cup (IF Foreign(AtHand) THEN {Profile[AtHand]} ELSE {})
        BY <1>1 DEF PickEntry, AtHand
  <2>2. Foreign(AtHand) => Eligible(AtHand) BY DEF Foreign, Eligible
  <2>3. /\ AtHand \in Installs /\ AtHand \in Rest(todo)
        /\ Rest(todo') = Rest(todo) \ {AtHand}
        BY <2>1, SuffixSteps DEF Shape, AtHand
  <2> QED BY <2>1, <2>2, <2>3 DEF Done
<1>2. CASE EntryLinked
  <2>1. /\ todo # << >> /\ todo' = Tail(todo) /\ sub' = "pick"
        /\ filled' = filled \cup {Profile[AtHand]} /\ Eligible(AtHand)
        BY <1>2 DEF EntryLinked, AtHand, Shape
  <2>3. /\ AtHand \in Installs /\ AtHand \in Rest(todo)
        /\ Rest(todo') = Rest(todo) \ {AtHand}
        BY <2>1, SuffixSteps DEF Shape, AtHand
  <2> QED BY <2>1, <2>3 DEF Done
<1> QED BY <1>1, <1>2

\* A link is tied after its directory under saves/ was made.
LEMMA LinkSavedKept ==
  ASSUME TypeOK, Shape, LinkSaved, [Next]_vars
  PROVE  LinkSaved'
<1> SUFFICES ASSUME NEW e \in Installs, NEW n \in Names, kind'[e][n] = "link"
             PROVE  saved'[Profile[e]][n] # "absent"
    BY DEF LinkSaved
<1>1. Profile[e] \in Profiles BY Belongs
<1>2. saved'[Profile[e]][n] # saved[Profile[e]][n] => saved'[Profile[e]][n] # "absent"
  <2>1. CASE Shift
    <3>1. AtHand \in Installs BY <2>1, AtWork DEF Shift
    <3>2. saved'[Profile[e]][n] # saved[Profile[e]][n] =>
             saved'[Profile[e]][n] \in {"empty", AtHand} \cup Installs
          BY <1>1, SavedSteps
    <3> QED BY <3>1, <3>2, MigrationAssumption
  <2>2. CASE ~Shift
    <3>1. saved'[Profile[e]][n] # saved[Profile[e]][n] =>
             saved'[Profile[e]][n] \in {"empty"} \cup Installs
          BY <1>1, <2>2, SavedSteps
    <3> QED BY <3>1, MigrationAssumption
  <2> QED BY <2>1, <2>2
<1>3. CASE kind[e][n] = "link" BY <1>2, <1>3 DEF LinkSaved
<1>4. CASE kind[e][n] # "link"
  <2>1. Tie /\ e = AtHand BY <1>4, KindSteps
  <2>2. kind' = [kind EXCEPT ![AtHand][cur] = "link"] /\ saved' = saved
        BY <2>1 DEF Tie, AtHand
  <2>3. n = cur BY <1>4, <2>1, <2>2 DEF TypeOK
  <2>4. saved[Profile[e]][n] # "absent" BY <2>1, <2>3 DEF Shape, Tie
  <2> QED BY <2>2, <2>4
<1> QED BY <1>3, <1>4

\* A profile is filled by its chosen install or after it.
LEMMA TurnComesKept ==
  ASSUME TypeOK, Shape, TurnComes, [Next]_vars
  PROVE  TurnComes'
<1> SUFFICES ASSUME pc' \in {"link", "data"}, NEW e \in Rest(todo'), Chosen(e)
             PROVE  Profile[e] \notin filled'
    BY DEF TurnComes, Chosen
<1>1. CASE Enter(pc') BY <1>1 DEF Enter
<1>2. CASE pc' = pc /\ UNCHANGED <<todo, filled>> BY <1>2 DEF TurnComes
<1>3. CASE pc' = pc /\ ((PickEntry /\ ~Linkable(AtHand)) \/ EntryLinked)
  <2>1. /\ todo # << >> /\ todo' = Tail(todo) /\ AtHand \in Installs
        /\ Rest(todo') = Rest(todo) \ {AtHand}
        /\ filled' = filled \/ (Eligible(AtHand) /\ filled' = filled \cup {Profile[AtHand]})
        BY <1>3, EntryLeft
  <2>2. Profile[e] \notin filled BY <1>3, <2>1 DEF TurnComes
  <2>3. e \in Installs BY <2>1, SuffixSteps DEF Shape
  <2>4. Eligible(AtHand) => Profile[e] # Profile[AtHand]
        BY <2>1, <2>3, ChosenAndList DEF Shape
  <2> QED BY <2>1, <2>2, <2>4
<1> QED BY <1>1, <1>2, <1>3, PassSteps

\* An entry is left linked, or because its profile has its owner.
LEMMA DoneSoundKept ==
  ASSUME TypeOK, Shape, Stage, Homes, DoneSound, TurnComes, [Next]_vars
  PROVE  DoneSound'
<1> SUFFICES ASSUME pc' = "link", NEW e \in Done'
             PROVE  /\ Eligible(e) => Profile[e] \in filled'
                    /\ Chosen(e) /\ OwnsLinks(e)' => Linked(e)'
    BY DEF DoneSound, Chosen, Eligible
<1>0. e \in Installs BY DEF Done
<1>1. CASE Enter(pc')
  <2>1. Done' = {} BY <1>1, SuffixBegins DEF Enter, Done
  <2> QED BY <2>1
<1>2. ASSUME pc = "link", e \in Done
      PROVE  /\ Eligible(e) => Profile[e] \in filled
             /\ Chosen(e) /\ OwnsLinks(e)' => Linked(e)'
  <2>1. OwnsLinks(e)' => OwnsLinks(e)
    <3>1. Tie => AtHand \notin Done
      BY SuffixSteps DEF Tie, Shape, Done, AtHand
    <3> QED BY <1>0, <1>2, <3>1, LinksStay
  <2> QED BY <1>0, <1>2, <2>1, LinksStay DEF DoneSound
<1>3. CASE pc' = pc /\ UNCHANGED <<todo, filled>>
  BY <1>2, <1>3, AtHandKept
<1>4. ASSUME pc' = pc, (PickEntry /\ ~Linkable(AtHand)) \/ EntryLinked
      PROVE  /\ Eligible(e) => Profile[e] \in filled'
             /\ Chosen(e) /\ OwnsLinks(e)' => Linked(e)'
  <2>1. /\ Done' = Done \cup {AtHand} /\ filled \subseteq filled'
        /\ AtHand \in Rest(todo)
        BY <1>4, EntryLeft
  <2>2. CASE e \in Done BY <1>2, <1>4, <2>1, <2>2
  <2>3. CASE e = AtHand /\ EntryLinked
    <3>1. /\ Profile[e] \in filled' /\ left = {} /\ sub = "make"
          BY <2>3 DEF EntryLinked, AtHand
    <3>2. Linked(e) BY <2>3, <3>1 DEF Shape, Linked
    <3> QED BY <1>0, <3>1, <3>2, LinksStay
  <2>4. CASE e = AtHand /\ PickEntry /\ ~Linkable(AtHand)
    <3>1. /\ filled' = filled \cup (IF Foreign(e) THEN {Profile[e]} ELSE {})
          /\ UNCHANGED kind
          BY <2>4 DEF PickEntry, AtHand, disk
    <3>2. home[e].root = "emulators" BY <1>0, <1>4 DEF Homes
    <3>3. Eligible(e) => Profile[e] \in filled \/ (HasSaves(e) /\ ~OwnsLinks(e))
          BY <1>4, <2>4, <3>2 DEF Linkable, Eligible
    <3>4. Eligible(e) => Profile[e] \in filled'
          BY <1>4, <3>1, <3>3 DEF Foreign, Eligible
    <3>5. ~(Chosen(e) /\ OwnsLinks(e))
      <4>1. Chosen(e) => Profile[e] \notin filled BY <1>4, <2>1, <2>4 DEF TurnComes
      <4> QED BY <1>0, <3>3, <4>1, ChosenIsOne
    <3>6. OwnsLinks(e)' = OwnsLinks(e) BY <3>1 DEF OwnsLinks
    <3> QED BY <3>4, <3>5, <3>6
  <2> QED BY <1>4, <2>1, <2>2, <2>3, <2>4
<1> QED BY <1>1, <1>3, <1>4, PassSteps

LEMMA InsideSteps ==
  ASSUME Shape, [Next]_vars, sub' # "pick"
  PROVE  /\ pc' = pc /\ UNCHANGED <<todo, filled>> /\ AtHand' = AtHand
         /\ sub = "pick" => PickEntry /\ Linkable(AtHand)
<1>1. CASE Start \/ Stop \/ UNCHANGED vars BY <1>1, AtHandKept DEF Start, Stop, vars, Resting
<1>2. CASE PickEntry
  <2>1. CASE Linkable(AtHand)
        BY <1>2, <2>1, AtHandKept DEF PickEntry, AtHand
  <2>2. CASE ~Linkable(AtHand)
        BY <1>2, <2>2 DEF PickEntry, AtHand
  <2> QED BY <2>1, <2>2
<1>3. CASE EntryLinked BY <1>3 DEF EntryLinked
<1>4. CASE Step /\ ~PickEntry /\ ~EntryLinked
  <2>1. /\ pc' = pc /\ UNCHANGED <<todo, filled>>
        /\ sub # "pick"
    <3>1. CASE Preflight \/ GamesMoved \/ \E d \in Dirs : MoveDir(d)
          BY <3>1 DEF Preflight, GamesMoved, MoveDir, Shape, Linking, Resting, Enter, run
    <3>2. CASE Direct \/ ThroughTemporary \/ Merged \/ (\E e \in Installs : Merge(e)) \/ Rename
          BY <3>2 DEF Direct, ThroughTemporary, RenameRoot, Merged, Merging, Merge, Rename,
                      Shape, Linking, Enter, run
    <3>3. CASE Unlinked \/ Shift \/ Tie \/ \E n \in Names : Unlink(n) \/ MakeSaves(n)
          BY <3>3 DEF Unlinked, Unlink, Shift, Tie, MakeSaves, run
    <3>4. CASE RewriteText \/ RewriteRows \/ RewriteConfig \/ Stamp
          BY <3>4 DEF RewriteText, RewriteRows, RewriteConfig, Stamp, Shape, Linking, Resting,
                      Enter
    <3>5. CASE \/ NextStage("names", "link") \/ NextStage("link", "text")
               \/ NextStage("text", "rows") \/ NextStage("data", "stamp")
          BY <3>5 DEF NextStage, Enter
    <3> QED BY <1>4, <3>1, <3>2, <3>3, <3>4, <3>5 DEF Step
  <2> QED BY <2>1, AtHandKept
<1>5. CASE Between
  <2>1. pc # "link" /\ pc # "data" BY <1>5 DEF Between, Quit, Resolve, InstallGame, Save, Ready
  <2>2. sub' = sub \/ sub' = "pick"
        BY <1>5 DEF Between, Quit, Resolve, InstallGame, Save, run, Resting
  <2> QED BY <2>1, <2>2 DEF Shape, Linking
<1> QED BY <1>1, <1>2, <1>3, <1>4, <1>5 DEF Next

\* What its turn finds: the first of its profile, or one with a link.
LEMMA AtHandSoundKept ==
  ASSUME TypeOK, Shape, LinkSaved, AtHandSound, DoneSound, [Next]_vars
  PROVE  AtHandSound'
<1> SUFFICES ASSUME pc' = "link", sub' # "pick"
             PROVE  Chosen(AtHand') /\ (OwnsLinks(AtHand) \/ Sole(AtHand))'
    BY DEF AtHandSound, Chosen
<1>1. pc = "link" /\ AtHand' = AtHand /\ UNCHANGED todo /\ UNCHANGED filled BY InsideSteps
<1>2. SUFFICES ASSUME NEW e \in Installs, e = AtHand
               PROVE  Chosen(e) /\ (OwnsLinks(e)' \/ Sole(e)')
  <2>1. AtHand \in Installs
    <3>1. CASE sub # "pick" BY <3>1, AtWork
    <3>2. CASE sub = "pick" BY <3>2, InsideSteps, AtWork DEF PickEntry
    <3> QED BY <3>1, <3>2
  <2> HIDE DEF AtHand
  <2> QED BY <1>1, <2>1, <1>2 DEF OwnsLinks, Sole
<1>3. CASE sub # "pick"
  <2>1. Chosen(e) /\ (OwnsLinks(e) \/ Sole(e)) BY <1>1, <1>2, <1>3 DEF AtHandSound
  <2> QED BY <1>2, <2>1, LinksStay, SoleKept
<1>4. CASE sub = "pick"
  <2>1. PickEntry /\ Linkable(e) BY <1>2, <1>4, InsideSteps
  <2>2. Eligible(e) /\ Profile[e] \notin filled /\ (HasSaves(e) => OwnsLinks(e))
        BY <2>1, <1>1 DEF Linkable, Eligible
  <2>3. \A f \in Installs : Eligible(f) /\ Profile[f] = Profile[e] => f \in Rest(todo)
        BY <1>1, <2>2 DEF DoneSound, Done
  <2>4. Chosen(e)
        BY <1>2, <2>1, <2>2, <2>3, ChosenAndList DEF Shape, PickEntry
  <2>5. ~HasSaves(e) => Sole(e)
    <3> SUFFICES ASSUME ~HasSaves(e) PROVE Sole(e) OBVIOUS
    <3>1. \A n \in Names : saved[Profile[e]][n] = "absent" BY DEF HasSaves
    <3>2. \A b \in Of(Profile[e]) : ~OwnsLinks(b) BY <3>1 DEF OwnsLinks, LinkSaved, Of
    <3> QED BY <3>1, <3>2 DEF Sole
  <2>6. ~Tie /\ ~Shift BY <1>4 DEF Tie, Shift
  <2> QED BY <2>2, <2>4, <2>5, <2>6, LinksStay, SoleKept
<1> QED BY <1>3, <1>4

\* The later half of a run goes one way.
LEMMA LateSteps ==
  ASSUME TypeOK, Stage, [Next]_vars, version' = 0, pc' \in Late
  PROVE  /\ version = 0
         /\ \/ pc = "link" /\ todo = << >> /\ NextStage("link", "text")
            \/ pc \in Late /\ (pc \in {"data", "stamp"} => pc' \in {"data", "stamp"})
<1>1. version = 0 BY VersionSteps
<1>2. CASE Start \/ Stop \/ UNCHANGED vars
  BY <1>1, <1>2 DEF Start, Stop, vars, Resting, Late
<1>3. CASE Between
  BY <1>3 DEF Between, Quit, Resolve, InstallGame, Save, run, Resting, Ready, Late
<1>4. CASE \/ Preflight \/ GamesMoved \/ \E d \in Dirs : MoveDir(d)
           \/ Direct \/ ThroughTemporary \/ Merged \/ \E e \in Installs : Merge(e)
           \/ Rename \/ NextStage("names", "link")
  BY <1>1, <1>4 DEF Preflight, GamesMoved, MoveDir, Direct, ThroughTemporary, RenameRoot,
              Merged, Merging, Merge, Rename, NextStage, Enter, run, Resting, Late
<1>5. CASE \/ PickEntry \/ Unlinked \/ Shift \/ Tie \/ EntryLinked
           \/ \E n \in Names : Unlink(n) \/ MakeSaves(n)
  <2>1. pc' = pc BY <1>5 DEF PickEntry, Unlinked, Shift, Tie, EntryLinked, Unlink, MakeSaves, run
  <2> QED BY <1>1, <2>1
<1>6. CASE \/ RewriteText \/ RewriteRows \/ RewriteConfig \/ Stamp
           \/ NextStage("link", "text") \/ NextStage("text", "rows")
           \/ NextStage("data", "stamp")
  BY <1>1, <1>6 DEF RewriteText, RewriteRows, RewriteConfig, Stamp, NextStage, Enter, Resting,
                    Late
<1> QED BY <1>2, <1>3, <1>4, <1>5, <1>6 DEF Next, Step

\* After the pass the chosen installs with links have all of them.
LEMMA LateSoundKept ==
  ASSUME TypeOK, Shape, Stage, DoneSound, LateSound, [Next]_vars
  PROVE  LateSound'
<1> SUFFICES ASSUME version' = 0, pc' \in Late, NEW e \in Installs, Chosen(e), OwnsLinks(e)'
             PROVE  Linked(e)' \/ (e \in Nested /\ pc' \in {"data", "stamp"})
    BY DEF LateSound, Chosen
<1>1. CASE pc = "link" /\ todo = << >> /\ NextStage("link", "text")
  <2>1. Done = Installs BY <1>1, SuffixBegins DEF Done
  <2>2. ~Tie BY <1>1 DEF NextStage, Tie
  <2> QED BY <1>1, <2>1, <2>2, LinksStay DEF DoneSound
<1>2. ASSUME version = 0, pc \in Late, pc \in {"data", "stamp"} => pc' \in {"data", "stamp"}
      PROVE  Linked(e)' \/ (e \in Nested /\ pc' \in {"data", "stamp"})
  <2>1. CASE OwnsLinks(e) BY <1>2, <2>1, LinksStay DEF LateSound
  <2>2. CASE ~OwnsLinks(e)
    <3>1. Tie /\ e = AtHand BY <2>2, LinksStay
    <3> QED BY <1>2, <3>1 DEF Tie, Shape, Linking, Late
  <2> QED BY <2>1, <2>2
<1> QED BY <1>1, <1>2, LateSteps

\* Whoever gets a first link is the chosen one, or is Nested and its config
\* file was rewritten before.
LEMMA LinksSoundKept ==
  ASSUME TypeOK, Shape, Stage, Texts, LinksSound, AtHandSound, LateSound, [Next]_vars
  PROVE  LinksSound'
<1> SUFFICES ASSUME version' = 0, NEW e \in Installs, OwnsLinks(e)'
             PROVE  \/ Linked(e)'
                    \/ Sole(e)' /\ Chosen(e)
                    \/ e \in Nested /\ (e \in cut' \/ Rewritten(e)')
    BY DEF LinksSound, Chosen
<1>1. version = 0 BY VersionSteps
<1>2. ASSUME e \in Nested, pc = "data" PROVE e \in cut' \/ Rewritten(e)'
  <2>1. e \in cut \/ Rewritten(e) BY <1>1, <1>2 DEF Texts, Late
  <2> QED BY <2>1, CutStays, ExposureShrinks
<1>3. ASSUME Tie \/ Shift PROVE AtHandSound /\ sub # "pick" /\ pc \in {"link", "data"}
  BY <1>3 DEF Tie, Shift, Shape, Linking
<1>4. CASE OwnsLinks(e)
  <2>1. CASE Linked(e) BY <2>1, LinksStay
  <2>2. CASE e \in Nested /\ (e \in cut \/ Rewritten(e))
        BY <2>2, CutStays, ExposureShrinks
  <2>3. CASE Sole(e) /\ Chosen(e)
    <3>1. CASE Sole(e)' BY <2>3, <3>1
    <3>2. CASE ~Sole(e)'
      <4>1. /\ AtHand \in Installs /\ AtHand # e /\ Profile[AtHand] = Profile[e]
            /\ sub # "pick" /\ pc \in {"link", "data"}
            BY <2>3, <3>2, <1>3, SoleKept
      <4>2. pc # "link" BY <2>3, <4>1, ChosenIsOne DEF AtHandSound
      <4>3. Linked(e) \/ e \in Nested BY <1>1, <1>4, <2>3, <4>1, <4>2 DEF LateSound, Late
      <4> QED BY <1>2, <4>1, <4>2, <4>3, LinksStay
    <3> QED BY <3>1, <3>2
  <2> QED BY <1>1, <1>4, <2>1, <2>2, <2>3 DEF LinksSound
<1>5. CASE ~OwnsLinks(e)
  <2>1. Tie /\ e = AtHand BY <1>5, LinksStay
  <2>2. CASE pc = "link"
    <3>1. Chosen(e) /\ Sole(e) BY <1>3, <1>5, <2>1, <2>2 DEF AtHandSound
    <3> QED BY <2>1, <3>1, SoleKept
  <2>3. CASE pc = "data"
    <3>1. e \in Nested BY <1>3, <2>1, <2>3 DEF Shape
    <3> QED BY <1>2, <2>3, <3>1
  <2> QED BY <1>3, <2>1, <2>2, <2>3
<1> QED BY <1>4, <1>5

LEMMA LinksKept ==
  ASSUME TypeOK, Shape, Stage, Homes, Texts, Links, [Next]_vars
  PROVE  Links'
BY LinkSavedKept, LinksSoundKept, AtHandSoundKept, DoneSoundKept, LateSoundKept,
   TurnComesKept DEF Links

-----------------------------------------------------------------------------
(* What an install has written survives.                                   *)

\* Only an emulator writes.
LEMMA WroteSteps ==
  ASSUME [Next]_vars, NEW w \in wrote', w \notin wrote
  PROVE  \E e \in Installs, n \in Names :
            /\ w = <<e, n>>
            /\ kind'[e][n] = "full" \/ saved'[Profile[e]][n] = e
<1>1. CASE Start \/ Stop \/ UNCHANGED vars BY <1>1 DEF Start, Stop, vars, book
<1>2. CASE Step
  BY <1>2 DEF Step, Preflight, GamesMoved, MoveDir, Direct, ThroughTemporary, RenameRoot,
              Merged, Merge, Rename, PickEntry, Unlinked, EntryLinked, Unlink, Shift, Tie,
              MakeSaves, RewriteText, RewriteRows, RewriteConfig, Stamp, NextStage, book
<1>3. CASE Quit \/ Resolve \/ \E d \in Dirs : InstallGame(d)
  BY <1>3 DEF Quit, Resolve, InstallGame, book
<1>4. ASSUME NEW e \in Installs, NEW n \in Names, Save(e, n)
      PROVE  /\ w = <<e, n>>
             /\ kind'[e][n] = "full" \/ saved'[Profile[e]][n] = e
  BY <1>4 DEF Save
<1> QED BY <1>1, <1>2, <1>3, <1>4 DEF Next, Between

\* At first every file is where it was written.
LEMMA SavesInit == Init => SavesSurvive
<1> SUFFICES ASSUME Init, NEW w \in wrote
             PROVE  kind[w[1]][w[2]] = "full" \/ saved[Profile[w[1]]][w[2]] = w[1]
    BY DEF SavesSurvive
<1> QED BY DEF Init

\* Shift alone moves a file. In the pass of layout 2 the one at hand is alone
\* with saves/<profile>, so what it finds there is its own; at the data root
\* it is Nested.
LEMMA SavesKept ==
  ASSUME TypeOK, Shape, Stage, Links, SavesSurvive, [Next]_vars
  PROVE  SavesSurvive'
<1> SUFFICES ASSUME NEW w \in wrote'
             PROVE  \/ kind'[w[1]][w[2]] = "full"
                    \/ saved'[Profile[w[1]]][w[2]] = w[1]
                    \/ w[1] \in Nested /\ saved'[Profile[w[1]]][w[2]] \in Installs
    BY DEF SavesSurvive
<1>1. CASE w \notin wrote BY <1>1, WroteSteps
<1>2. ASSUME w \in wrote, NEW e \in Installs, NEW n \in Names, e = w[1], n = w[2]
      PROVE  \/ kind'[e][n] = "full"
             \/ saved'[Profile[e]][n] = e
             \/ e \in Nested /\ saved'[Profile[e]][n] \in Installs
  <2>0. Profile[e] \in Profiles BY Belongs
  <2>1. CASE saved[Profile[e]][n] \in Installs /\ (saved[Profile[e]][n] = e \/ e \in Nested)
    <3>1. saved'[Profile[e]][n] = saved[Profile[e]][n]
          BY <2>0, <2>1, SavedSteps, MigrationAssumption
    <3> QED BY <2>1, <3>1
  <2>2. CASE kind[e][n] = "full"
    <3>1. CASE kind'[e][n] = "full" BY <3>1
    <3>2. CASE kind'[e][n] # "full"
      <4>1. Shift /\ e = AtHand /\ n = cur BY <2>2, <3>2, KindSteps
      <4>2. /\ sub = "shift" /\ saved[Profile[e]][n] # "absent" /\ n \in UserData[e]
            /\ pc \in {"link", "data"} /\ kind[e][n] # "link"
            BY <4>1 DEF Shift, Shape, Linking
      <4>3. saved'[Profile[e]][n] = IF saved[Profile[e]][n] = "empty" THEN e
                                    ELSE saved[Profile[e]][n]
            BY <2>0, <2>2, <4>1 DEF Shift, AtHand, TypeOK
      <4>4. saved'[Profile[e]][n] \in Installs BY <2>0, <4>2, <4>3 DEF TypeOK
      <4>5. CASE pc = "data" BY <4>1, <4>2, <4>4, <4>5 DEF Shape
      <4>6. CASE pc = "link"
        <5>1. version = 0 BY <4>6 DEF Stage
        <5>2. Chosen(e) /\ (OwnsLinks(e) \/ Sole(e))
              BY <4>1, <4>2, <4>6 DEF Links, AtHandSound
        <5>3. ~Linked(e) BY <4>2 DEF Linked
        <5>4. Sole(e) \/ e \in Nested BY <5>1, <5>2, <5>3 DEF Links, LinksSound
        <5>5. Sole(e) => saved[Profile[e]][n] \in {"empty", e} BY <4>2 DEF Sole
        <5> QED BY <4>3, <4>4, <5>4, <5>5
      <4> QED BY <4>2, <4>5, <4>6
    <3> QED BY <3>1, <3>2
  <2> QED BY <1>2, <2>1, <2>2 DEF SavesSurvive
<1>3. CASE w \in wrote
  <2>1. w[1] \in Installs /\ w[2] \in Names BY <1>3 DEF TypeOK
  <2> QED BY <1>2, <1>3, <2>1
<1> QED BY <1>1, <1>3

-----------------------------------------------------------------------------
(* The emulators' own config files.                                        *)

\* What was lost is not forgotten.
LEMMA LostStays ==
  ASSUME [Next]_vars
  PROVE  lost \subseteq lost'
<1>1. CASE Stop BY <1>1 DEF Stop
<1>2. CASE UNCHANGED book BY <1>2 DEF book
<1>3. CASE Start BY <1>3, <1>2 DEF Start
<1>4. CASE Step
  BY <1>4, <1>2 DEF Step, Preflight, GamesMoved, MoveDir, Direct, ThroughTemporary, RenameRoot,
              Merged, Merge, Rename, PickEntry, Unlinked, EntryLinked, Unlink, Shift, Tie,
              MakeSaves, RewriteText, RewriteRows, RewriteConfig, Stamp, NextStage, book
<1>5. CASE Between
  BY <1>5, <1>2 DEF Between, Quit, Resolve, InstallGame, Save
<1> QED BY <1>1, <1>3, <1>4, <1>5 DEF Next, vars

\* A plan is given up by a run that ends.
LEMMA PlanLeft ==
  ASSUME Stage, [Next]_vars, NEW d \in plan, d \notin plan'
  PROVE  Stop \/ Stamp
<1>1. CASE Start BY <1>1 DEF Start, Stage
<1>2. CASE UNCHANGED vars BY <1>2 DEF vars
<1>3. CASE Preflight BY <1>3 DEF Preflight, Stage
<1>4. CASE Step /\ ~Preflight /\ ~Stamp
  BY <1>4 DEF Step, GamesMoved, MoveDir, Direct, ThroughTemporary, RenameRoot,
              Merged, Merge, Rename, PickEntry, Unlinked, EntryLinked, Unlink, Shift, Tie,
              MakeSaves, RewriteText, RewriteRows, RewriteConfig, NextStage, run
<1>5. CASE Between
  BY <1>5 DEF Between, Quit, Resolve, InstallGame, Save, run, Ready, Stage
<1> QED BY <1>1, <1>2, <1>3, <1>4, <1>5 DEF Next

\* The pass over the config files, and its end.
LEMMA TextPass ==
  ASSUME Shape, [Next]_vars
  PROVE  /\ pc' = "text" => \/ NextStage("link", "text")
                            \/ pc = "text" /\ (RewriteText \/ UNCHANGED todo)
         /\ pc = "text" /\ pc' \in Late \ {"text"} => todo = << >>
<1>1. CASE Start \/ Stop \/ UNCHANGED vars BY <1>1 DEF Start, Stop, vars, Resting, Late
<1>2. CASE Between
  BY <1>2 DEF Between, Quit, Resolve, InstallGame, Save, run, Resting, Ready, Late
<1>3. CASE \/ Preflight \/ GamesMoved \/ \E d \in Dirs : MoveDir(d)
           \/ Direct \/ ThroughTemporary \/ Merged \/ \E e \in Installs : Merge(e)
           \/ Rename \/ NextStage("names", "link")
  BY <1>3 DEF Preflight, GamesMoved, MoveDir, Direct, ThroughTemporary, RenameRoot,
              Merged, Merging, Merge, Rename, NextStage, Enter, run, Resting, Late
<1>4. CASE \/ PickEntry \/ Unlinked \/ Shift \/ Tie \/ EntryLinked
           \/ \E n \in Names : Unlink(n) \/ MakeSaves(n)
  <2>1. pc' = pc /\ pc \in {"link", "data"}
        BY <1>4 DEF PickEntry, Unlinked, Shift, Tie, EntryLinked, Unlink, MakeSaves, run,
                    Shape, Linking
  <2> QED BY <2>1
<1>5. CASE \/ RewriteText \/ RewriteRows \/ RewriteConfig \/ Stamp
           \/ NextStage("link", "text") \/ NextStage("text", "rows")
           \/ NextStage("data", "stamp")
  BY <1>5 DEF RewriteText, RewriteRows, RewriteConfig, Stamp, NextStage, Enter, Resting, Late
<1> QED BY <1>1, <1>2, <1>3, <1>4, <1>5 DEF Next, Step

\* Between the directory and the link a run goes on, or is stopped.
LEMMA BetweenSavesAndTie ==
  ASSUME Shape, [Next]_vars, pc = "link", sub \in {"shift", "tie"}
  PROVE  Tie \/ Stop \/ (pc' = pc /\ sub' \in {sub, "tie"} /\ UNCHANGED todo)
<1>1. CASE Start \/ Between
  BY <1>1 DEF Start, Between, Quit, Resolve, InstallGame, Save, Ready
<1>2. CASE Step /\ ~Tie
  BY <1>2 DEF Step, Preflight, GamesMoved, MoveDir, Direct, ThroughTemporary, RenameRoot,
              Merged, Merging, Merge, Rename, PickEntry, Unlinked, EntryLinked, Unlink, Shift,
              MakeSaves, RewriteText, RewriteRows, RewriteConfig, Stamp, NextStage, run
<1>3. CASE UNCHANGED vars BY <1>3 DEF vars
<1> QED BY <1>1, <1>2, <1>3 DEF Next

\* A directory that a file still names in the old form is there, or is one
\* that somebody still turns, or is lost.
LEMMA TextsNamed ==
  ASSUME TypeOK, Stage, Texts, [Next]_vars, version' = 0, NEW e \in Installs, e \notin cut'
  PROVE  Named(text'[e], "legacy") \ flat' \subseteq lost' \cup Exposed'
<1> SUFFICES ASSUME NEW d \in Named(text'[e], "legacy"), d \notin flat'
             PROVE  d \in lost' \cup Exposed'
    OBVIOUS
<1>1. version = 0 /\ e \notin cut BY VersionSteps, CutStays
<1>2. d \in Named(text[e], "legacy") BY TextSteps
<1>3. CASE d \in flat
  <2>1. ASSUME NEW c \in Dirs, MoveDir(c) PROVE d \in Exposed'
        BY <1>3, <2>1 DEF MoveDir, run, Exposed
  <2>2. CASE Resolve
    <3>1. d \in lost' \/ d \in Stored BY <1>1, <1>2, <1>3, <2>2 DEF Resolve, Texts
    <3>2. Stored' = Stored BY <2>2 DEF Resolve, Stored, Named
    <3> QED BY <3>1, <3>2 DEF Exposed, Derived
  <2> QED BY <1>3, <2>1, <2>2, RefsSteps
<1>4. CASE d \notin flat
  <2>1. d \in lost \/ d \in Stored \/ d \in plan
        BY <1>1, <1>2, <1>4 DEF Texts, Exposed, Derived
  <2>2. CASE d \in lost BY <2>2, LostStays
  <2>3. pc \in Late \ {"text"} => d \notin Stored \cup plan
        BY <1>1, <1>2 DEF Texts, Rewritten, Exposed, Derived
  <2>4. CASE d \in Stored
    <3>1. RewriteRows \/ RewriteConfig => pc \in Late \ {"text"}
          BY DEF RewriteRows, RewriteConfig, Late
    <3>2. d \in Stored' BY <2>3, <2>4, <3>1, RefsSteps
    <3> QED BY <3>2 DEF Exposed, Derived
  <2>5. CASE d \in plan /\ d \notin Stored
    <3>1. CASE d \in plan' BY <3>1 DEF Exposed
    <3>2. CASE Stop
      <4>1. pc \notin {"rows", "config", "data", "stamp"} BY <2>3, <2>5 DEF Late
      <4>2. lost' = lost \cup ((plan \cap {Probed}) \ (flat \cup Stored))
            BY <3>2, <4>1 DEF Stop
      <4>3. d = Probed BY <1>1, <1>2, <2>5 DEF Texts
      <4> QED BY <1>4, <2>5, <4>2, <4>3
    <3>3. ~Stamp BY <2>3, <2>5 DEF Stamp, Late
    <3> QED BY <2>5, <3>1, <3>2, <3>3, PlanLeft
  <2> QED BY <2>1, <2>2, <2>4, <2>5
<1> QED BY <1>3, <1>4

\* What a file is reached by is given up for nothing.
LEMMA TextsReached ==
  ASSUME TypeOK, Shape, Stage, Texts, Links, [Next]_vars, version' = 0,
         NEW e \in Installs, e \notin cut', Reachable(e)
  PROVE  Rewritten(e)' \/ Reachable(e)'
<1>1. version = 0 /\ e \notin cut BY VersionSteps, CutStays
<1>2. CASE Rewritten(e) BY <1>2, ExposureShrinks
<1>3. CASE TextAt[e] = "exe" BY <1>3 DEF Reachable
<1>4. ASSUME ~Rewritten(e), NEW n, n = TextAt[e], n # "exe" PROVE Reachable(e)'
  <2>0. n \in UserData[e] /\ n \in Names /\ Profile[e] \in Profiles /\ e \notin Hollow
        BY <1>4, MigrationAssumption, Belongs DEF Reachable
  <2>1. CASE kind[e][n] = "full"
    <3>1. CASE kind'[e][n] = "full" BY <1>4, <2>0, <3>1 DEF Reachable
    <3>2. CASE kind'[e][n] # "full"
      <4>1. Shift /\ e = AtHand /\ n = cur BY <2>0, <2>1, <3>2, KindSteps
      <4>2. /\ sub = "shift" /\ sub' = "tie" /\ pc' = pc /\ todo' = todo
            /\ saved[Profile[e]][n] # "absent" /\ kind[e][n] # "link"
            /\ pc \in {"link", "data"}
            BY <4>1 DEF Shift, Shape, Linking
      <4>3. pc = "link" BY <1>1, <1>4, <4>2 DEF Texts, Late
      <4>4. Chosen(e) /\ (OwnsLinks(e) \/ Sole(e))
            BY <4>1, <4>2, <4>3 DEF Links, AtHandSound
      <4>5. ~Linked(e) BY <2>0, <4>2 DEF Linked
      <4>6. Sole(e) BY <1>1, <1>4, <4>4, <4>5 DEF Links, LinksSound
      <4>7. saved[Profile[e]][n] \in {"empty", e} BY <2>0, <4>2, <4>6 DEF Sole
      <4>8. saved'[Profile[e]][n] = e
            BY <2>0, <2>1, <4>1, <4>7 DEF Shift, AtHand, TypeOK
      <4>9. AtHand' = e /\ pc' = "link" /\ sub' = "tie" BY <4>1, <4>2, <4>3, AtHandKept
      <4> QED BY <1>4, <2>0, <4>4, <4>8, <4>9 DEF Reachable, Chosen
    <3> QED BY <3>1, <3>2
  <2>2. CASE saved[Profile[e]][n] = e
    <3>1. saved'[Profile[e]][n] = e
          BY <2>0, <2>2, SavedSteps, MigrationAssumption
    <3>2. CASE kind[e][n] = "link"
      <4>1. kind'[e][n] = "link" BY <2>0, <3>2, KindSteps
      <4> QED BY <1>4, <2>0, <3>1, <4>1 DEF Reachable
    <3>3. CASE Chosen(e) /\ OwnsLinks(e)
      <4>1. OwnsLinks(e)' BY <3>3, LinksStay
      <4> QED BY <1>4, <2>0, <3>1, <3>3, <4>1 DEF Reachable, Chosen
    <3>4. CASE Chosen(e) /\ pc = "link" /\ sub = "tie" /\ AtHand = e /\ ~OwnsLinks(e)
      <4>1. CASE UNCHANGED <<pc, sub, todo>>
        <5>1. AtHand' = e /\ pc' = "link" /\ sub' = "tie" BY <3>4, <4>1, AtHandKept
        <5> QED BY <1>4, <2>0, <3>1, <3>4, <5>1 DEF Reachable, Chosen
      <4>2. CASE Tie
        <5>1. kind'[e][cur] = "link" /\ cur \in Names
              BY <3>4, <4>2, AtWork DEF Tie, AtHand, TypeOK
        <5>2. OwnsLinks(e)' BY <5>1 DEF OwnsLinks
        <5> QED BY <1>4, <2>0, <3>1, <3>4, <5>2 DEF Reachable, Chosen
      <4>3. ~Stop
        <5>1. e \in HalfLinked BY <3>4 DEF HalfLinked, OwnsLinks, AtHand
        <5> QED BY <5>1 DEF Stop
      <4> QED BY <3>4, <4>1, <4>2, <4>3, BetweenSavesAndTie
    <3> QED BY <1>4, <2>1, <2>2, <3>2, <3>3, <3>4 DEF Reachable
  <2> QED BY <1>4, <2>1, <2>2 DEF Reachable
<1> QED BY <1>2, <1>3, <1>4

\* The rewrite of a file that can be reached finds it.
LEMMA TextsTurned ==
  ASSUME TypeOK, Shape, Stage, Homes, Paths, Texts, Links, RewriteText, version = 0,
         AtHand \in Installs \ cut
  PROVE  Rewritten(AtHand) \/ Named(text'[AtHand], "legacy") \cap Exposed' = {}
<1> SUFFICES ASSUME ~Rewritten(AtHand), NEW e \in Installs, e = AtHand, e \notin cut
             PROVE  Named(text'[e], "legacy") \cap Exposed' = {}
    OBVIOUS
<1>1. pc = "text" BY DEF RewriteText
<1>2. Reachable(e) BY DEF Texts
<1>3. HasText(e)
  <2>1. CASE TextAt[e] = "exe" BY <1>2, <2>1 DEF Reachable, HasText
  <2>2. CASE TextAt[e] # "exe" /\ Chosen(e) /\ OwnsLinks(e)
    <3>1. Linked(e) BY <1>1, <2>2 DEF Links, LateSound, Late
    <3>2. kind[e][TextAt[e]] = "link" BY <2>2, <3>1, MigrationAssumption DEF Linked
    <3> QED BY <1>2, <2>2, <3>2 DEF Reachable, HasText
  <2> QED BY <1>1, <1>2, <2>1, <2>2 DEF Reachable, HasText
<1>4. Reached(e) BY <1>1, <1>3, NewPathIsHome DEF Reached, Late
<1>5. text'[e] = Moved(text[e]) BY <1>4 DEF RewriteText, AtHand
<1>6. Named(text'[e], "legacy") \cap plan = {} BY <1>5, MovedNames DEF TypeOK
<1>7. Derived \subseteq plan BY <1>1 DEF Stage, Working
<1>8. Exposed' = Exposed
      BY DEF RewriteText, Exposed, Derived, Stored, Named
<1> QED BY <1>6, <1>7, <1>8 DEF Exposed

\* A file waits for its turn within reach, and its turn finds it.
LEMMA TextsKept ==
  ASSUME TypeOK, Shape, Stage, Homes, Paths, Texts, Links, [Next]_vars
  PROVE  Texts'
<1> SUFFICES ASSUME version' = 0, NEW e \in Installs, e \notin cut'
             PROVE  /\ Named(text'[e], "legacy") \subseteq Stored' \cup {Probed}
                    /\ Named(text'[e], "legacy") \ flat' \subseteq lost' \cup Exposed'
                    /\ Rewritten(e)' \/ Reachable(e)'
                    /\ pc' \in Late \ {"text"} => Rewritten(e)'
                    /\ pc' = "text" /\ e \in Done' => Rewritten(e)'
    BY DEF Texts
<1>1. version = 0 /\ e \notin cut BY VersionSteps, CutStays
<1>2. Rewritten(e)' \/ Reachable(e)'
  BY <1>1, TextsReached, ExposureShrinks DEF Texts
<1>3. ASSUME pc' \in Late \ {"text"} PROVE Rewritten(e)'
  <2>1. pc \in Late BY <1>3, LateSteps DEF NextStage, Enter
  <2>2. CASE pc = "text"
    <3>1. Done = Installs BY <1>3, <2>2, TextPass, SuffixBegins DEF Done
    <3> QED BY <1>1, <2>2, <3>1, ExposureShrinks DEF Texts
  <2> QED BY <1>1, <2>1, <2>2, ExposureShrinks DEF Texts
<1>4. ASSUME pc' = "text", e \in Done' PROVE Rewritten(e)'
  <2>1. CASE NextStage("link", "text")
    <3>1. Done' = {} BY <2>1, SuffixBegins DEF NextStage, Enter, Done
    <3> QED BY <1>4, <3>1
  <2>2. CASE pc = "text" /\ UNCHANGED todo
        BY <1>1, <1>4, <2>2, AtHandKept, ExposureShrinks DEF Texts
  <2>3. CASE pc = "text" /\ RewriteText
    <3>1. todo # << >> /\ todo' = Tail(todo) BY <2>3 DEF RewriteText
    <3>2. AtHand \in Installs /\ Rest(todo') = Rest(todo) \ {AtHand}
          BY <3>1, SuffixSteps DEF Shape, AtHand
    <3>3. e \in Done \/ e = AtHand BY <1>4, <3>2 DEF Done
    <3>4. CASE e \in Done BY <1>1, <2>3, <3>4, ExposureShrinks DEF Texts
    <3>5. CASE e = AtHand
      <4>1. Rewritten(e) \/ Named(text'[e], "legacy") \cap Exposed' = {}
            BY <1>1, <2>3, <3>5, TextsTurned
      <4> QED BY <4>1, ExposureShrinks DEF Rewritten
    <3> QED BY <3>3, <3>4, <3>5
  <2> QED BY <1>4, <2>1, <2>2, <2>3, TextPass
<1>5. ASSUME NEW d \in Named(text'[e], "legacy") PROVE d \in Stored' \cup {Probed}
  <2>1. d \in Named(text[e], "legacy") /\ d \in Stored \cup {Probed}
        BY <1>1, <1>5, TextSteps DEF Texts
  <2>2. pc \in Late \ {"text"} => d \notin Stored
        BY <1>1, <2>1 DEF Texts, Rewritten, Exposed, Derived
  <2>3. RewriteRows \/ RewriteConfig => pc \in Late \ {"text"}
        BY DEF RewriteRows, RewriteConfig, Late
  <2> QED BY <2>1, <2>2, <2>3, RefsSteps
<1>6. Named(text'[e], "legacy") \subseteq Stored' \cup {Probed} BY <1>5
<1> QED BY <1>1, <1>2, <1>3, <1>4, <1>6, TextsNamed

\* At first the old names are all there.
LEMMA TextsInit == Init => Texts
<1> SUFFICES ASSUME Init, version = 0, NEW e \in Installs
             PROVE  /\ Named(text[e], "legacy") \subseteq Stored \cup {Probed}
                    /\ Named(text[e], "legacy") \ flat = {}
                    /\ Rewritten(e) \/ Reachable(e)
    BY DEF Init, Texts, Late
<1>1. FlatLibrary BY DEF Init, LinkedLibrary
<1>5. Named(text[e], "legacy") \subseteq Stored \cup {Probed}
  <2>1. PICK d \in SUBSET Dirs : /\ rows = d \X {"legacy"}
                                 /\ conf = (Dirs \ (d \cup {Probed})) \X {"legacy"}
        BY <1>1 DEF FlatLibrary
  <2>2. Dirs \subseteq Stored \cup {Probed} BY <2>1 DEF Stored, Named
  <2> QED BY <2>2 DEF Named
<1>2. flat = Dirs BY <1>1 DEF FlatLibrary
<1>3. CASE HasText(e) BY <1>2, <1>3, <1>5 DEF HasText, Reachable, Named
<1>4. CASE ~HasText(e)
  <2>1. text[e] = {} BY <1>1, <1>4 DEF FlatLibrary
  <2> QED BY <2>1 DEF Rewritten, Named
<1> QED BY <1>2, <1>3, <1>4, <1>5 DEF Named

-----------------------------------------------------------------------------
(* That an install of each profile is linked in the end.                   *)

Settled(p) == Tied(p) \/ Of(p) \cap cut # {}

OwnersTied ==
    version = 0 => \A e \in Installs : Chosen(e) /\ HasSaves(e) =>
        \/ Settled(Profile[e]) \/ OwnsLinks(e)
        \/ pc = "link" /\ sub \in {"shift", "tie"} /\ AtHand = e

DoneTied == pc = "link" => \A e \in Done : Chosen(e) => Settled(Profile[e])

LateTied ==
    version = 0 /\ pc \in Late => \A e \in Installs : Chosen(e) => Settled(Profile[e])

NewTied ==
    version = 1 =>
        /\ \A e \in Installs \ Nested : Chosen(e) => Linked(e)
        /\ pc = "data" => \A e \in Done : Chosen(e) => Linked(e)
        /\ pc = "stamp" => \A e \in Installs : Chosen(e) => Linked(e)

Ties == OwnersTied /\ DoneTied /\ LateTied /\ NewTied /\ OwnersLinked

\* A profile that is settled stays so.
LEMMA SettledStays ==
  ASSUME TypeOK, Shape, [Next]_vars, NEW e \in Installs, Settled(Profile[e])
  PROVE  Settled(Profile[e])'
<1>1. Tied(Profile[e]) => Tied(Profile[e])' BY LinksStay
<1>2. cut \subseteq cut' BY CutStays
<1> QED BY <1>1, <1>2 DEF Settled

\* saves/<profile> is made by the chosen install, on its way to its links.
LEMMA OwnersTiedKept ==
  ASSUME TypeOK, Shape, Stage, Links, OwnersTied, LateTied, [Next]_vars
  PROVE  OwnersTied'
<1> SUFFICES ASSUME version' = 0, NEW e \in Installs, Chosen(e), HasSaves(e)'
             PROVE  \/ Settled(Profile[e])' \/ OwnsLinks(e)'
                    \/ pc' = "link" /\ sub' \in {"shift", "tie"} /\ AtHand' = e
    BY DEF OwnersTied, Chosen
<1>1. version = 0 BY VersionSteps
<1>2. CASE HasSaves(e)
  <2>1. CASE Settled(Profile[e]) BY <2>1, SettledStays
  <2>2. CASE OwnsLinks(e) BY <2>2, LinksStay
  <2>3. CASE pc = "link" /\ sub \in {"shift", "tie"} /\ AtHand = e /\ ~OwnsLinks(e)
    <3>1. CASE pc' = pc /\ sub' \in {sub, "tie"} /\ UNCHANGED todo
          BY <2>3, <3>1, AtHandKept
    <3>2. CASE Tie
      <4>1. kind'[e][cur] = "link" /\ cur \in Names
            BY <2>3, <3>2, AtWork DEF Tie, AtHand, TypeOK
      <4> QED BY <4>1 DEF OwnsLinks
    <3>3. CASE Stop
      <4>1. e \in HalfLinked BY <2>3 DEF HalfLinked, OwnsLinks, AtHand
      <4>2. e \in cut' BY <3>3, <4>1 DEF Stop
      <4> QED BY <4>2 DEF Settled, Of
    <3> QED BY <2>3, <3>1, <3>2, <3>3, BetweenSavesAndTie
  <2> QED BY <1>1, <1>2, <2>1, <2>2, <2>3 DEF OwnersTied
<1>3. CASE ~HasSaves(e)
  <2>1. PICK n \in Names : saved'[Profile[e]][n] # "absent" BY DEF HasSaves
  <2>2. saved[Profile[e]][n] = "absent" BY <1>3 DEF HasSaves
  <2>3. Profile[e] \in Profiles BY Belongs
  <2>4. \A b \in Installs : Profile[b] = Profile[e] => kind[b][n] # "link"
        BY <2>2 DEF Links, LinkSaved
  <2>5. MakeSaves(n) /\ Profile[e] = Profile[AtHand]
        BY <2>1, <2>2, <2>3, <2>4, SavedSteps
  <2>6. pc' = pc /\ pc \in {"link", "data"} /\ sub # "pick" /\ todo' = todo
        BY <2>5 DEF MakeSaves, Shape, Linking
  <2>7. CASE pc = "data" BY <1>1, <2>7, SettledStays DEF LateTied, Late
  <2>8. CASE pc = "link"
    <3>1. AtHand \in Installs BY <2>6, AtWork
    <3>2. AtHand = e BY <2>5, <2>6, <2>8, <3>1, ChosenIsOne DEF Links, AtHandSound
    <3>3. kind[e][n] # "link" BY <2>4
    <3>4. sub' = "shift" BY <2>5, <3>2, <3>3 DEF MakeSaves, AtHand
    <3> QED BY <2>6, <2>8, <3>2, <3>4, AtHandKept
  <2> QED BY <2>6, <2>7, <2>8
<1> QED BY <1>2, <1>3

\* The chosen install is linked when it is left, or its profile is settled.
LEMMA DoneTiedKept ==
  ASSUME TypeOK, Shape, Stage, Homes, Links, OwnersTied, DoneTied, [Next]_vars
  PROVE  DoneTied'
<1> SUFFICES ASSUME pc' = "link", NEW e \in Done', Chosen(e)
             PROVE  Settled(Profile[e])'
    BY DEF DoneTied, Chosen
<1>0. e \in Installs BY DEF Done
<1>1. CASE Enter(pc')
  <2>1. Done' = {} BY <1>1, SuffixBegins DEF Enter, Done
  <2> QED BY <2>1
<1>2. CASE pc' = pc /\ UNCHANGED <<todo, filled>>
  BY <1>0, <1>2, AtHandKept, SettledStays DEF DoneTied
<1>3. ASSUME pc' = pc, (PickEntry /\ ~Linkable(AtHand)) \/ EntryLinked
      PROVE  Settled(Profile[e])'
  <2>1. Done' = Done \cup {AtHand} /\ AtHand \in Rest(todo) BY <1>3, EntryLeft
  <2>2. CASE e \in Done BY <1>0, <1>3, <2>2, SettledStays DEF DoneTied
  <2>3. CASE e = AtHand /\ EntryLinked
    <3>1. Linked(e) BY <2>3 DEF EntryLinked, Shape, Linked
    <3>2. Settled(Profile[e]) BY <1>0, <3>1 DEF Settled, Tied, Of
    <3> QED BY <1>0, <3>2, SettledStays
  <2>4. CASE e = AtHand /\ PickEntry /\ ~Linkable(AtHand)
    <3>1. Profile[e] \notin filled BY <1>3, <2>1, <2>4 DEF Links, TurnComes
    <3>2. home[e].root = "emulators" /\ Eligible(e) BY <1>0, <1>3, ChosenIsOne DEF Homes
    <3>3. HasSaves(e) /\ ~OwnsLinks(e) BY <1>3, <2>4, <3>1, <3>2 DEF Linkable, Eligible
    <3>4. version = 0 /\ sub = "pick" BY <1>3, <2>4 DEF Stage, PickEntry
    <3>5. Settled(Profile[e]) BY <1>0, <3>3, <3>4 DEF OwnersTied
    <3> QED BY <1>0, <3>5, SettledStays
  <2> QED BY <1>3, <2>1, <2>2, <2>3, <2>4
<1> QED BY <1>1, <1>2, <1>3, PassSteps

\* The pass leaves every profile settled.
LEMMA LateTiedKept ==
  ASSUME TypeOK, Shape, Stage, DoneTied, LateTied, [Next]_vars
  PROVE  LateTied'
<1> SUFFICES ASSUME version' = 0, pc' \in Late, NEW e \in Installs, Chosen(e)
             PROVE  Settled(Profile[e])'
    BY DEF LateTied, Chosen
<1>1. CASE pc = "link" /\ todo = << >>
  <2>1. Done = Installs BY <1>1, SuffixBegins DEF Done
  <2> QED BY <1>1, <2>1, SettledStays DEF DoneTied
<1>2. CASE version = 0 /\ pc \in Late BY <1>2, SettledStays DEF LateTied
<1> QED BY <1>1, <1>2, LateSteps

LEMMA StampSteps ==
  ASSUME Shape, [Next]_vars, pc' = "stamp"
  PROVE  pc = "stamp" \/ NextStage("data", "stamp")
<1>1. CASE Start \/ Stop \/ UNCHANGED vars BY <1>1 DEF Start, Stop, vars, Resting
<1>2. CASE Between
  BY <1>2 DEF Between, Quit, Resolve, InstallGame, Save, run, Resting
<1>3. CASE Step
  BY <1>3 DEF Step, Preflight, GamesMoved, MoveDir, Direct, ThroughTemporary, RenameRoot,
              Merged, Merging, Merge, Rename, PickEntry, Unlinked, EntryLinked, Unlink, Shift,
              Tie, MakeSaves, RewriteText, RewriteRows, RewriteConfig, Stamp, NextStage,
              Resting, Enter, run
<1> QED BY <1>1, <1>2, <1>3 DEF Next

\* At the data root the Nested ones catch up; the others were linked by
\* layout 1.
LEMMA NewTiedKept ==
  ASSUME TypeOK, Shape, Paths, Links, NewTied, [Next]_vars
  PROVE  NewTied'
<1> SUFFICES ASSUME version' = 1
             PROVE  /\ \A e \in Installs \ Nested : Chosen(e) => Linked(e)'
                    /\ pc' = "data" => \A e \in Done' : Chosen(e) => Linked(e)'
                    /\ pc' = "stamp" => \A e \in Installs : Chosen(e) => Linked(e)'
    BY DEF NewTied, Chosen
<1>1. version = 1 BY VersionSteps
<1>2. \A e \in Installs \ Nested : Chosen(e) => Linked(e)'
  BY <1>1, LinksStay DEF NewTied
<1>3. ASSUME pc' = "data", NEW e \in Done', Chosen(e) PROVE Linked(e)'
  <2>0. e \in Installs BY DEF Done
  <2>1. CASE Enter(pc')
    <3>1. Done' = {} BY <2>1, SuffixBegins DEF Enter, Done
    <3> QED BY <1>3, <3>1
  <2>2. CASE pc' = pc /\ UNCHANGED <<todo, filled>>
        BY <1>1, <1>3, <2>0, <2>2, AtHandKept, LinksStay DEF NewTied
  <2>3. ASSUME pc' = pc, (PickEntry /\ ~Linkable(AtHand)) \/ EntryLinked
        PROVE  Linked(e)'
    <3>1. Done' = Done \cup {AtHand} /\ AtHand \in Rest(todo) BY <2>3, EntryLeft
    <3>2. CASE e \in Done BY <1>1, <1>3, <2>0, <2>3, <3>2, LinksStay DEF NewTied
    <3>3. CASE e = AtHand /\ EntryLinked
      <4>1. Linked(e) BY <3>3 DEF EntryLinked, Shape, Linked
      <4> QED BY <2>0, <4>1, LinksStay
    <3>4. CASE e = AtHand /\ PickEntry /\ ~Linkable(AtHand)
      <4>1. Profile[e] \notin filled
            BY <1>3, <2>3, <3>1, <3>4 DEF Links, TurnComes
      <4>2. path[e] = home[e] /\ Eligible(e) BY <1>1, <1>3, <2>0, ChosenIsOne DEF Paths
      <4>3. e \notin Nested BY <1>3, <2>3, <3>4, <4>1, <4>2 DEF Linkable, Eligible
      <4> QED BY <1>2, <1>3, <2>0, <4>3
    <3> QED BY <1>3, <2>3, <3>1, <3>2, <3>3, <3>4
  <2> QED BY <1>3, <2>1, <2>2, <2>3, PassSteps
<1>4. ASSUME pc' = "stamp", NEW e \in Installs, Chosen(e) PROVE Linked(e)'
  <2>1. CASE pc = "stamp" BY <1>1, <1>4, <2>1, LinksStay DEF NewTied
  <2>2. CASE NextStage("data", "stamp")
    <3>1. pc = "data" /\ Done = Installs BY <2>2, SuffixBegins DEF NextStage, Done
    <3> QED BY <1>1, <1>4, <3>1, LinksStay DEF NewTied
  <2> QED BY <1>4, <2>1, <2>2, StampSteps
<1> QED BY <1>2, <1>3, <1>4

\* So a library that is stamped is linked, from either layout.
LEMMA OwnersLinkedKept ==
  ASSUME TypeOK, Shape, Stage, LateTied, NewTied, OwnersLinked, [Next]_vars
  PROVE  OwnersLinked'
<1> SUFFICES ASSUME version' = 2, NEW p \in Profiles, NEW e \in Owner(p)
             PROVE  Settled(p)'
    BY DEF OwnersLinked, Settled
<1>1. e \in Installs /\ Profile[e] = p /\ Chosen(e)
  <2> DEFINE S == {f \in Of(p) : UserData[f] # {} /\ f \notin Hollow}
  <2>1. Owner(p) = First(S) BY DEF Owner
  <2>2. First(S) \subseteq S
    <3> HIDE DEF S
    <3> QED BY FirstIsOne
  <2> QED BY <2>1, <2>2 DEF Chosen, Of
<1>2. SUFFICES Settled(p) BY <1>1, SettledStays
<1>3. CASE version = 2 BY <1>3 DEF OwnersLinked, Settled
<1>4. CASE version # 2
  <2>1. pc = "stamp" BY <1>4, VersionSteps DEF Stamp
  <2>2. version = 0 \/ version = 1 BY <1>4 DEF TypeOK
  <2>3. CASE version = 0 BY <1>1, <2>1, <2>3 DEF LateTied, Late
  <2>4. CASE version = 1
    <3>1. Linked(e) BY <1>1, <2>1, <2>4 DEF NewTied
    <3> QED BY <1>1, <3>1 DEF Settled, Tied, Of
  <2> QED BY <2>2, <2>3, <2>4
<1> QED BY <1>3, <1>4

LEMMA TiesKept ==
  ASSUME TypeOK, Shape, Stage, Homes, Paths, Links, Ties, [Next]_vars
  PROVE  Ties'
BY OwnersTiedKept, DoneTiedKept, LateTiedKept, NewTiedKept, OwnersLinkedKept DEF Ties

\* What a newer version had under saves/ it had linked.
LEMMA TiesInit == Init => Ties
<1> SUFFICES ASSUME Init PROVE Ties OBVIOUS
<1>1. CASE FlatLibrary
  <2>1. PICK has \in [Installs -> {"none", "full", "astray", "link"}] :
           kind = [e \in Installs |-> Kinds(e, has[e])]
        BY <1>1 DEF FlatLibrary
  <2>2. \A e \in Installs, n \in Names :
           kind[e][n] = IF n \in UserData[e] THEN has[e] ELSE "none"
        BY <2>1 DEF Kinds
  <2>3. PICK full \in [Profiles -> BOOLEAN] : saved = [p \in Profiles |-> [n \in Names |->
          LET own == {e \in Of(p) : kind[e][n] = "link"}
          IN  IF own = {} THEN "absent"
              ELSE IF full[p] THEN CHOOSE e \in own : TRUE ELSE "empty"]]
        BY <1>1 DEF FlatLibrary
  <2>4. ASSUME NEW e \in Installs, HasSaves(e) PROVE Tied(Profile[e])
    <3>1. PICK n \in Names : saved[Profile[e]][n] # "absent" BY <2>4 DEF HasSaves
    <3>2. Profile[e] \in Profiles BY Belongs
    <3>3. PICK f \in Of(Profile[e]) : kind[f][n] = "link" BY <2>3, <3>1, <3>2
    <3>4. f \in Installs /\ has[f] = "link" BY <2>2, <3>3 DEF Of
    <3>5. Linked(f) BY <2>2, <3>4, Belongs DEF Linked
    <3> QED BY <3>3, <3>5 DEF Tied
  <2>5. version = 0 BY <1>1 DEF FlatLibrary
  <2> QED BY <2>4, <2>5 DEF Init, Ties, OwnersTied, DoneTied, LateTied, NewTied, OwnersLinked,
             Settled, Late
<1>2. CASE LinkedLibrary
  <2>0. version = 1 BY <1>2 DEF LinkedLibrary
  <2>1. PICK has \in [Installs -> {"none", "full"}] :
           kind = [e \in Installs |->
                     Kinds(e, IF e \in Owner(Profile[e]) \ Nested THEN "link" ELSE has[e])]
        BY <1>2 DEF LinkedLibrary
  <2>2. ASSUME NEW e \in Installs \ Nested, Chosen(e) PROVE Linked(e)
    <3>1. \A n \in Names : kind[e][n] = IF n \in UserData[e] THEN "link" ELSE "none"
          BY <2>1, <2>2 DEF Kinds, Chosen
    <3> QED BY <3>1, Belongs DEF Linked
  <2> QED BY <2>0, <2>2 DEF Init, Ties, OwnersTied, DoneTied, LateTied, NewTied, OwnersLinked,
             Late
<1> QED BY <1>1, <1>2 DEF Init

-----------------------------------------------------------------------------
(* What the registry and the config name.                                  *)

NewNames ==
    /\ Named(rows, "games") \subseteq games /\ Named(conf, "games") \subseteq games
    /\ \A e \in Installs : Named(text[e], "games") \subseteq games

OldNames ==
    /\ version = 0 /\ pc \in {"config", "data", "stamp"} => Named(rows, "legacy") = {}
    /\ version = 0 /\ pc \in {"data", "stamp"} => Named(conf, "legacy") = {}
    /\ version = 1 => /\ Named(rows, "legacy") = {} /\ Named(conf, "legacy") = {}
                      /\ \A e \in Installs : Named(text[e], "legacy") = {}

Referring == NewNames /\ OldNames /\ ReferencesResolve

\* Who writes the registry's references and the config's.
LEMMA RowsSteps ==
  ASSUME [Next]_vars
  PROVE  /\ rows' = rows \/ RewriteRows \/ \E d \in Dirs : InstallGame(d)
         /\ conf' = conf \/ RewriteConfig
<1>1. CASE Start \/ Stop \/ UNCHANGED vars BY <1>1 DEF Start, Stop, vars, disk
<1>2. CASE Step
  BY <1>2 DEF Step, Preflight, GamesMoved, MoveDir, Direct, ThroughTemporary, RenameRoot,
              Merged, Merge, Rename, PickEntry, Unlinked, EntryLinked, Unlink, Shift, Tie,
              MakeSaves, RewriteText, RewriteRows, RewriteConfig, Stamp, NextStage, disk
<1>3. CASE Between
  BY <1>3 DEF Between, Quit, Resolve, InstallGame, Save, disk
<1> QED BY <1>1, <1>2, <1>3 DEF Next

\* The order of the two rewrites.
LEMMA ConfigSteps ==
  ASSUME Shape, Stage, [Next]_vars, version' = 0
  PROVE  /\ pc' \in {"config", "data", "stamp"} =>
               pc \in {"config", "data", "stamp"} \/ RewriteRows
         /\ pc' \in {"data", "stamp"} => pc \in {"data", "stamp"} \/ RewriteConfig
<1>0. version = 0 BY VersionSteps
<1>1. CASE Start \/ Stop \/ UNCHANGED vars BY <1>1 DEF Start, Stop, vars, Resting
<1>2. CASE Between
  BY <1>2 DEF Between, Quit, Resolve, InstallGame, Save, run, Resting
<1>3. CASE \/ Preflight \/ GamesMoved \/ \E d \in Dirs : MoveDir(d)
           \/ Direct \/ ThroughTemporary \/ Merged \/ \E e \in Installs : Merge(e)
           \/ Rename
  BY <1>0, <1>3 DEF Preflight, GamesMoved, MoveDir, Direct, ThroughTemporary, RenameRoot,
              Merged, Merging, Merge, Rename, Enter, run, Resting
<1>4. CASE \/ PickEntry \/ Unlinked \/ Shift \/ Tie \/ EntryLinked
           \/ \E n \in Names : Unlink(n) \/ MakeSaves(n)
  <2>1. pc' = pc BY <1>4 DEF PickEntry, Unlinked, Shift, Tie, EntryLinked, Unlink, MakeSaves, run
  <2> QED BY <2>1
<1>5. CASE \/ RewriteText \/ RewriteRows \/ RewriteConfig \/ Stamp
           \/ NextStage("names", "link") \/ NextStage("link", "text")
           \/ NextStage("text", "rows") \/ NextStage("data", "stamp")
  BY <1>5 DEF RewriteText, RewriteRows, RewriteConfig, Stamp, NextStage, Enter, Resting
<1> QED BY <1>1, <1>2, <1>3, <1>4, <1>5 DEF Next, Step

\* With version 2 nothing is left to do: the property is about the stamp.
LEMMA MigratedRests ==
  ASSUME Shape, Stage, version = 2, [Next]_vars
  PROVE  UNCHANGED vars
<1>1. pc \notin Working BY DEF Stage
<1>2. ~Start /\ ~Stop BY <1>1 DEF Start, Stop
<1>3. ~Between BY DEF Between, Quit, Resolve, InstallGame, Save, Ready
<1>4. sub = "pick" BY <1>1 DEF Shape, Linking, Working
<1>5. ~Step
  BY <1>1, <1>4 DEF Step, Preflight, GamesMoved, MoveDir, Direct, ThroughTemporary, RenameRoot,
              Merged, Merging, Merge, Rename, PickEntry, Unlinked, EntryLinked, Unlink, Shift,
              Tie, MakeSaves, RewriteText, RewriteRows, RewriteConfig, Stamp, NextStage,
              Linking, Working
<1> QED BY <1>2, <1>3, <1>5 DEF Next

\* What the plan holds has been moved by the time something is turned.
LEMMA MovedThere ==
  ASSUME TypeOK, Stage, version = 0, pc \in {"text", "rows", "config"},
         NEW refs \in SUBSET Refs, Named(refs, "games") \subseteq games
  PROVE  Named(Moved(refs), "games") \subseteq games
<1>1. plan \cap flat = {} /\ flat \cup games = Dirs BY DEF Stage, Working
<1>2. plan \subseteq games BY <1>1 DEF TypeOK
<1> QED BY <1>2, MovedNames

\* What is named in the new form is below games/.
LEMMA NewNamesKept ==
  ASSUME TypeOK, Stage, NewNames, [Next]_vars
  PROVE  NewNames'
<1>0. games \subseteq games' BY RefsSteps
<1>1. Named(rows', "games") \subseteq games'
  <2>1. CASE RewriteRows
    <3>1. pc = "rows" /\ version = 0 /\ rows' = Moved(rows) BY <2>1 DEF RewriteRows, Stage
    <3> QED BY <1>0, <3>1, MovedThere DEF NewNames, TypeOK
  <2>2. ASSUME NEW d \in Dirs, InstallGame(d) PROVE Named(rows', "games") \subseteq games'
    <3>1. rows' = rows \cup {<<d, "games">>} /\ games' = games \cup {d}
          BY <2>2 DEF InstallGame
    <3>2. Named(rows', "games") = Named(rows, "games") \cup {d} BY <3>1 DEF Named
    <3> QED BY <3>1, <3>2 DEF NewNames
  <2>3. CASE rows' = rows BY <1>0, <2>3 DEF NewNames
  <2> QED BY <2>1, <2>2, <2>3, RowsSteps
<1>2. Named(conf', "games") \subseteq games'
  <2>1. CASE RewriteConfig
    <3>1. pc = "config" /\ version = 0 /\ conf' = Moved(conf) BY <2>1 DEF RewriteConfig, Stage
    <3> QED BY <1>0, <3>1, MovedThere DEF NewNames, TypeOK
  <2>2. CASE conf' = conf BY <1>0, <2>2 DEF NewNames
  <2> QED BY <2>1, <2>2, RowsSteps
<1>3. ASSUME NEW e \in Installs PROVE Named(text'[e], "games") \subseteq games'
  <2>1. CASE RewriteText
    <3>1. pc = "text" /\ version = 0 BY <2>1 DEF RewriteText, Stage
    <3>2. text'[e] = text[e] \/ text'[e] = Moved(text[e]) BY <2>1 DEF RewriteText
    <3>3. text[e] \in SUBSET Refs /\ Named(text[e], "games") \subseteq games
          BY DEF TypeOK, NewNames
    <3> QED BY <1>0, <3>1, <3>2, <3>3, MovedThere
  <2>2. CASE text'[e] = {} BY <2>2 DEF Named
  <2>3. CASE text'[e] = text[e] BY <1>0, <2>3 DEF NewNames
  <2> QED BY <2>1, <2>2, <2>3, TextSteps
<1> QED BY <1>1, <1>2, <1>3 DEF NewNames

\* Nothing gets a name in the old form.
LEMMA OldNamesShrink ==
  ASSUME TypeOK, [Next]_vars
  PROVE  /\ Named(rows', "legacy") \subseteq Named(rows, "legacy")
         /\ Named(conf', "legacy") \subseteq Named(conf, "legacy")
<1>1. CASE RewriteRows BY <1>1, MovedNames DEF RewriteRows, TypeOK
<1>2. CASE RewriteConfig BY <1>2, MovedNames DEF RewriteConfig, TypeOK
<1>3. ASSUME NEW d \in Dirs, InstallGame(d)
      PROVE  Named(rows', "legacy") = Named(rows, "legacy") /\ conf' = conf
  BY <1>3 DEF InstallGame, Named
<1> QED BY <1>1, <1>2, <1>3, RowsSteps DEF RewriteRows, RewriteConfig

\* The rewrites leave no old name, since the plan covers what is stored.
LEMMA OldNamesKept ==
  ASSUME TypeOK, Shape, Stage, OldNames, [Next]_vars
  PROVE  OldNames'
<1>1. ASSUME version' = 0, pc' \in {"config", "data", "stamp"} PROVE Named(rows', "legacy") = {}
  <2>0. version = 0 BY <1>1, VersionSteps
  <2>1. CASE RewriteRows
    <3>1. pc = "rows" /\ rows' = Moved(rows) BY <2>1 DEF RewriteRows
    <3>2. Named(rows, "legacy") \subseteq plan
          BY <2>0, <3>1 DEF Stage, Working, Derived, Stored, Named
    <3> QED BY <3>1, <3>2, MovedNames DEF TypeOK
  <2>2. CASE pc \in {"config", "data", "stamp"} BY <2>0, <2>2, OldNamesShrink DEF OldNames
  <2> QED BY <1>1, <2>1, <2>2, ConfigSteps
<1>2. ASSUME version' = 0, pc' \in {"data", "stamp"} PROVE Named(conf', "legacy") = {}
  <2>0. version = 0 BY <1>2, VersionSteps
  <2>1. CASE RewriteConfig
    <3>1. pc = "config" /\ conf' = Moved(conf) BY <2>1 DEF RewriteConfig
    <3>2. Named(conf, "legacy") \subseteq plan
          BY <2>0, <3>1 DEF Stage, Working, Derived, Stored, Named
    <3> QED BY <3>1, <3>2, MovedNames DEF TypeOK
  <2>2. CASE pc \in {"data", "stamp"} BY <2>0, <2>2, OldNamesShrink DEF OldNames
  <2> QED BY <1>2, <2>1, <2>2, ConfigSteps
<1>3. ASSUME version' = 1
      PROVE  /\ Named(rows', "legacy") = {} /\ Named(conf', "legacy") = {}
             /\ \A e \in Installs : Named(text'[e], "legacy") = {}
  <2>1. version = 1 BY <1>3, VersionSteps
  <2> QED BY <2>1, OldNamesShrink, TextSteps DEF OldNames
<1> QED BY <1>1, <1>2, <1>3 DEF OldNames

\* What the stamp finds.
LEMMA ReferencesKept ==
  ASSUME TypeOK, Shape, Stage, Paths, Texts, Referring, [Next]_vars
  PROVE  ReferencesResolve'
<1>1. CASE version = 2
  <2>1. UNCHANGED vars BY <1>1, MigratedRests
  <2>2. UNCHANGED <<version, rows, conf, text, path, home, flat, games, cut, lost>>
        BY <2>1 DEF vars
  <2> QED BY <1>1, <2>2 DEF Referring, ReferencesResolve, Dangling, Named
<1>2. CASE version # 2 /\ version' = 2
  <2>1. pc = "stamp" /\ UNCHANGED <<rows, conf, text, path, home, flat, games, cut, lost>>
        BY <1>2, VersionSteps DEF Stamp, book
  <2>2. version = 0 \/ version = 1 BY <1>2 DEF TypeOK
  <2>3. Dangling(rows) = {} /\ Dangling(conf) = {}
        BY <2>1, <2>2 DEF Referring, NewNames, OldNames, Dangling
  <2>4. path = home BY <2>1 DEF Paths
  <2>5. ASSUME NEW e \in Installs, e \notin cut PROVE Dangling(text[e]) \subseteq lost
    <3>1. Named(text[e], "games") \ games = {} BY DEF Referring, NewNames
    <3>2. CASE version = 1 BY <3>1, <3>2 DEF Referring, OldNames, Dangling
    <3>3. CASE version = 0
      <4>1. /\ Named(text[e], "legacy") \ flat \subseteq lost \cup Exposed
            /\ Rewritten(e)
            BY <2>1, <2>5, <3>3 DEF Texts, Late
      <4> QED BY <3>1, <4>1 DEF Rewritten, Dangling
    <3> QED BY <2>2, <3>2, <3>3
  <2> QED BY <2>1, <2>3, <2>4, <2>5 DEF ReferencesResolve, Dangling, Named
<1>3. CASE version' # 2 BY <1>3 DEF ReferencesResolve
<1> QED BY <1>1, <1>2, <1>3

LEMMA ReferringKept ==
  ASSUME TypeOK, Shape, Stage, Paths, Texts, Referring, [Next]_vars
  PROVE  Referring'
BY NewNamesKept, OldNamesKept, ReferencesKept DEF Referring

LEMMA ReferringInit == Init => Referring
<1> SUFFICES ASSUME Init PROVE Referring OBVIOUS
<1>1. CASE FlatLibrary
  <2>1. /\ version = 0 /\ pc = "off"
        /\ \A e \in Installs : Named(text[e], "games") = {}
        BY <1>1 DEF FlatLibrary, Init, Named
  <2>2. Named(rows, "games") = {} /\ Named(conf, "games") = {}
        BY <1>1 DEF FlatLibrary, Named
  <2>3. NewNames BY <2>1, <2>2 DEF NewNames
  <2>4. version # 1 /\ version # 2 /\ pc \notin {"config", "data", "stamp"} BY <2>1
  <2>5. OldNames BY <2>4, Zenon DEF OldNames
  <2>6. ReferencesResolve BY <2>4, Zenon DEF ReferencesResolve
  <2> QED BY <2>3, <2>5, <2>6 DEF Referring
<1>2. CASE LinkedLibrary
  <2>1. /\ version = 1 /\ games = Dirs /\ conf = {} /\ rows = Dirs \X {"games"}
        /\ text = [e \in Installs |-> IF HasText(e) THEN Dirs \X {"games"} ELSE {}]
        BY <1>2, Zenon DEF LinkedLibrary
  <2>2. /\ \A refs : Named(refs, "games") \subseteq games
        /\ Named(rows, "legacy") = {} /\ Named(conf, "legacy") = {}
        /\ \A e \in Installs : Named(text[e], "legacy") = {}
        BY <2>1 DEF Named
  <2>3. NewNames BY <2>2 DEF NewNames
  <2>4. version # 0 /\ version # 2 BY <2>1
  <2>5. OldNames BY <2>2, <2>4, Zenon DEF OldNames
  <2>6. ReferencesResolve BY <2>4, Zenon DEF ReferencesResolve
  <2> QED BY <2>3, <2>5, <2>6 DEF Referring
<1> QED BY <1>1, <1>2 DEF Init

-----------------------------------------------------------------------------
(* The inductive invariant, and what follows.                              *)

IInv ==
    /\ TypeOK /\ Shape /\ Stage /\ Homes /\ Paths
    /\ Links /\ Texts /\ Ties /\ Referring /\ SavesSurvive

\* Both kinds of library satisfy the invariant,
LEMMA IInvInit == Init => IInv
BY InitTyped, ShapeInit, StageInit, HomesInit, LinksInit, TextsInit, TiesInit, ReferringInit,
   SavesInit DEF IInv

\* and every step keeps it, part by part.
LEMMA IInvKept ==
  ASSUME IInv, [Next]_vars
  PROVE  IInv'
<1> USE DEF IInv
<1>1. TypeOK' BY StepTyped, OthersTyped DEF Next
<1>2. Shape' BY ShapeStep, ShapeOthers DEF Next
<1>3. Stage' BY StageStep, StageOthers DEF Next
<1>4. Homes' /\ Paths' BY HomesStep, HomesOthers DEF Next
<1>5. Links' BY LinksKept
<1>6. Texts' BY TextsKept
<1>7. Ties' BY TiesKept
<1>8. Referring' BY ReferringKept
<1>9. SavesSurvive' BY SavesKept
<1> QED BY <1>1, <1>2, <1>3, <1>4, <1>5, <1>6, <1>7, <1>8, <1>9

\* The inductive invariant holds in every state of a library's migration
\* (layout_migration.rs 403-492), however many runs it takes.
THEOREM MigrationInvariant == Spec => []IInv
<1>1. IInv /\ [Next]_vars => IInv' BY IInvKept
<1> QED BY IInvInit, <1>1, PTL DEF Spec

\* Whatever a run meets and wherever it stops, no file an emulator has written
\* is merged over (step_user_data, 692-709; move_into); at a data root alone
\* what saves/ has is preferred.
THEOREM SavesSafe == Spec => []SavesSurvive
<1>1. IInv => SavesSurvive BY DEF IInv
<1> QED BY MigrationInvariant, <1>1, PTL

\* A library that was stamped names what is there, in its registry, its config
\* and the emulators' own files, but for the file of an install that was cut,
\* and for the probed directory if it left its old place while only the probe
\* knew it: moved by a run that stopped before the files, or cleared away by
\* the user (step_rewrite, 961-969).
THEOREM ReferencesSafe == Spec => []ReferencesResolve
<1>1. IInv => ReferencesResolve BY DEF IInv, Referring
<1> QED BY MigrationInvariant, <1>1, PTL

\* A library that was stamped has an install of each profile linked, unless a
\* run stopped before its first link (step_user_data, step_data_root_links).
THEOREM OwnersSafe == Spec => []OwnersLinked
<1>1. IInv => OwnersLinked BY DEF IInv, Ties
<1> QED BY MigrationInvariant, <1>1, PTL
=============================================================================
