-------------------------- MODULE LayoutMigration ---------------------------
(***************************************************************************)
(* The one-shot migration of a library to the games/emulators/saves        *)
(* layout, at the start of the app (library/layout_migration.rs, with      *)
(* user_data_links.rs and Registry::rewrite_paths).  A step has one effect *)
(* on the disk, and a run may end before any of them: by an error, after   *)
(* which the app comes up all the same, or with the process.  The next     *)
(* start runs it again, from what it finds.                                *)
(*                                                                         *)
(* An entry of the config and the install it names are one thing here,     *)
(* since every entry has its directory.  A user_data directory holds at    *)
(* most one file, of the same name in every install: any two collide.      *)
(* Left out: spellings of a path, names that differ by case alone, entries *)
(* with no profile (nothing of theirs is renamed or linked), a file where  *)
(* a directory should be, and a user who edits an entry between two runs.  *)
(* A config is saved in one step (ConfigFile).                             *)
(***************************************************************************)
EXTENDS Integers, Sequences, FiniteSets

CONSTANTS
    Dirs,        \* the platform directories
    Probed,      \* the one the .vfs probe looks for ("PlayStation 3")
    Entries,     \* the emulator entries, in config order
    Profile,     \* Profile[e]: the profile of entry e, its new directory name
    UserData,    \* UserData[e]: the user_data names of its profile
    Nested,      \* entries whose data root is below the executable (AppImage)
    Hollow,      \* entries whose executable's directory is not on disk
    TextAt,      \* TextAt[e]: the name its config file is below, or "exe"
    Stale,       \* entries that may have links to somewhere else at first
    Fresh,       \* entries that a newer version may have installed
    Players,     \* bound: the emulators in use between two runs
    MaxStops     \* bound: runs that end early

Installs == {Entries[k] : k \in DOMAIN Entries}
Profiles == {Profile[e] : e \in Installs}
Names    == UNION {UserData[e] : e \in Installs}
Roots    == {"Emulators", "temporary", "emulators"}
Refs     == Dirs \X {"legacy", "games"}
Places   == [root : Roots, name : Installs \cup Profiles]

ASSUME MigrationAssumption ==
    /\ Entries \in Seq(Installs)
    /\ \A j, k \in DOMAIN Entries : Entries[j] = Entries[k] => j = k
    /\ Installs \cap (Profiles \cup {"absent", "empty"}) = {}
    /\ \A e, f \in Installs : Profile[e] = Profile[f] => UserData[e] = UserData[f]
    /\ Nested \cup Hollow \cup Stale \cup Fresh \cup Players \subseteq Installs
    /\ \A e \in Installs : TextAt[e] \in UserData[e] \cup {"exe"}
    /\ MaxStops \in Nat

VARIABLES
    \* on disk
    flat, games,     \* platform directories at <library>/ and <library>/games/
    roots, home,     \* emulator roots that exist; home[e]: where install e is
    kind,            \* kind[e][n]: what <data root>/n is; "full": has e's file
    beside,          \* beside[e]: names linked next to a Nested executable
    saved,           \* saved[p][n]: saves/p/n: "absent", "empty" or whose file
    rows, conf,      \* what the registry and the config name, in which form
    text,            \* text[e]: what the emulator's own config file names
    path,            \* path[e]: the executable's place in the config
    version,         \* library_layout_version
    \* in memory
    pc, plan, todo,  \* the step of the run, game_dirs, entries still to do
    filled,          \* populated
    sub, left, cur,  \* inside an entry: the step, its names, the one at hand
    \* bookkeeping
    clash,           \* both emulator roots hold a directory of one name
    wrote,           \* <<e, n>>: install e has written its file below n
    lost,            \* {Probed}, once it has left its old place forgotten:
                     \* nothing but the probe knew it, and the run that moved
                     \* it stopped, or the user cleared it away
    cut,             \* installs a run stopped at before their first link
    stops

disk == <<flat, games, roots, home, kind, beside, saved, rows, conf, text, path,
          version>>
run  == <<pc, plan, todo, filled, sub, left, cur>>
book == <<clash, wrote, lost, cut, stops>>
vars == <<flat, games, roots, home, kind, beside, saved, rows, conf, text, path,
          version, pc, plan, todo, filled, sub, left, cur, clash, wrote, lost,
          cut, stops>>

Working == {"start", "games", "roots", "temporary", "names", "link", "text",
            "rows", "config", "data", "stamp"}

TypeOK ==
    /\ flat \subseteq Dirs /\ games \subseteq Dirs
    /\ roots \subseteq Roots /\ home \in [Installs -> Places]
    /\ kind \in [Installs -> [Names -> {"none", "empty", "full", "link", "astray"}]]
    /\ beside \in [Installs -> SUBSET Names]
    /\ saved \in [Profiles -> [Names -> {"absent", "empty"} \cup Installs]]
    /\ rows \subseteq Refs /\ conf \subseteq Refs /\ text \in [Installs -> SUBSET Refs]
    /\ path \in [Installs -> Places] /\ version \in 0 .. 2
    /\ pc \in Working \cup {"off", "up"}
    /\ plan \subseteq Dirs /\ todo \in Seq(Installs) /\ filled \subseteq Profiles
    /\ sub \in {"pick", "unlink", "make", "shift", "tie"}
    /\ left \subseteq Names /\ cur \in Names \cup {"-"}
    /\ clash \in BOOLEAN /\ wrote \subseteq Installs \X Names
    /\ lost \subseteq {Probed} /\ cut \subseteq Installs /\ stops \in 0 .. MaxStops

In(root, name)    == [root |-> root, name |-> name]
NamesIn(root)     == {home[e].name : e \in {f \in Installs : home[f].root = root}}
Named(refs, form) == {d \in Dirs : <<d, form>> \in refs}

-----------------------------------------------------------------------------
(* A library as an old version of the app left it, or as layout 1 did.     *)

First(set) ==
    LET at == {k \in DOMAIN Entries : Entries[k] \in set}
    IN  {Entries[k] : k \in {k \in at : \A j \in at : k <= j}}

Of(p) == {e \in Installs : Profile[e] = p}

\* The install that gets the links of a profile is the first that is there.
Owner(p) == First({e \in Of(p) : UserData[e] # {} /\ e \notin Hollow})

Kinds(e, k) == [n \in Names |-> IF n \in UserData[e] THEN k ELSE "none"]

\* The emulator's own config file is there, in its directory or through a link.
HasText(e) ==
    /\ e \notin Hollow
    /\ \/ TextAt[e] = "exe"
       \/ /\ TextAt[e] # "exe"
          /\ \/ kind[e][TextAt[e]] = "full"
             \/ kind[e][TextAt[e]] = "link" /\ saved[Profile[e]][TextAt[e]] = e

FlatLibrary ==
    /\ version = 0 /\ flat = Dirs /\ games = {} /\ clash \in BOOLEAN
    /\ \E new \in SUBSET Fresh, has \in [Installs -> {"none", "full", "astray", "link"}] :
          /\ \A e, f \in new : Profile[e] = Profile[f] => e = f
          /\ \A e \in Installs : /\ has[e] = "link" => e \in new
                                 /\ has[e] = "astray" => e \in Stale
                                 /\ has[e] # "none" => e \notin Hollow
          /\ home = [e \in Installs |-> IF e \in new THEN In("emulators", Profile[e])
                                        ELSE In("Emulators", e)]
          /\ kind = [e \in Installs |-> Kinds(e, has[e])]
    /\ roots = {home[e].root : e \in Installs}
    /\ beside = [e \in Installs |-> {}]
    /\ \E full \in [Profiles -> BOOLEAN] : saved = [p \in Profiles |-> [n \in Names |->
          LET own == {e \in Of(p) : kind[e][n] = "link"}
          IN  IF own = {} THEN "absent"
              ELSE IF full[p] THEN CHOOSE e \in own : TRUE ELSE "empty"]]
    /\ \E d \in SUBSET Dirs :
          /\ rows = d \X {"legacy"}
          /\ conf = (Dirs \ (d \cup {Probed})) \X {"legacy"}
    /\ text = [e \in Installs |-> IF HasText(e) THEN Dirs \X {"legacy"} ELSE {}]

\* Layout 1 put every link next to an executable.
LinkedLibrary ==
    /\ version = 1 /\ flat = {} /\ games = Dirs /\ clash = FALSE
    /\ roots = {"emulators"}
    /\ home = [e \in Installs |->
                  In("emulators", IF e \in First(Of(Profile[e])) THEN Profile[e] ELSE e)]
    /\ \E has \in [Installs -> {"none", "full"}] :
          /\ \A e \in Hollow : has[e] = "none"
          /\ kind = [e \in Installs |->
                        Kinds(e, IF e \in Owner(Profile[e]) \ Nested THEN "link" ELSE has[e])]
    /\ beside = [e \in Installs |->
                    IF e \in Nested /\ e \in Owner(Profile[e]) THEN UserData[e] ELSE {}]
    /\ saved \in [Profiles -> [Names -> {"absent", "empty"} \cup Installs]]
    /\ \A p \in Profiles, n \in Names :
          saved[p][n] \in (IF \E e \in Owner(p) : n \in UserData[e]
                          THEN Owner(p) \cup {"empty"} ELSE {"absent"})
    /\ rows = Dirs \X {"games"} /\ conf = {}
    /\ text = [e \in Installs |-> IF HasText(e) THEN Dirs \X {"games"} ELSE {}]

Resting(at) ==
    /\ pc' = at /\ plan' = {} /\ todo' = << >> /\ filled' = {}
    /\ sub' = "pick" /\ left' = {} /\ cur' = "-"

Init ==
    /\ FlatLibrary \/ LinkedLibrary
    /\ path = home
    /\ pc = "off" /\ plan = {} /\ todo = << >> /\ filled = {}
    /\ sub = "pick" /\ left = {} /\ cur = "-"
    /\ wrote = {w \in Installs \X Names : kind[w[1]][w[2]] = "full"
                                           \/ saved[Profile[w[1]]][w[2]] = w[1]}
    /\ lost = {} /\ cut = {} /\ stops = 0

-----------------------------------------------------------------------------
(* What a run does, in order.                                              *)

\* The plan names what a row or the config names in the old form, and what
\* the probe finds.
Stored   == Named(rows \cup conf, "legacy")
Derived  == Stored \cup ({Probed} \cap flat)

Collides == version = 0 /\ (clash \/ Derived \cap flat \cap games # {})

\* With the library away or an unreadable config the app does nothing here.
Start ==
    /\ pc = "off" /\ version < 2
    /\ Resting("start")
    /\ UNCHANGED <<disk, book>>

Enter(stage) ==
    /\ pc' = stage /\ todo' = Entries /\ filled' = {}
    /\ sub' = "pick" /\ left' = {} /\ cur' = "-"

Preflight ==
    /\ pc = "start"
    /\ \/ Collides /\ Resting("up")
       \/ /\ version = 0 /\ ~Collides
          /\ pc' = "games" /\ plan' = Derived
          /\ UNCHANGED <<todo, filled, sub, left, cur>>
       \/ version = 1 /\ Enter("data") /\ UNCHANGED plan
    /\ UNCHANGED <<disk, book>>

\* Step 1.
MoveDir(d) ==
    /\ pc = "games" /\ d \in plan \cap flat
    /\ flat' = flat \ {d} /\ games' = games \cup {d}
    /\ UNCHANGED <<roots, home, kind, beside, saved, rows, conf, text, path,
                   version, run, book>>

GamesMoved ==
    /\ pc = "games" /\ plan \cap flat = {}
    /\ pc' = "roots"
    /\ UNCHANGED <<disk, plan, todo, filled, sub, left, cur, book>>

\* Step 2, the root: renamed, or through the temporary name, or merged.
RenameRoot(from, to) ==
    /\ from \in roots /\ to \notin roots
    /\ roots' = (roots \ {from}) \cup {to}
    /\ home' = [e \in Installs |-> IF home[e].root = from THEN In(to, home[e].name)
                                   ELSE home[e]]
    /\ UNCHANGED <<flat, games, kind, beside, saved, rows, conf, text, path,
                   version, book>>

Direct ==
    /\ pc = "roots" /\ "emulators" \notin roots
    /\ \/ RenameRoot("Emulators", "emulators") /\ Enter("names")
       \/ /\ RenameRoot("Emulators", "temporary")
          /\ pc' = "temporary" /\ UNCHANGED <<todo, filled, sub, left, cur>>
    /\ UNCHANGED plan

ThroughTemporary ==
    /\ pc = "temporary" \/ (pc = "roots" /\ "Emulators" \notin roots)
    /\ RenameRoot("temporary", "emulators")
    /\ Enter("names") /\ UNCHANGED plan

Mergeable == {e \in Installs : /\ home[e].root # "emulators"
                               /\ home[e].name \notin NamesIn("emulators")}

Merging == pc = "roots" /\ ("emulators" \in roots \/ roots = {})

Merge(e) ==
    /\ Merging /\ e \in Mergeable
    /\ home' = [home EXCEPT ![e].root = "emulators"]
    /\ UNCHANGED <<flat, games, roots, kind, beside, saved, rows, conf, text, path,
                   version, run, book>>

Merged ==
    /\ Merging /\ Mergeable = {}
    /\ roots' = {r \in roots : r = "emulators" \/ NamesIn(r) # {}}
    /\ Enter("names") /\ UNCHANGED plan
    /\ UNCHANGED <<flat, games, home, kind, beside, saved, rows, conf, text, path,
                   version, book>>

\* Step 2, the tagged names: an install gets its profile's name if it is free.
Rename ==
    /\ pc = "names" /\ todo # << >>
    /\ LET e    == Head(todo)
           free == Profile[e] \notin NamesIn("emulators")
       IN  home' = [f \in Installs |->
                       IF home[f] = In("emulators", path[e].name) /\ free
                       THEN In("emulators", Profile[e]) ELSE home[f]]
    /\ todo' = Tail(todo)
    /\ UNCHANGED <<flat, games, roots, kind, beside, saved, rows, conf, text, path,
                   version, pc, plan, filled, sub, left, cur, book>>

FaultNextStage(from, to) ==        \* saves the registry before the files
    /\ pc = from /\ todo = << >> /\ sub = "pick"
    /\ Enter(to)
    /\ rows' = {<<r[1], IF to = "text" /\ r[1] \in plan THEN "games" ELSE r[2]>> : r \in rows}
    /\ UNCHANGED <<flat, games, roots, home, kind, beside, saved, conf, text, path,
                   version, plan, book>>

NextStage(from, to) ==
    /\ pc = from /\ todo = << >> /\ sub = "pick"
    /\ Enter(to)
    /\ UNCHANGED <<disk, plan, book>>

\* Step 3 and the data-root step go through the entries.  Which install gets
\* the links of a profile: the first one, unless what saves/p holds came from
\* elsewhere, which only a link of its own refutes.
HasSaves(e)  == \E n \in Names : saved[Profile[e]][n] # "absent"
FaultOwnsLinks(e) == FALSE         \* what is there is always another's

OwnsLinks(e) == \E n \in Names : kind[e][n] = "link"

FaultLinkable(e) ==                \* whoever comes first may fill saves/p
    /\ UserData[e] # {} /\ e \notin Hollow
    /\ Profile[e] \notin filled
    /\ pc = "link" => home[e].root = "emulators"
    /\ pc = "data" => e \in Nested /\ path[e] = home[e]

Linkable(e) ==
    /\ UserData[e] # {} /\ e \notin Hollow
    /\ Profile[e] \notin filled
    /\ pc = "link" => home[e].root = "emulators" /\ (HasSaves(e) => OwnsLinks(e))
    /\ pc = "data" => e \in Nested /\ path[e] = home[e]

Foreign(e) ==
    /\ pc = "link" /\ UserData[e] # {} /\ e \notin Hollow
    /\ HasSaves(e) /\ ~OwnsLinks(e)

Linking == pc \in {"link", "data"}

PickEntry ==
    /\ Linking /\ sub = "pick" /\ todo # << >>
    /\ LET e == Head(todo)
       IN  \/ /\ Linkable(e)
              /\ sub' = (IF pc = "data" THEN "unlink" ELSE "make")
              /\ left' = UserData[e]
              /\ UNCHANGED <<todo, filled>>
           \/ /\ ~Linkable(e)
              /\ todo' = Tail(todo)
              /\ filled' = filled \cup (IF Foreign(e) THEN {Profile[e]} ELSE {})
              /\ UNCHANGED <<sub, left>>
    /\ UNCHANGED <<disk, pc, plan, cur, book>>

\* remove_stale_links; one that cannot be removed stays.
Unlink(n) ==
    /\ sub = "unlink" /\ n \in beside[Head(todo)]
    /\ beside' = [beside EXCEPT ![Head(todo)] = @ \ {n}]
    /\ UNCHANGED <<flat, games, roots, home, kind, saved, rows, conf, text, path,
                   version, run, book>>

Unlinked ==
    /\ sub = "unlink" /\ sub' = "make"
    /\ UNCHANGED <<disk, pc, plan, todo, filled, left, cur, book>>

\* ensure_user_data_links, for one name: make saves/p/n, move what the install
\* has there or clear the name, link.
MakeSaves(n) ==
    /\ sub = "make" /\ n \in left
    /\ LET e == Head(todo)
       IN  /\ saved' = [saved EXCEPT ![Profile[e]][n] = IF @ = "absent" THEN "empty" ELSE @]
           /\ IF kind[e][n] = "link"
              THEN left' = left \ {n} /\ UNCHANGED <<sub, cur>>
              ELSE left' = left /\ sub' = "shift" /\ cur' = n
    /\ UNCHANGED <<flat, games, roots, home, kind, beside, rows, conf, text, path,
                   version, pc, plan, todo, filled, book>>

Shift ==
    /\ sub = "shift"
    /\ LET e == Head(todo)
       IN  /\ saved' = [saved EXCEPT ![Profile[e]][cur] =
                           IF @ = "empty" /\ kind[e][cur] = "full" THEN e ELSE @]
           /\ kind' = [kind EXCEPT ![e][cur] = "none"]
    /\ sub' = "tie"
    /\ UNCHANGED <<flat, games, roots, home, beside, rows, conf, text, path,
                   version, pc, plan, todo, filled, left, cur, book>>

Tie ==
    /\ sub = "tie"
    /\ kind' = [kind EXCEPT ![Head(todo)][cur] = "link"]
    /\ left' = left \ {cur} /\ sub' = "make" /\ cur' = "-"
    /\ UNCHANGED <<flat, games, roots, home, beside, saved, rows, conf, text, path,
                   version, pc, plan, todo, filled, book>>

FaultEntryLinked ==                \* keyed by the install, not its profile
    /\ sub = "make" /\ left = {}
    /\ filled' = filled \cup {Head(todo)}
    /\ todo' = Tail(todo) /\ sub' = "pick"
    /\ UNCHANGED <<disk, pc, plan, left, cur, book>>

EntryLinked ==
    /\ sub = "make" /\ left = {}
    /\ filled' = filled \cup {Profile[Head(todo)]}
    /\ todo' = Tail(todo) /\ sub' = "pick"
    /\ UNCHANGED <<disk, pc, plan, left, cur, book>>

\* Step 4.  What is in the plan moves to the new form; an entry's directory
\* gets its new name if that rename has landed.
Moved(refs) == {<<r[1], IF r[1] \in plan THEN "games" ELSE r[2]>> : r \in refs}

Kept(e) ==
    /\ path[e].name # Profile[e] /\ Profile[e] \in NamesIn("emulators")
    /\ path[e].name \notin NamesIn("emulators") \cup NamesIn("Emulators")

NewPath(e) ==
    IF path[e].root # "Emulators" THEN path[e]
    ELSE In("emulators", IF Kept(e) THEN Profile[e] ELSE path[e].name)

\* The emulator's own config file is found by the new path, through the link.
Reached(e) == NewPath(e) = home[e] /\ HasText(e)

RewriteText ==
    /\ pc = "text" /\ todo # << >>
    /\ text' = [e \in Installs |-> IF e = Head(todo) /\ Reached(e) THEN Moved(text[e])
                                   ELSE text[e]]
    /\ todo' = Tail(todo)
    /\ UNCHANGED <<flat, games, roots, home, kind, beside, saved, rows, conf, path,
                   version, pc, plan, filled, sub, left, cur, book>>

\* One transaction.
RewriteRows ==
    /\ pc = "rows" /\ pc' = "config"
    /\ rows' = Moved(rows)
    /\ UNCHANGED <<flat, games, roots, home, kind, beside, saved, conf, text, path,
                   version, plan, todo, filled, sub, left, cur, book>>

RewriteConfig ==
    /\ pc = "config" /\ Enter("data")
    /\ conf' = Moved(conf)
    /\ path' = [e \in Installs |-> NewPath(e)]
    /\ UNCHANGED <<flat, games, roots, home, kind, beside, saved, rows, text, version,
                   plan, book>>

FaultStamp ==                      \* stamps layout 1
    /\ pc = "stamp" /\ Resting("up")
    /\ version' = 1
    /\ UNCHANGED <<flat, games, roots, home, kind, beside, saved, rows, conf, text,
                   path, book>>

Stamp ==
    /\ pc = "stamp" /\ Resting("up")
    /\ version' = 2
    /\ UNCHANGED <<flat, games, roots, home, kind, beside, saved, rows, conf, text,
                   path, book>>

Step ==
    \/ Preflight \/ GamesMoved \/ \E d \in Dirs : MoveDir(d)
    \/ Direct \/ ThroughTemporary \/ Merged \/ \E e \in Installs : Merge(e)
    \/ Rename \/ PickEntry \/ Unlinked \/ Shift \/ Tie \/ EntryLinked
    \/ \E n \in Names : Unlink(n) \/ MakeSaves(n)
    \/ RewriteText \/ RewriteRows \/ RewriteConfig \/ Stamp
    \/ NextStage("names", "link") \/ NextStage("link", "text")
    \/ NextStage("text", "rows") \/ NextStage("data", "stamp")

-----------------------------------------------------------------------------
(* A run that ends early, and what happens between two runs.               *)

\* The entry at hand has its first saves directory, and no link into it yet.
HalfLinked ==
    {e \in Installs : /\ pc = "link" /\ sub \in {"shift", "tie"} /\ e = Head(todo)
                      /\ \A n \in Names : kind[e][n] # "link"}

\* An error (the app comes up) or the end of the process, which may also tear
\* the file that is being written.
Stop ==
    /\ pc \in Working /\ stops < MaxStops /\ stops' = stops + 1
    /\ cut' = cut \cup HalfLinked
    /\ lost' = IF pc \in {"rows", "config", "data", "stamp"} THEN lost
               ELSE lost \cup ((plan \cap {Probed}) \ (flat \cup Stored))
    /\ \/ Resting("up") /\ UNCHANGED disk
       \/ Resting("off") /\ UNCHANGED disk
       \/ /\ Resting("off")
          /\ pc = "text" /\ todo # << >> /\ Reached(Head(todo))
          /\ Moved(text[Head(todo)]) # text[Head(todo)]
          /\ text' = [text EXCEPT ![Head(todo)] = {}]
          /\ UNCHANGED <<flat, games, roots, home, kind, beside, saved, rows, conf,
                         path, version>>
    /\ UNCHANGED <<clash, wrote>>

\* The app is up and the library not migrated; later is nobody's concern here.
Ready == pc = "up" /\ version < 2

Quit == Ready /\ Resting("off") /\ UNCHANGED <<disk, book>>

\* Installs go to games/, whatever the layout is.
InstallGame(d) ==
    /\ Ready
    /\ games' = games \cup {d} /\ rows' = rows \cup {<<d, "games">>}
    /\ UNCHANGED <<flat, roots, home, kind, beside, saved, conf, text, path, version,
                   run, book>>

\* The user does as the message says (557), of the two the old one goes; one
\* that only the probe knew is known to nobody then.
Resolve ==
    /\ Ready
    /\ flat' = flat \ games /\ clash' = FALSE
    /\ lost' = lost \cup ((flat \cap games \cap {Probed}) \ Stored)
    /\ UNCHANGED <<games, roots, home, kind, beside, saved, rows, conf, text, path,
                   version, run, wrote, cut, stops>>

\* An emulator saves, through its link if it has one.
Save(e, n) ==
    /\ Ready /\ e \in Players /\ n \in UserData[e] /\ kind[e][n] # "astray"
    /\ IF kind[e][n] = "link"
       THEN /\ saved' = [saved EXCEPT ![Profile[e]][n] =
                            IF @ \in Installs THEN @ ELSE e]
            /\ kind' = kind
       ELSE kind' = [kind EXCEPT ![e][n] = "full"] /\ saved' = saved
    /\ wrote' = IF kind'[e][n] = "full" \/ saved'[Profile[e]][n] = e
                THEN wrote \cup {<<e, n>>} ELSE wrote
    /\ UNCHANGED <<flat, games, roots, home, beside, rows, conf, text, path, version,
                   run, clash, lost, cut, stops>>

Between ==
    \/ Quit \/ Resolve \/ \E d \in Dirs : InstallGame(d)
    \/ \E e \in Installs, n \in Names : Save(e, n)

Next == Start \/ Step \/ Stop \/ Between

Spec == Init /\ [][Next]_vars

\* A run goes on; nobody has to start the app again.
Fairness == WF_vars(Step)

LiveSpec == Spec /\ Fairness

-----------------------------------------------------------------------------
(* Properties.                                                             *)

\* What an install has saved stays, in its own directory or under saves/,
\* whichever run stops where: a second install of a profile is never merged
\* over (692-709).  The data-root step alone prefers what saves/ has.
SavesSurvive ==
    \A w \in wrote :
        LET there == saved[Profile[w[1]]][w[2]]
        IN  kind[w[1]][w[2]] = "full" \/ there = w[1] \/ (w[1] \in Nested /\ there \in Installs)

Dangling(refs) == (Named(refs, "legacy") \ flat) \cup (Named(refs, "games") \ games)

\* A library that was stamped names what is there, however many runs it took:
\* what the plan is derived from is rewritten after the emulators' own files
\* (961-969).  Two things the code does not do, and the formula does not ask:
\* that such a file of an install that was cut is right, and that it is right
\* about the probed directory once that is in `lost', be it that a stopped run
\* had moved it or that the user removed it in a collision.  About every other
\* directory, and about the probed one as long as a row or the config names
\* it, each file is right wherever the runs stopped.
ReferencesResolve ==
    version = 2 =>
        /\ Dangling(rows) = {} /\ Dangling(conf) = {}
        /\ \A e \in Installs :
              /\ path[e] = home[e]
              /\ e \in cut \/ Dangling(text[e]) \subseteq lost

Linked(e) == \A n \in UserData[e] : kind[e][n] = "link"

\* In a library that was stamped an install of each profile is linked, every
\* name of it, unless a run stopped before its first link.
Tied(p) == \E e \in Of(p) : Linked(e)

OwnersLinked ==
    version = 2 => \A p \in Profiles : Owner(p) = {} \/ Tied(p) \/ Of(p) \cap cut # {}

\* An interrupted run resumes on the next start (19-20, 445-446).
RunsResume == version = 2 => \A p \in Profiles : Owner(p) = {} \/ Tied(p)

\* The migration is not tried for ever, unless a collision stands.
MigrationEnds == <>[](pc # "start") \/ []<>Collides
=============================================================================
