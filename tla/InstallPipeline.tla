-------------------------- MODULE InstallPipeline ---------------------------
(***************************************************************************)
(* What the install queue promises, without its slots, flags and tasks: a  *)
(* list of jobs in the order they were asked for, of which at most one     *)
(* runs.  A waiting job starts only when nothing runs and nothing older    *)
(* waits, a running job is left alone until it ends by itself, and an      *)
(* ended one never comes back.  A job asked for while nothing runs may     *)
(* start at once, even past waiting ones: admission and the pump race for  *)
(* a free slot (queue.rs `admit`, `next_ready`).                           *)
(***************************************************************************)
EXTENDS Integers

CONSTANT Jobs         \* ids 1 .. n, in the order the jobs are asked for

VARIABLE row          \* row[j]: where job j is in its life

Stage == {"none", "waiting", "running", "aside", "ended", "gone"}

TypeOK == row \in [Jobs -> Stage]

Init == row = [j \in Jobs |-> "none"]

At(stage)   == {j \in Jobs : row[j] = stage}
NothingRuns == At("running") = {}

\* The next job is asked for.  "aside": a transfer the queue only displays.
Ask(j) ==
    /\ row[j] = "none"
    /\ \A o \in At("none") : j <= o
    /\ \E stage \in {"waiting", "aside"} \cup (IF NothingRuns THEN {"running"} ELSE {}) :
          row' = [row EXCEPT ![j] = stage]

Start(j) ==
    /\ row[j] = "waiting"
    /\ NothingRuns
    /\ \A o \in At("waiting") : j <= o
    /\ row' = [row EXCEPT ![j] = "running"]

\* Job j is over; old ended jobs, j included, may drop off the list.
End(j) ==
    /\ row[j] \in {"waiting", "running", "aside"}
    /\ \E dropped \in SUBSET (At("ended") \cup {j}) :
          row' = [o \in Jobs |-> IF o \in dropped THEN "gone"
                                 ELSE IF o = j THEN "ended" ELSE row[o]]

\* The user takes a job off the list: never a running one.
Forget(j) ==
    /\ row[j] \in {"waiting", "aside", "ended"}
    /\ row' = [row EXCEPT ![j] = "gone"]

Next == \E j \in Jobs : Ask(j) \/ Start(j) \/ End(j) \/ Forget(j)

Spec == Init /\ [][Next]_row

\* A running job ends, and a free pipeline takes up what waits.
Fairness ==
    \A j \in Jobs : /\ WF_row(row[j] = "running" /\ End(j))
                    /\ WF_row(Start(j))
=============================================================================
