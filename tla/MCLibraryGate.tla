---------------------------- MODULE MCLibraryGate ----------------------------
(* LibraryGate for TLC: one game, and RPCS3 with two passes for the game   *)
(* and one for its own firmware.                                           *)
EXTENDS LibraryGate

OneGame    == {"doom"}
OneInstall == {"install"}
OneManual  == {"restore"}

PassPlan ==
    [game  |-> [kind |-> "launch", dir |-> "rpcs3", platform |-> "ps3"],
     pup   |-> [kind |-> "ps3",    dir |-> "rpcs3", platform |-> AllPlatforms],
     again |-> [kind |-> "install", dir |-> "rpcs3", platform |-> "ps3"]]
PlanPasses == DOMAIN PassPlan
PlanKind == [p \in PlanPasses |-> PassPlan[p].kind]
PlanKey == [p \in PlanPasses |-> [dir |-> PassPlan[p].dir, platform |-> PassPlan[p].platform]]
=============================================================================
