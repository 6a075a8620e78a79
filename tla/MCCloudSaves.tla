---------------------------- MODULE MCCloudSaves ----------------------------
(* A small instance of CloudSaves for TLC: two files, one of them read when   *)
(* it is sent and one archived before; a launch and a manual restore that can *)
(* be repeated; the tail of one session at a time, whose upload may still run *)
(* when the next session ends.                                                *)
EXTENDS CloudSaves
=============================================================================
