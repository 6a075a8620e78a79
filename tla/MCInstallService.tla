-------------------------- MODULE MCInstallService --------------------------
(* InstallService for TLC: an Xbox 360 game whose base install queues its  *)
(* update and its DLC, an installed game with an update, and an emulator.  *)
EXTENDS InstallService

XBase    == [key |-> "x", rom |-> "x", mode |-> "Base"]
XUpdate  == [key |-> "x-update", rom |-> "x", mode |-> "Content"]
XDlc     == [key |-> "x-dlc", rom |-> "x", mode |-> "Content"]
NBase    == [key |-> "n", rom |-> "n", mode |-> "Base"]
NUpdate  == [key |-> "n", rom |-> "n", mode |-> "Update"]
NNative  == [key |-> "n-native", rom |-> "n", mode |-> "NativeUpdate"]
Emulator == [key |-> "emu", rom |-> "NoRom", mode |-> "Emulator"]

FollowX(jobs) == [job \in jobs |-> IF job = XBase THEN <<XUpdate, XDlc>> ELSE << >>]

\* The install pipeline alone: no firmware transfers, the gate stays open.
PipelineNext ==
    \/ \E id \in Ids : DownloadTask(id) \/ FinalizeTask(id)
    \/ \E c \in calls : CallStep(c)
    \/ UserCall
PipelineSpec == Init /\ [][PipelineNext]_vars
PipelineLive == PipelineSpec /\ Fairness

XboxJobs      == {XBase, XUpdate, XDlc}
XboxRequests  == {XBase}
XboxFollow    == FollowX(XboxJobs)

MixedJobs      == {NBase, NUpdate, NNative, Emulator}
MixedFollow    == FollowX(MixedJobs)
MixedInstalled == {"n"}

UpdateJobs     == {NBase, NUpdate}
UpdateRequests == {NUpdate}
UpdateFollow   == FollowX(UpdateJobs)
=============================================================================
