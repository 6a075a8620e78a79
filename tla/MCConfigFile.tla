---------------------------- MODULE MCConfigFile ----------------------------
(* ConfigFile for TLC.  The settings and the cloud sync go through            *)
(* modify_config; the finalizer of an emulator install loads and saves by     *)
(* itself.  Nothing tells the first two apart.                                *)
EXTENDS ConfigFile, TLC

CONSTANTS settings, sync, install

AllWriters == {settings, sync, install}
LockedWriters == {settings, sync}
Alike == Permutations(LockedWriters)
=============================================================================
