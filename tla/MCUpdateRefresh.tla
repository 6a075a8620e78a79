-------------------------- MODULE MCUpdateRefresh --------------------------
(* UpdateRefresh for TLC: three triggers, two accounts.                    *)
EXTENDS UpdateRefresh

ThreeCallers == {"connect", "install", "relink"}
TwoAccounts  == {"home", "away"}
=============================================================================
