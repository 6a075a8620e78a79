---------------------------- MODULE MCPlayOutbox ----------------------------
(* PlayOutbox for TLC: names are strings.                                  *)
EXTENDS PlayOutbox

TwoGames    == {"doom", "quake"}
TwoAccounts == {"home", "away"}
OneCaller   == {"ui"}
=============================================================================
