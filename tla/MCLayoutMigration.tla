------------------------- MODULE MCLayoutMigration --------------------------
(* LayoutMigration for TLC: an entry whose executable is gone, two         *)
(* installs of its profile, and an AppImage with its config file among its *)
(* user data.                                                              *)
EXTENDS LayoutMigration, TLC

MCEntries  == <<"h", "a1", "a2", "b">>
MCProfile  == "h" :> "A" @@ "a1" :> "A" @@ "a2" :> "A" @@ "b" :> "B"
MCUserData == "h" :> {"u", "v"} @@ "a1" :> {"u", "v"} @@ "a2" :> {"u", "v"} @@ "b" :> {"u"}
MCTextAt   == "h" :> "exe" @@ "a1" :> "exe" @@ "a2" :> "v" @@ "b" :> "u"
=============================================================================
