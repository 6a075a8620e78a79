--------------------------- MODULE MCLibraryMove ----------------------------
(* LibraryMove for TLC: two folders, by which way each of them moves.      *)
EXTENDS LibraryMove

CopyBoth    == <<"copy", "copy">>
CopyOne     == <<"copy", "rename">>
=============================================================================
