------------------------------ MODULE SafeMove ------------------------------
(***************************************************************************)
(* What moving the library promises, without its journal, copies and       *)
(* phases: what is in the library is never lost, the library is in one     *)
(* place or the other, it changes place at most once per move, and a move  *)
(* that is given up leaves it where it was.                                *)
(***************************************************************************)
EXTENDS Naturals

CONSTANTS Items, Pieces    \* the moved folders, and what users write in them

VARIABLES
    content,    \* content[i]: the pieces of folder i that exist somewhere
    root,       \* where the library is: "old" or "new"
    moving      \* a move is under way

TypeOK ==
    /\ content \in [Items -> SUBSET Pieces]
    /\ root \in {"old", "new"}
    /\ moving \in BOOLEAN

Init ==
    /\ content \in [Items -> SUBSET Pieces]
    /\ root = "old"
    /\ moving = FALSE

\* Somebody writes into the library; nothing that was there goes.
Write ==
    /\ \E i \in Items, p \in Pieces :
          content' = [content EXCEPT ![i] = @ \cup {p}]
    /\ UNCHANGED <<root, moving>>

Begin   == ~moving /\ root = "old" /\ moving' = TRUE /\ UNCHANGED <<content, root>>
Switch  == moving /\ root' = "new" /\ UNCHANGED <<content, moving>>
Finish  == moving /\ root = "new" /\ moving' = FALSE /\ UNCHANGED <<content, root>>
GiveUp  == moving /\ root = "old" /\ moving' = FALSE /\ UNCHANGED <<content, root>>

Next == Write \/ Begin \/ Switch \/ Finish \/ GiveUp

Spec == Init /\ [][Next]_<<content, root, moving>>
=============================================================================
