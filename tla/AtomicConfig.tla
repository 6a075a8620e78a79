---------------------------- MODULE AtomicConfig ----------------------------
(***************************************************************************)
(* What a save of the config is worth, without lock, files, renames and    *)
(* failures: load, change and save are one step (config_write.rs:45-46),   *)
(* which a power failure may take back until the directory of the file has *)
(* reached the disk.                                                       *)
(***************************************************************************)
EXTENDS Naturals

CONSTANTS Writers, MaxSaves

VARIABLES
    value,       \* value[w]: the changes of writer w that the file holds
    answered,    \* answered[w]: those w was told of
    recent       \* the values a power failure may bring back

Init == value = [w \in Writers |-> 0] /\ answered = value /\ recent = {}

\* One save that succeeds; any other changes nothing.
Change(w) ==
    /\ value[w] < MaxSaves
    /\ value' = [value EXCEPT ![w] = @ + 1]
    /\ answered' = [answered EXCEPT ![w] = value[w] + 1]
    /\ recent' = recent \cup {value}

\* The saves so far are there for good.
Settle == recent' = {} /\ UNCHANGED <<value, answered>>

\* A power failure takes the latest saves back, or none.
Fall == value' \in recent \cup {value} /\ recent' = {} /\ UNCHANGED answered

Next == (\E w \in Writers : Change(w)) \/ Settle \/ Fall

Spec == Init /\ [][Next]_<<value, answered, recent>>
=============================================================================
