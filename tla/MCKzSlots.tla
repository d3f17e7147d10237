------------------------------ MODULE MCKzSlots ------------------------------
(* Three slots, so that the next and the previous one differ and a command *)
(* can select either under an open dialog; a block for each, so that a full*)
(* bank saves into the very block it has just freed.                       *)
EXTENDS KzSlots

CONSTANTS n1, m2

(* One file, so that what is saved in play is told from what is imported. *)
MCFiles == {[name |-> n1, moment |-> m2]}

(* What can go wrong: nothing, for the refinement of SlotSpec; an import   *)
(* from a file of another version.                                         *)
MCNoFailures   == {}
MCImportsFail  == {"import"}
=============================================================================
