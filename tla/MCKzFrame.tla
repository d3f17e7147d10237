------------------------------ MODULE MCKzFrame ------------------------------
(* KzFrame with three pages of the pause screen, one cell each, one item,  *)
(* a held button repeating from its second frame on, and commands on a     *)
(* d-pad button, on L and on a button no mode reserves.                    *)
EXTENDS KzFrame

MCBind == [c \in Commands |-> CASE c = "PAUSE" -> {"D_DOWN"}
                                [] c = "ADVANCE" -> {"OTHER"}
                                [] c = "LOAD_STATE" -> {"L"}]
MCToggleBind == {"R", "L"}
=============================================================================
