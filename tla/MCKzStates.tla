------------------------------- MODULE MCKzStates -------------------------------
(* The slots and the stream, next to each other: a behavior is one of the  *)
(* slots' or one of the stream's, and the other part stays as it began.    *)
EXTENDS MCKzSlots, MCKzState

VARIABLE part

StatesInit ==
    /\ part \in {"slots", "stream"} /\ Init /\ StateInit
    /\ part = "slots" => z2 = Base
    /\ part = "stream" => game = Title /\ memory = [b \in Blocks |-> CHOOSE c \in Content : TRUE]

SlotsPart  == part = "slots" /\ Next /\ UNCHANGED <<StateVars, part>>
StreamPart == part = "stream" /\ StateNext /\ UNCHANGED <<vars, part>>

StatesSpec == StatesInit /\ [][SlotsPart \/ StreamPart]_<<vars, StateVars, part>>
=============================================================================
