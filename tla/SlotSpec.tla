------------------------------- MODULE SlotSpec -------------------------------
(***************************************************************************)
(* What save states are to a player: a bank of slots, each empty or holding*)
(* one named moment of the game, and one slot selected.  Every operation   *)
(* acts on the selected slot alone; loading brings back what was last put  *)
(* into it.                                                                *)
(***************************************************************************)
EXTENDS Integers

CONSTANTS STATE_MAX,   \* the slots are 0..STATE_MAX-1
          Moments,     \* what the game can be at
          Title,       \* the game is not being played
          Names, Untitled,
          Files,       \* the states in the files a player has
          Empty        \* what an empty slot holds

VARIABLES slot, saved, game

Slots  == 0..(STATE_MAX - 1)

Init ==
    /\ slot = 0 /\ saved = [s \in Slots |-> Empty]
    /\ game \in Moments \cup {Title}

Play == game' \in Moments \cup {Title} /\ UNCHANGED <<slot, saved>>

Select ==
    /\ slot' \in {(slot + 1) % STATE_MAX, (slot + STATE_MAX - 1) % STATE_MAX}
    /\ UNCHANGED <<saved, game>>

Put(content) ==
    saved' = [saved EXCEPT ![slot] = content] /\ UNCHANGED <<slot, game>>

(* A slot keeps its name when it is saved to again. *)
Save ==
    /\ game # Title
    /\ Put([name |-> IF saved[slot] = Empty THEN Untitled ELSE saved[slot].name,
            moment |-> game])

Load ==
    /\ game # Title /\ saved[slot] # Empty
    /\ game' = saved[slot].moment
    /\ UNCHANGED <<slot, saved>>

Rename ==
    /\ saved[slot] # Empty
    /\ \E n \in Names : Put([saved[slot] EXCEPT !.name = n])

Import == \E content \in Files : Put(content)
Clear  == Put(Empty)

Next == Play \/ Select \/ Save \/ Load \/ Rename \/ Import \/ Clear

Spec == Init /\ [][Next]_<<slot, saved, game>>

=============================================================================
