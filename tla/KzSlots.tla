------------------------------- MODULE KzSlots -------------------------------
(***************************************************************************)
(* The save-state slots: the commands of src/src/commands.c and the states *)
(* menu of src/src/kz_states_menu.c.  A slot is a pointer to a heap block; *)
(* a block is one of "Blocks", apart from all others (HeapSpec), and what  *)
(* is in it is the state's name and the moment of the game it restores.    *)
(*                                                                         *)
(* The keyboard and the file menu answer by a callback, and the bound      *)
(* commands keep running while they are open.  "edited" remembers the state*)
(* whose name the keyboard was opened on; the program does not.            *)
(***************************************************************************)
EXTENDS Integers, FiniteSets

CONSTANTS STATE_MAX,   \* slots
          Blocks,      \* the blocks halloc can hand out
          NULL,
          Moments, Title, Names, Untitled, Empty,
          Files,       \* the states that can be imported
          Failures     \* what can go wrong: "alloc" (halloc returns NULL),
                       \* "import" (the file is not a state of this version)

ASSUME SlotsAssumption ==
    /\ STATE_MAX \in Nat \ {0}
    /\ NULL \notin Blocks /\ IsFiniteSet(Blocks)
    /\ Title \notin Moments /\ Untitled \notin Names
    /\ Files \subseteq [name : Names \cup {Untitled}, moment : Moments]
    /\ Empty \notin [name : Names \cup {Untitled}, moment : Moments]
    /\ Failures \subseteq {"alloc", "import"}

VARIABLES
    state_slot, states,
    live,       \* the blocks that are allocated
    memory,     \* what is in a block
    dialog,     \* the menu over the states menu
    on_name,    \* the cursor of the states menu is on the state's name
    edited,
    game,       \* the moment the game is at
    running     \* FALSE once an access through NULL has stopped the program

vars == <<state_slot, states, live, memory, dialog, on_name, edited, game, running>>
heapVars == <<live, memory>>
menuVars == <<dialog, on_name, edited>>

Slots   == 0..(STATE_MAX - 1)
Content == [name : Names \cup {Untitled}, moment : Moments]

TypeOK ==
    /\ state_slot \in Slots
    /\ states \in [Slots -> Blocks \cup {NULL}]
    /\ live \subseteq Blocks
    /\ memory \in [Blocks -> Content]
    /\ dialog \in {"none", "keyboard", "export", "import"}
    /\ on_name \in BOOLEAN
    /\ edited \in Blocks \cup {NULL}
    /\ game \in Moments \cup {Title}
    /\ running \in BOOLEAN

Init ==
    /\ state_slot = 0 /\ states = [s \in Slots |-> NULL]
    /\ live = {} /\ memory \in [Blocks -> Content]
    /\ dialog = "none" /\ on_name = FALSE /\ edited = NULL
    /\ game \in Moments \cup {Title} /\ running = TRUE

-----------------------------------------------------------------------------
(* A definition whose name ends in Slip is a mistaken form of the next one,*)
(* used to show that a property notices the mistake.                       *)

cur == states[state_slot]

(* The blocks that may be live after hfree(b).  To free a block that is not*)
(* live runs the merge on stale links, and any of the others may be lost.  *)
hfree(b) == IF b = NULL THEN {live} ELSE IF b \in live THEN {live \ {b}} ELSE SUBSET live

(* What halloc may return when "held" is live. *)
halloc(held) == (Blocks \ held) \cup (IF "alloc" \in Failures THEN {NULL} ELSE {})

(* What a read of block b may give: a freed block's content is anything. *)
Reads(b) == IF b \in live THEN {memory[b]} ELSE Content

PreviousSlip == state_slot - 1
Previous == (state_slot + STATE_MAX - 1) % STATE_MAX
Following == (state_slot + 1) % STATE_MAX

(* command_prev_state, command_next_state and the two buttons of the menu. *)
SelectState ==
    /\ state_slot' \in {Previous, Following}
    /\ UNCHANGED <<states, heapVars, menuVars, game>>

command_load_state ==
    /\ game # Title /\ cur # NULL
    /\ \E c \in Reads(cur) : game' = c.moment
    /\ UNCHANGED <<state_slot, states, heapVars, menuVars>>

(* The slot's state is freed before the new one is allocated; its name goes*)
(* over by way of tmp_name.  The slot is assigned last.                    *)
NewNameSlip(old) == Untitled
NewName(old) == IF cur = NULL THEN Untitled ELSE old
command_save_state ==
    /\ game # Title
    /\ \E old \in {c.name : c \in Reads(cur)}, held \in hfree(cur) :
        \E state \in halloc(held) :
            IF state = NULL
            THEN live' = held /\ UNCHANGED <<states, memory>>
            ELSE /\ live' = held \cup {state}
                 /\ memory' = [memory EXCEPT ![state] =
                                  [name |-> NewName(old), moment |-> game]]
                 /\ states' = [states EXCEPT ![state_slot] = state]
    /\ UNCHANGED <<state_slot, menuVars, game>>

(* External: the game goes on, or leaves for the title screen. *)
GamePlays ==
    /\ game' \in (Moments \cup {Title}) \ {game}
    /\ UNCHANGED <<state_slot, states, heapVars, menuVars>>

-----------------------------------------------------------------------------
(* The states menu.                                                        *)

(* name_onupdate makes the name an interactive item while the slot has a   *)
(* state; a cursor that is already on it stays.                            *)
CursorMoves ==
    /\ dialog = "none"
    /\ on_name' = ~on_name /\ (on_name' => cur # NULL)
    /\ UNCHANGED <<state_slot, states, heapVars, dialog, edited, game>>

name_onactivate ==
    /\ dialog = "none" /\ on_name
    /\ dialog' = "keyboard" /\ edited' = cur
    /\ UNCHANGED <<state_slot, states, heapVars, on_name, game>>

(* The keyboard is accepted: name_onupdate writes the name to the state of *)
(* the slot that is selected by now.  If that has none it writes through   *)
(* NULL: the name is lost, in memory below every block, or the program     *)
(* stops (StopsAtNull).                                                    *)
name_onkeyboard ==
    /\ dialog = "keyboard"
    /\ \E name \in Names :
          memory' = IF cur = NULL THEN memory
                    ELSE [memory EXCEPT ![cur].name = name]
    /\ dialog' = "none" /\ edited' = NULL
    /\ UNCHANGED <<state_slot, states, live, on_name, game>>

export_state_onactivate ==
    /\ dialog = "none" /\ ~on_name
    /\ cur # NULL
    /\ dialog' = "export"
    /\ UNCHANGED <<state_slot, states, heapVars, on_name, edited, game>>

(* The file gets a copy of the current slot's state, of whatever lies at   *)
(* NULL if it has none by now (or StopsAtNull); nothing else changes.      *)
do_export_state ==
    /\ dialog = "export" /\ dialog' = "none"
    /\ UNCHANGED <<state_slot, states, heapVars, on_name, edited, game>>

import_state_onactivate ==
    /\ dialog = "none" /\ ~on_name
    /\ dialog' = "import"
    /\ UNCHANGED <<state_slot, states, heapVars, on_name, edited, game>>

(* The slot's state is freed as soon as the file opens.  A file of another *)
(* version, or no block to read it into, leaves the slot as it was: freed. *)
do_import_state ==
    /\ dialog = "import" /\ dialog' = "none"
    /\ \E held \in hfree(cur) :
        \/ \E state \in halloc(held) \ {NULL}, content \in Files :
              /\ live' = held \cup {state}
              /\ memory' = [memory EXCEPT ![state] = content]
              /\ states' = [states EXCEPT ![state_slot] = state]
        \/ /\ "import" \in Failures \/ NULL \in halloc(held)
           /\ live' = held
           /\ UNCHANGED <<memory, states>>
    /\ UNCHANGED <<state_slot, on_name, edited, game>>

(* The player leaves the dialog, or the file cannot be opened. *)
DialogReturns ==
    /\ dialog # "none" /\ dialog' = "none"
    /\ edited' = NULL
    /\ UNCHANGED <<state_slot, states, heapVars, on_name, game>>

EmptiedSlip == states
Emptied == [states EXCEPT ![state_slot] = NULL]

delete_state_onactivate ==
    /\ dialog = "none" /\ ~on_name
    /\ cur # NULL
    /\ live' \in hfree(cur)
    /\ states' = Emptied
    /\ UNCHANGED <<state_slot, memory, menuVars, game>>

(* The slot has lost its state, or another one has been selected, while the*)
(* keyboard or the file menu waited: state->name and state->size are used  *)
(* without a test, and the program may end there.                          *)
StopsAtNull ==
    /\ dialog \in {"keyboard", "export"} /\ cur = NULL
    /\ running' = FALSE
    /\ UNCHANGED <<state_slot, states, heapVars, menuVars, game>>

Operations ==
    \/ SelectState \/ command_load_state \/ command_save_state
    \/ GamePlays
    \/ CursorMoves \/ name_onactivate \/ name_onkeyboard
    \/ export_state_onactivate \/ do_export_state
    \/ import_state_onactivate \/ do_import_state
    \/ DialogReturns \/ delete_state_onactivate

Next ==
    /\ running
    /\ \/ Operations /\ UNCHANGED running
       \/ StopsAtNull

Spec == Init /\ [][Next]_vars

-----------------------------------------------------------------------------
(* Properties                                                              *)

(* Every live block belongs to exactly one slot, and every slot's block is *)
(* live: whatever is saved over, deleted or imported while a dialog waits, *)
(* nothing is leaked, freed twice or shared.                               *)
SlotsOwnBlocks ==
    /\ live = {states[s] : s \in Slots} \ {NULL}
    /\ \A s, t \in Slots : states[s] = states[t] /\ states[s] # NULL => s = t

(* As long as nothing fails, the slots are a bank of named states. *)
saved == [s \in Slots |-> IF states[s] = NULL THEN Empty ELSE memory[states[s]]]
Bank == INSTANCE SlotSpec WITH slot <- state_slot
ImplementsSlotSpec == Bank!Spec

(* USAGE.md on the text "no state": it "will be displayed if currently no  *)
(* state is saved in the selected state".  The menu shows it for a slot    *)
(* that is NULL.                                                           *)
ShowsNoState(s) == states[s] = NULL
EmptySlotsShowNoState == \A s \in Slots : states[s] \notin live => ShowsNoState(s)

(* USAGE.md: "Selecting the state name will bring up a keyboard to rename  *)
(* the state": no other state's name changes.                              *)
RenamesSelectedState ==
    [][name_onkeyboard =>
          \A b \in Blocks : memory'[b].name # memory[b].name => b = edited]_vars

=============================================================================
