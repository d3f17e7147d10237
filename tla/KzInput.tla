------------------------------- MODULE KzInput -------------------------------
(***************************************************************************)
(* Button combinations: how input.c turns the pad into commands, and how   *)
(* the rows of the commands menu (menu_bind.c) record new combinations.    *)
(* A frame is two steps, as in kz_main: "input" reads the pad and advances *)
(* the combinations, "menu" handles the menu and its rows.  Buttons are the*)
(* bit numbers of the pad; a binding is the sequence of its components.    *)
(*                                                                         *)
(* The menu tree is reduced to what a row can tell: whether the commands   *)
(* menu is the innermost menu on screen, and which row the cursor is on.   *)
(* The pause-screen editor's reservations (KzFrame) and the loading of a   *)
(* settings profile, which replaces the bindings, are left out.            *)
(***************************************************************************)
EXTENDS Integers, Sequences, FiniteSets

CONSTANTS Commands,      \* TOGGLE_MENU, RETURN and others
          Overrides,     \* bind_overrides: commands that ignore reservations
          Rows,          \* the commands with a row on the shown page
          Buttons, BUTTON_L, DPad,
          INPUT_REPEAT,  \* frames a button is held before it repeats
          BIND_MAX,      \* components of a binding
          DefaultBinds   \* load_default_settings

MenuButtons == DPad \cup {BUTTON_L}
IsBind(b) ==
    /\ b \in Seq(Buttons) /\ Len(b) <= BIND_MAX
    /\ \A i, j \in DOMAIN b : b[i] = b[j] => i = j

ASSUME InputAssumption ==
    /\ {"TOGGLE_MENU", "RETURN"} \subseteq Commands
    /\ Overrides \subseteq Commands /\ Rows \subseteq Commands \ {"elsewhere"}
    /\ Buttons \subseteq Nat /\ IsFiniteSet(Buttons) /\ MenuButtons \subseteq Buttons
    /\ INPUT_REPEAT \in Nat /\ INPUT_REPEAT > 1
    /\ BIND_MAX \in Nat \ {0}
    /\ DefaultBinds \in [Commands -> Seq(Buttons)]
    /\ \A c \in Commands : IsBind(DefaultBinds[c])

VARIABLES
    pc,
    \* input.c
    button_time,           \* __button_time, capped at INPUT_REPEAT
    pad_reserved, input_enabled,
    bind_component_state,  \* the components of each binding that are down
    bind_held,             \* the commands with bind_time > 0
    bind_pressed_raw,      \* of these, the ones that started in this frame
    \* settings.c, menu_bind.c and the menu
    binds, row_state, menu_active,
    shown,                 \* the commands menu is the innermost menu
    selected               \* its selected item: a row, or "elsewhere"

inputVars == <<button_time, bind_component_state, bind_held, bind_pressed_raw>>
menuVars  == <<pad_reserved, input_enabled, binds, row_state, menu_active,
               shown, selected>>
vars == <<pc, inputVars, menuVars>>

RowStates == {"NONE", "BEGIN", "ACTION", "LISTENING"}

TypeOK ==
    /\ pc \in {"input", "menu"}
    /\ button_time \in [Buttons -> 0..INPUT_REPEAT]
    /\ pad_reserved \subseteq Buttons
    /\ input_enabled \in BOOLEAN
    /\ bind_component_state \in [Commands -> SUBSET (1..BIND_MAX)]
    /\ bind_held \subseteq Commands /\ bind_pressed_raw \subseteq bind_held
    /\ binds \in [Commands -> Seq(Buttons)] /\ \A c \in Commands : IsBind(binds[c])
    /\ row_state \in [Rows -> RowStates]
    /\ menu_active \in BOOLEAN /\ shown \in BOOLEAN
    /\ selected \in Rows \cup {"elsewhere"}

Init ==
    /\ pc = "input"
    /\ button_time = [b \in Buttons |-> 0]
    /\ pad_reserved = {} /\ input_enabled = TRUE
    /\ bind_component_state = [c \in Commands |-> {}]
    /\ bind_held = {} /\ bind_pressed_raw = {}
    /\ binds = DefaultBinds
    /\ row_state = [r \in Rows |-> "NONE"]
    /\ menu_active = FALSE /\ shown = FALSE /\ selected = "elsewhere"

-----------------------------------------------------------------------------
(* input_update                                                            *)

pad_cur == {b \in Buttons : button_time[b] > 0}
Counted(n) == IF n < INPUT_REPEAT THEN n + 1 ELSE n

bind_get_bitmask(b) == {b[i] : i \in DOMAIN b}

(* A definition whose name ends in Slip is a mistaken form of the next one,*)
(* used to show that a property notices the mistake.                       *)

(* A reserved button, or a row that is recording, keeps a command silent. *)
SilentSlip(c) ==
    bind_get_bitmask(binds[c]) \cap pad_reserved # {} /\ c \notin Overrides
Silent(c) ==
    \/ bind_get_bitmask(binds[c]) \cap pad_reserved # {} /\ c \notin Overrides
    \/ ~input_enabled

(* Component j is down and stays down, or goes down as the next in order,  *)
(* or its button was let go or one from outside the binding went down.     *)
GoesDown(b, pad)  == b \in pad /\ button_time[b] = 0
Stays(c, j, pad)   == j \in bind_component_state[c] /\ binds[c][j] \in pad
Spoiled(c, j, pad) ==
    \/ binds[c][j] \notin pad /\ button_time[binds[c][j]] > 0
    \/ /\ bind_component_state[c] # {}
       /\ \E b \in pad : GoesDown(b, pad) /\ b \notin bind_get_bitmask(binds[c])
EntersSlip(c, j, pad) ==
    j \notin bind_component_state[c] /\ binds[c][j] \in pad /\ ~Spoiled(c, j, pad)
Enters(c, j, pad) ==
    j \notin bind_component_state[c] /\ GoesDown(binds[c][j], pad) /\ ~Spoiled(c, j, pad)

(* The components from the first that neither stays nor enters are not     *)
(* looked at; Stop is that one, or the one past the end of the binding.    *)
Stop(c, pad) ==
    CHOOSE s \in 1..(Len(binds[c]) + 1) :
        /\ \A j \in 1..(s - 1) : Stays(c, j, pad) \/ Enters(c, j, pad)
        /\ s <= Len(binds[c]) => ~Stays(c, s, pad) /\ ~Enters(c, s, pad)

(* The components that are down once the loop has stopped. *)
Components(c, pad) ==
    LET s  == Stop(c, pad)
        cs == bind_component_state[c] \cup 1..(s - 1)
    IN  IF Silent(c) THEN {}
        ELSE IF s > Len(binds[c]) THEN cs
        ELSE IF s \in bind_component_state[c]
             THEN IF \E j \in bind_component_state[c] : j > s THEN {} ELSE cs \ {s}
             ELSE IF Spoiled(c, s, pad) THEN {} ELSE cs

Complete(c, pad) ==
    /\ ~Silent(c)
    /\ \A j \in DOMAIN binds[c] : Stays(c, j, pad) \/ Enters(c, j, pad)
    /\ bind_component_state[c] \cup DOMAIN binds[c] # {}

(* A complete combination gives way to a longer one that contains it. *)
GivesWay(c, complete) ==
    \E d \in complete : /\ bind_get_bitmask(binds[c]) \subseteq bind_get_bitmask(binds[d])
                         /\ bind_get_bitmask(binds[c]) # bind_get_bitmask(binds[d])

InputUpdate(pad) ==
    LET complete == {c \in Commands : Complete(c, pad)}
        active   == {c \in complete : ~GivesWay(c, complete)}
    IN
    /\ pc = "input" /\ pc' = "menu"
    /\ button_time' = [b \in Buttons |-> IF b \in pad THEN Counted(button_time[b]) ELSE 0]
    /\ bind_component_state' = [c \in Commands |->
          IF c \in complete \ active THEN {} ELSE Components(c, pad)]
    /\ bind_held' = active
    /\ bind_pressed_raw' = active \ bind_held
    /\ UNCHANGED menuVars

-----------------------------------------------------------------------------
(* The menu step of kz_main.                                               *)

(* input_pressed: presses and repeats, none while input is disabled. *)
input_pressed ==
    IF input_enabled THEN {b \in Buttons : button_time[b] = 1 \/ button_time[b] >= INPUT_REPEAT}
    ELSE {}
pad_pressed_raw == {b \in Buttons : button_time[b] = 1}

InIndexOrder(S) ==
    [i \in 1..Cardinality(S) |->
        CHOOSE b \in S : Cardinality({x \in S : x < b}) = i - 1]

(* The binding with the buttons that went down in this frame added. *)
ExtendedSlip(b) ==
    LET all == b \o InIndexOrder(pad_pressed_raw) IN
    SubSeq(all, 1, IF Len(all) < BIND_MAX THEN Len(all) ELSE BIND_MAX)
Extended(b) ==
    LET all == b \o InIndexOrder(pad_pressed_raw \ bind_get_bitmask(b)) IN
    SubSeq(all, 1, IF Len(all) < BIND_MAX THEN Len(all) ELSE BIND_MAX)

(* bind_event for the update of a row in state s: its next state, and what *)
(* becomes of its binding b.                                               *)
Unbinds(s) == s = "BEGIN" /\ pad_cur # {} /\ button_time[BUTTON_L] >= INPUT_REPEAT
Records(s) == s \in {"ACTION", "LISTENING"} /\ pad_cur # {}
SavedSlip(s) == s = "ACTION" /\ pad_cur = {}
Saved(s) == s = "LISTENING" /\ pad_cur = {}

StateAfter(s) ==
    IF Unbinds(s) \/ Saved(s) THEN "NONE"
    ELSE IF Records(s) THEN "LISTENING"
    ELSE IF s = "BEGIN" /\ pad_cur = {} THEN "ACTION" ELSE s
BindAfterSlip(s, b) ==
    IF Unbinds(s) THEN <<>> ELSE IF Records(s) THEN Extended(<<>>) ELSE b
BindAfter(s, b) ==
    IF Unbinds(s) THEN <<>>
    ELSE IF Records(s) THEN Extended(IF s = "ACTION" THEN <<>> ELSE b) ELSE b

(* The update event reaches the rows when their menu is the innermost one; *)
(* "states" and "enabled" are what the event before it has left.           *)
UpdateRows(states, enabled, inner) ==
    IF inner
    THEN /\ row_state' = [r \in Rows |-> StateAfter(states[r])]
         /\ binds' = [c \in Commands |-> IF c \in Rows THEN BindAfter(states[c], binds[c])
                                         ELSE binds[c]]
         /\ input_enabled' = (enabled \/ \E r \in Rows : Unbinds(states[r]) \/ Saved(states[r]))
    ELSE row_state' = states /\ input_enabled' = enabled /\ UNCHANGED binds

MenuOpens ==
    /\ ~menu_active /\ "TOGGLE_MENU" \in bind_pressed_raw
    /\ menu_active' = TRUE
    /\ pad_reserved' = pad_reserved \cup MenuButtons
    /\ UNCHANGED <<input_enabled, binds, row_state, shown, selected>>

MenuStaysClosed ==
    /\ ~menu_active /\ "TOGGLE_MENU" \notin bind_pressed_raw
    /\ UNCHANGED menuVars

MenuCloses ==
    /\ menu_active /\ "TOGGLE_MENU" \in bind_pressed_raw
    /\ menu_active' = FALSE
    /\ pad_reserved' = (pad_reserved \ MenuButtons) \cup (MenuButtons \ pad_reserved)
    /\ UpdateRows(row_state, input_enabled, shown)
    /\ UNCHANGED <<shown, selected>>

MenuReturns ==
    /\ menu_active /\ "TOGGLE_MENU" \notin bind_pressed_raw
    /\ "RETURN" \in bind_pressed_raw
    /\ shown' = FALSE
    /\ UpdateRows(row_state, input_enabled, FALSE)
    /\ UNCHANGED <<menu_active, pad_reserved, selected>>

(* menu_input: the d-pad moves the cursor, then L activates the item it is *)
(* on.  Activating a row starts a recording; activating another item may   *)
(* leave or enter the commands menu.                                       *)
MenuInput ==
    /\ menu_active /\ {"TOGGLE_MENU", "RETURN"} \cap bind_pressed_raw = {}
    /\ \E item \in IF input_pressed \cap DPad # {} THEN Rows \cup {"elsewhere"}
                   ELSE {selected} :
        LET activates == BUTTON_L \in input_pressed
            begins    == activates /\ shown /\ item \in Rows /\ row_state[item] = "NONE"
        IN  /\ selected' = item
            /\ shown' \in IF activates /\ (item \notin Rows \/ ~shown)
                          THEN BOOLEAN ELSE {shown}
            /\ IF begins
               THEN UpdateRows([row_state EXCEPT ![item] = "BEGIN"], FALSE, shown')
               ELSE UpdateRows(row_state, input_enabled, shown')
    /\ UNCHANGED <<menu_active, pad_reserved>>

HandleMenu ==
    /\ pc = "menu" /\ pc' = "input"
    /\ bind_pressed_raw' = {}
    /\ MenuOpens \/ MenuStaysClosed \/ MenuCloses \/ MenuReturns \/ MenuInput
    /\ UNCHANGED <<button_time, bind_component_state, bind_held>>

Next == (\E pad \in SUBSET Buttons : InputUpdate(pad)) \/ HandleMenu

Spec == Init /\ [][Next]_vars

(* main() runs every frame, whatever the player does. *)
FairSpec == Spec /\ WF_vars(Next)

-----------------------------------------------------------------------------
(* Properties                                                              *)

(* A bound command never starts on its own: not when a longer combination  *)
(* that contains it is let go, not when the menu gives its buttons back,   *)
(* not when a row has finished recording.  It starts only in a frame in    *)
(* which one of its buttons goes down, with all of them down, and they went*)
(* down in the order of the binding.                                       *)
StartsAsEntered ==
    pc = "menu" =>
        \A c \in {d \in bind_pressed_raw : binds[d] # <<>>} :
            /\ bind_get_bitmask(binds[c]) \cap pad_pressed_raw # {}
            /\ bind_get_bitmask(binds[c]) \subseteq pad_cur
            /\ \A i, j \in DOMAIN binds[c] :
                  i < j => button_time[binds[c][i]] >= button_time[binds[c][j]]

(* While a row is recording, nothing but the row listens: input is disabled*)
(* exactly then, for one row at a time, and the menu and the commands menu *)
(* stay open, since only the row's own update can enable input again.      *)
RecordingOwnsInput ==
    /\ \A q, r \in DOMAIN row_state : row_state[q] # "NONE" /\ row_state[r] # "NONE" => q = r
    /\ input_enabled <=> \A r \in DOMAIN row_state : row_state[r] = "NONE"
    /\ ~input_enabled => menu_active /\ shown

(* USAGE.md: "as soon as all buttons are released the binding is saved":   *)
(* what is saved is the whole combination.  While a row listens its binding*)
(* only grows at the end, whatever is let go or pressed again.             *)
ListeningOnlyAdds ==
    [][\A r \in DOMAIN row_state : row_state[r] = "LISTENING" =>
          /\ binds[r] # <<>>
          /\ Len(binds[r]) <= Len(binds'[r])
          /\ SubSeq(binds'[r], 1, Len(binds[r])) = binds[r]]_vars

(* A player who keeps pressing and letting go of buttons gets the menu's   *)
(* input back: a recording cannot hang.                                    *)
PlayerActive == []<>(pad_cur = {}) /\ []<>(pad_cur # {})
InputComesBack == PlayerActive => []<>input_enabled

(* USAGE.md: "Press and hold the button combination to unbind a command":  *)
(* a command without a combination does not start.                         *)
UnboundNeverStarts == \A c \in bind_pressed_raw : binds[c] # <<>>

=============================================================================
