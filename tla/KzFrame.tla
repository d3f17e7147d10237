------------------------------- MODULE KzFrame -------------------------------
(***************************************************************************)
(* The main loop of kz (src/src/kz.c): what one call of main() does with   *)
(* the game, the menu, the pause-screen item editor, the input masks and   *)
(* the command bindings.  A frame is five steps taken in the order of the  *)
(* code; "pc" names the next one:                                          *)
(*                                                                         *)
(*   game -> input -> menu -> editor -> commands -> game ...               *)
(*                                                                         *)
(* The game (pause screen, cursor, page arrows) is external: it runs in    *)
(* the "game" step, sees only what the masks let through and otherwise     *)
(* does as it likes.  The menu tree is abstracted to the items that touch  *)
(* this state.  The quest page's flags are z2_file data and left out.      *)
(***************************************************************************)
EXTENDS Integers, FiniteSets

CONSTANTS INPUT_REPEAT,  \* frames a button is held before it repeats
          CELL_MAX,      \* cells of an inventory page of the pause screen
          Pages,         \* the pages of the pause screen
          Items,         \* the item ids a slot can hold
          NULL,          \* Z2_ITEM_NULL, and the initial pause_row
          Bind,          \* the buttons each command is bound to
          ToggleBind     \* the buttons KZ_CMD_TOGGLE_MENU is bound to

MenuButtons   == {"L", "D_UP", "D_DOWN", "D_LEFT", "D_RIGHT"}
EditorButtons == {"L", "D_UP", "D_DOWN"}
Buttons       == MenuButtons \cup {"R", "OTHER"}
ItemPages     == {"item", "mask"}
Commands      == {"PAUSE", "ADVANCE", "LOAD_STATE"}

ASSUME FrameAssumption ==
    /\ INPUT_REPEAT \in Nat /\ INPUT_REPEAT > 1
    /\ CELL_MAX \in Nat \ {0}
    /\ ItemPages \subseteq Pages
    /\ NULL \notin Items
    /\ Bind \in [Commands -> SUBSET Buttons]
    /\ ToggleBind \subseteq Buttons

Cells == 0..(CELL_MAX - 1)
Rows  == ItemPages \X Cells

VARIABLES
    pc,
    \* input.c
    l_time,             \* __button_time of BUTTON_L, capped at INPUT_REPEAT
    toggle,             \* bind_pressed_raw[KZ_CMD_TOGGLE_MENU] of this frame
    quiet,              \* commands input_update silenced this frame
    menu_at_read,       \* menu_active when the pad was read this frame: a
                        \* record for MenuButtonsRunNothing, not in the code
    pad_reserved,
    c_mask,             \* the C buttons are in kz.input_mask
    stick_mask,         \* kz.stick_x_mask and kz.stick_y_mask are 0xFF
    \* kz.c and kz_scene_menu.c
    menu_active, pending_frames, free_cam_active, free_cam_locked,
    item_update, switched,
    prev_inst,          \* the saved instructions, "zero" before the first save
    prev_page, wheel_active, pause_row,
    \* the game
    pause,              \* "none", "main" (pause_ctx.state == 6) or "other"
    screen_idx, cell,
    ovl_inst,           \* cursor code of the pause overlay: "orig", "patched",
                        \* or "none" when the overlay is not resident
    slots               \* z2_file.items and z2_file.masks

inputVars  == <<l_time, toggle, quiet, menu_at_read>>
maskVars   == <<c_mask, stick_mask>>
camVars    == <<free_cam_active, free_cam_locked>>
editorVars == <<item_update, switched, prev_inst, prev_page, wheel_active,
                pause_row, slots>>
gameVars   == <<pause, screen_idx, cell, ovl_inst>>
vars == <<pc, inputVars, pad_reserved, maskVars, menu_active, pending_frames,
          camVars, editorVars, gameVars>>

TypeOK ==
    /\ pc \in {"game", "input", "menu", "editor", "commands"}
    /\ l_time \in 0..INPUT_REPEAT
    /\ toggle \in BOOLEAN
    /\ quiet \subseteq Commands
    /\ menu_at_read \in BOOLEAN
    /\ pad_reserved \subseteq Buttons
    /\ c_mask \in BOOLEAN /\ stick_mask \in BOOLEAN
    /\ menu_active \in BOOLEAN
    /\ pending_frames \in {-1, 0, 1}
    /\ free_cam_active \in BOOLEAN /\ free_cam_locked \in BOOLEAN
    /\ item_update \in BOOLEAN /\ switched \in BOOLEAN
    /\ prev_inst \in {"zero", "orig", "patched"}
    /\ prev_page \in Pages
    /\ wheel_active \in BOOLEAN
    /\ pause_row \in Rows \cup {NULL}
    /\ pause \in {"none", "main", "other"}
    /\ screen_idx \in Pages
    /\ cell \in Cells
    /\ ovl_inst \in {"none", "orig", "patched"}
    /\ slots \in [Rows -> Items \cup {NULL}]

(* init() of kz.c, with any inventory in the game's save file. *)
Init ==
    /\ pc = "game"
    /\ l_time = 0 /\ toggle = FALSE /\ quiet = {} /\ menu_at_read = FALSE
    /\ pad_reserved = {}
    /\ c_mask = FALSE /\ stick_mask = FALSE
    /\ menu_active = FALSE
    /\ pending_frames = -1
    /\ free_cam_active = FALSE /\ free_cam_locked = FALSE
    /\ item_update = FALSE /\ switched = FALSE
    /\ prev_inst = "zero" /\ prev_page = "item"
    /\ wheel_active = FALSE /\ pause_row = NULL
    /\ pause = "none" /\ screen_idx = "item" /\ cell = 0
    /\ ovl_inst = "none"
    /\ slots \in [Rows -> Items \cup {NULL}]

-----------------------------------------------------------------------------
(* Helpers.  A definition whose name ends in Slip is a mistaken form of the*)
(* next one, used to show that a property notices the mistake.             *)

(* free_buttons toggles the bits it is given (pad_reserved ^= mask);       *)
(* reserve_buttons sets them.                                              *)
free_buttonsSlip(reserved, b) == reserved
reserve_buttonsSlip(reserved, b) == (reserved \ b) \cup (b \ reserved)

free_buttons(reserved, b)    == (reserved \ b) \cup (b \ reserved)
reserve_buttons(reserved, b) == reserved \cup b

(* input_pressed() & BUTTON_L: the press itself, then the repeats. *)
PressedL == l_time = 1 \/ l_time >= INPUT_REPEAT
HeldL    == l_time >= INPUT_REPEAT

is_pauseSlip == pause # "none"
is_pause == pause = "main"

(* The free camera has taken the sticks and the C buttons. *)
CamSteering == free_cam_active /\ ~free_cam_locked

command_pause(p)   == IF p = 0 THEN -1 ELSE 0
command_advanceSlip(p) == p + 1
command_advance(p) == IF p = 0 THEN 1 ELSE command_pause(p)

(* load_state: the game comes back as it was saved, its overlays reloaded  *)
(* from ROM.  kz's own state is not part of a save state.                  *)
load_state ==
    /\ pause' \in {"none", "main", "other"}
    /\ screen_idx' \in Pages /\ cell' \in Cells
    /\ ovl_inst' = IF pause' = "none" THEN "none" ELSE "orig"

-----------------------------------------------------------------------------
(* The game's frame: game_state_main and input_hook.                       *)

(* External: what one frame of the game may do to the pause screen.  The   *)
(* cursor needs the stick, which the masks may hide; the shoulder buttons  *)
(* that turn the pages are never masked.  Opening the pause screen loads *)
(* its overlay from ROM.                                                   *)
GameOpensPause ==
    /\ pause = "none" /\ pause' = "other"
    /\ ovl_inst' = "orig"
    /\ UNCHANGED <<screen_idx, cell>>

GameChangesPauseState ==
    /\ pause \in {"main", "other"}
    /\ pause' \in {"none", "main", "other"} \ {pause}
    /\ ovl_inst' = IF pause' = "none" THEN "none" ELSE ovl_inst
    /\ UNCHANGED <<screen_idx, cell>>

GameMovesCursor ==
    /\ pause = "main" /\ ~stick_mask
    /\ cell' \in Cells
    /\ UNCHANGED <<pause, screen_idx, ovl_inst>>

GameTurnsPage ==
    /\ pause = "main"
    /\ screen_idx' \in Pages \ {screen_idx} /\ cell' \in Cells
    /\ UNCHANGED <<pause, ovl_inst>>

GameUpdate ==
    \/ GameOpensPause
    \/ GameChangesPauseState
    \/ GameMovesCursor
    \/ GameTurnsPage
    \/ UNCHANGED gameVars

GameFrame ==
    /\ pc = "game" /\ pc' = "input"
    /\ IF pending_frames # 0
       THEN /\ pending_frames' = IF pending_frames > 0 THEN pending_frames - 1
                                                       ELSE pending_frames
            /\ GameUpdate
       ELSE UNCHANGED <<pending_frames, gameVars>>
    /\ UNCHANGED <<inputVars, pad_reserved, maskVars, menu_active, camVars, editorVars>>

-----------------------------------------------------------------------------
(* input_update: the pad is read once; a binding that needs a reserved     *)
(* button stays silent, except the menu's own, which override.  A raw press*)
(* is the first frame of a match, so it never comes on two frames running. *)
InputUpdate ==
    /\ pc = "input" /\ pc' = "menu"
    /\ \E held \in BOOLEAN :
        /\ l_time' = IF ~held THEN 0
                     ELSE IF l_time < INPUT_REPEAT THEN l_time + 1 ELSE l_time
        /\ toggle' \in BOOLEAN
        /\ toggle' => ~toggle /\ ("L" \in ToggleBind => held)
        /\ quiet' = {c \in Commands : \/ Bind[c] \cap pad_reserved # {}
                                      \/ "L" \in Bind[c] /\ ~held}
    /\ menu_at_read' = menu_active
    /\ UNCHANGED <<pad_reserved, maskVars, menu_active, pending_frames, camVars,
                   editorVars, gameVars>>

-----------------------------------------------------------------------------
(* kz_main, "handle menu".                                                 *)

OpenMenu ==
    /\ ~menu_active /\ toggle
    /\ menu_active' = TRUE
    /\ pad_reserved' = reserve_buttons(pad_reserved, MenuButtons)
    /\ UNCHANGED <<maskVars, camVars, pending_frames, gameVars>>

CloseMenu ==
    /\ menu_active /\ toggle
    /\ menu_active' = FALSE
    /\ pad_reserved' = free_buttons(pad_reserved, MenuButtons)
    /\ UNCHANGED <<maskVars, camVars, pending_frames, gameVars>>

(* The items of the menu tree that touch this state, activated by L.       *)

main_menu_return_onactivate ==
    /\ pad_reserved' = free_buttons(pad_reserved, MenuButtons)
    /\ menu_active' = FALSE
    /\ UNCHANGED <<maskVars, camVars, pending_frames, gameVars>>

free_cam_event ==
    /\ free_cam_active' = ~free_cam_active
    /\ c_mask' = free_cam_active' /\ stick_mask' = free_cam_active'
    /\ UNCHANGED <<pad_reserved, menu_active, free_cam_locked, pending_frames, gameVars>>

lock_cam_event ==
    /\ free_cam_locked' = ~free_cam_locked
    /\ c_mask' = (~free_cam_locked' /\ free_cam_active)
    /\ stick_mask' = (~free_cam_locked' /\ free_cam_active)
    /\ UNCHANGED <<pad_reserved, menu_active, free_cam_active, pending_frames, gameVars>>

command_onactivate ==
    /\ \/ pending_frames' = command_pause(pending_frames) /\ UNCHANGED gameVars
       \/ pending_frames' = command_advance(pending_frames) /\ UNCHANGED gameVars
       \/ load_state /\ UNCHANGED pending_frames
    /\ UNCHANGED <<pad_reserved, menu_active, maskVars, camVars>>

MenuItem ==
    /\ menu_active /\ ~toggle /\ PressedL
    /\ \/ main_menu_return_onactivate
       \/ free_cam_event
       \/ lock_cam_event
       \/ command_onactivate

(* The menu is closed and stays closed, or is only navigated. *)
MenuIdle ==
    /\ ~toggle
    /\ UNCHANGED <<menu_active, pad_reserved, maskVars, camVars, pending_frames, gameVars>>

HandleMenu ==
    /\ pc = "menu" /\ pc' = "editor"
    /\ OpenMenu \/ CloseMenu \/ MenuItem \/ MenuIdle
    /\ UNCHANGED <<inputVars, editorVars>>

-----------------------------------------------------------------------------
(* kz_main, "handle command bindings", first half: the editor's mode.      *)

EditorOn ==
    /\ is_pause /\ ~menu_active
    /\ HeldL /\ ~switched /\ ~item_update
    /\ item_update' = TRUE /\ switched' = TRUE
    /\ c_mask' = FALSE
    /\ cell' = IF /\ screen_idx \in ItemPages
                  /\ \A c \in Cells : slots[<<screen_idx, c>>] = NULL
               THEN 0 ELSE cell
    /\ pad_reserved' = reserve_buttons(pad_reserved, EditorButtons)
    /\ prev_inst' = ovl_inst
    /\ ovl_inst' = "patched"
    /\ UNCHANGED <<stick_mask, wheel_active, pause, screen_idx>>

EditorOff ==
    /\ is_pause /\ ~menu_active
    /\ HeldL /\ ~switched /\ item_update
    /\ item_update' = FALSE /\ switched' = TRUE
    /\ c_mask' = FALSE /\ stick_mask' = FALSE
    /\ pad_reserved' = free_buttons(pad_reserved, EditorButtons)
    /\ ovl_inst' = prev_inst
    /\ wheel_active' = FALSE
    /\ UNCHANGED <<prev_inst, pause, screen_idx, cell>>

EditorStays ==
    /\ is_pause /\ ~menu_active
    /\ ~HeldL \/ switched
    /\ c_mask' = FALSE
    /\ UNCHANGED <<stick_mask, item_update, switched, pad_reserved, prev_inst,
                   wheel_active, gameVars>>

(* input_mask_set or input_mask_clear: only the former names the C buttons.*)
MasksFollowCameraSlip ==
    /\ stick_mask' = (stick_mask \/ CamSteering)
    /\ c_mask' = (c_mask \/ CamSteering)
MasksFollowCamera ==
    /\ stick_mask' = CamSteering
    /\ c_mask' = (c_mask \/ CamSteering)

(* Not on the pause screen, or the menu is open: the masks go back to the  *)
(* camera and an active editor is abandoned.                               *)
EditorLeft ==
    /\ ~is_pause \/ menu_active
    /\ MasksFollowCamera
    /\ IF item_update
       THEN /\ item_update' = FALSE /\ switched' = FALSE
            /\ pad_reserved' = IF menu_active THEN pad_reserved
                               ELSE free_buttons(pad_reserved, EditorButtons)
       ELSE UNCHANGED <<item_update, switched, pad_reserved>>
    /\ UNCHANGED <<prev_inst, wheel_active, gameVars>>

EditorMode ==
    /\ pc = "editor" /\ pc' = "commands"
    /\ EditorOn \/ EditorOff \/ EditorStays \/ EditorLeft
    /\ UNCHANGED <<inputVars, menu_active, pending_frames, camVars, prev_page,
                   pause_row, slots>>

-----------------------------------------------------------------------------
(* Second half: the bindings run, or the editor's page.                    *)

(* The bindings pressed this frame run in the order of kz_commands. *)
RunBindings ==
    /\ ~item_update
    /\ \E fired \in SUBSET (Commands \ quiet) :
        /\ LET p == IF "PAUSE" \in fired THEN command_pause(pending_frames)
                    ELSE pending_frames
           IN  pending_frames' = IF "ADVANCE" \in fired THEN command_advance(p) ELSE p
        /\ IF "LOAD_STATE" \in fired THEN load_state ELSE UNCHANGED gameVars
    /\ UNCHANGED <<stick_mask, wheel_active, prev_page, pause_row, slots>>

(* The wheel as the page change leaves it. *)
WheelKeptSlip == wheel_active
WheelKept == wheel_active /\ screen_idx = prev_page

EditorPageShown == item_update /\ prev_page' = screen_idx

(* No press for the wheel; a page change has put it away. *)
PageIdle ==
    /\ EditorPageShown
    /\ screen_idx \notin ItemPages \/ switched \/ ~PressedL
    /\ wheel_active' = WheelKept
    /\ stick_mask' = (stick_mask /\ (wheel_active => WheelKept))
    /\ UNCHANGED <<pause_row, slots>>

(* pause_menu_event with the cursor on a page arrow (scroll_button, which  *)
(* the game may have set at any press): the wheel closes.                  *)
WheelOnArrow ==
    /\ EditorPageShown
    /\ screen_idx \in ItemPages /\ ~switched /\ PressedL
    /\ wheel_active' = FALSE
    /\ stick_mask' = (stick_mask /\ (wheel_active => WheelKept))
    /\ UNCHANGED <<pause_row, slots>>

(* The first press opens the wheel on the cursor's slot. *)
WheelOpens ==
    /\ EditorPageShown
    /\ screen_idx \in ItemPages /\ ~switched /\ PressedL
    /\ ~WheelKept
    /\ wheel_active' = TRUE
    /\ stick_mask' = TRUE
    /\ pause_row' = <<screen_idx, cell>>
    /\ UNCHANGED slots

(* The second press writes the item the d-pad turned the wheel to. *)
WheelCommits ==
    /\ EditorPageShown
    /\ screen_idx \in ItemPages /\ ~switched /\ PressedL
    /\ WheelKept
    /\ wheel_active' = FALSE
    /\ stick_mask' = FALSE
    /\ \E item_val \in Items \cup {NULL} :
          slots' = [slots EXCEPT ![pause_row] = item_val]
    /\ UNCHANGED pause_row

EditorPage ==
    /\ PageIdle \/ WheelOnArrow \/ WheelOpens \/ WheelCommits
    /\ UNCHANGED <<pending_frames, gameVars>>

CommandsOrEditor ==
    /\ pc = "commands" /\ pc' = "game"
    /\ RunBindings \/ EditorPage
    /\ switched' = (switched /\ PressedL)
    /\ quiet' = {} /\ menu_at_read' = FALSE
    /\ UNCHANGED <<l_time, toggle, pad_reserved, c_mask, menu_active, camVars,
                   item_update, prev_inst>>

-----------------------------------------------------------------------------
Next ==
    \/ GameFrame
    \/ InputUpdate
    \/ HandleMenu
    \/ EditorMode
    \/ CommandsOrEditor

Spec == Init /\ [][Next]_vars

-----------------------------------------------------------------------------
(* Properties                                                              *)

(* free_buttons flips bits instead of clearing them, so a second free would*)
(* reserve the buttons of a closed menu for good.  The reservations are at *)
(* every step exactly those of the mode kz is in.                          *)
ReservedMatchesMode ==
    pad_reserved = IF menu_active THEN MenuButtons
                   ELSE IF item_update THEN EditorButtons ELSE {}

(* A frame whose pad was read with the menu open runs no command bound to  *)
(* a button the menu is steered with, also when the toggle or the return   *)
(* item has closed the menu and freed those buttons before the bindings    *)
(* run.                                                                    *)
MenuButtonsRunNothing ==
    pc = "commands" /\ menu_at_read =>
        \A c \in Commands \ quiet : Bind[c] \cap MenuButtons = {}

(* Once a frame has settled its mode, the editor is on only over the pause *)
(* screen's main state with the menu closed, and the overlay it is on has  *)
(* the patched cursor code.                                                *)
EditorOnPatchedPauseScreen ==
    pc \in {"commands", "game"} /\ item_update =>
        pause = "main" /\ ~menu_active /\ ovl_inst = "patched"

(* Sticks hidden from the game always have an owner that can give them     *)
(* back: the free camera being steered, or the editor.  Off the pause      *)
(* screen the camera alone decides.                                        *)
HiddenSticksHaveOwner ==
    pc \in {"commands", "game"} =>
        /\ stick_mask => CamSteering \/ item_update
        /\ c_mask => free_cam_active

(* The wheel writes only to the page that is shown, though it may have     *)
(* been opened on another page before the editor was left and re-entered.  *)
CommitOnShownPage ==
    [][\A r \in Rows : slots'[r] # slots[r] => r[1] = screen_idx]_vars

(* USAGE.md on the locked camera: "this will release the button            *)
(* restrictions that are placed when the free camera is enabled".          *)
LockReleasesButtons ==
    pc \in {"commands", "game"} /\ free_cam_locked => ~c_mask

(* USAGE.md on the pause screen editor: the cursor is moved "into any item *)
(* or mask slot in order to select an item to place in that slot": the slot*)
(* a commit writes is the one under the cursor.                            *)
CommitInCursorSlot ==
    [][\A r \in Rows : slots'[r] # slots[r] => r = <<screen_idx, cell>>]_vars

=============================================================================
