---------------------------- MODULE KzFrameProofs ----------------------------
(***************************************************************************)
(* The safety properties of KzFrame, for every repeat time, every set of   *)
(* pages, cells and items, and every binding of the commands and of the    *)
(* menu.  FrameInv is the inductive invariant: what the properties say at  *)
(* the end of a frame, and what is still true in the middle of one.        *)
(***************************************************************************)
EXTENDS KzFrame, TLAPS

(* Inside a frame the menu may open over a running editor (only between    *)
(* the "menu" and the "editor" step), and the editor's overlay is patched  *)
(* as long as the pause screen is there.                                   *)
ModeInv ==
    /\ pc # "editor" => ~(menu_active /\ item_update)
    /\ item_update /\ ~menu_active /\ pause # "none" => ovl_inst = "patched"
    /\ pc \in {"commands", "game"} /\ item_update => pause = "main"

(* The overlay is resident on the pause screen, and an editor that is on   *)
(* has saved its code.                                                     *)
OverlayInv ==
    /\ pause # "none" => ovl_inst # "none"
    /\ item_update => prev_inst # "zero"

(* The masks: between the "menu" and the "editor" step a camera item may   *)
(* have hidden the sticks of a locked camera, with the menu still open.    *)
MaskInv ==
    /\ c_mask => free_cam_active
    /\ pc # "editor" \/ ~menu_active => (stick_mask => CamSteering \/ item_update)

(* What input_update silenced under an open menu is silenced until the     *)
(* frame ends, whatever the menu does.                                     *)
QuietInv ==
    pc \in {"menu", "editor", "commands"} /\ menu_at_read =>
        \A c \in Commands \ quiet : Bind[c] \cap MenuButtons = {}

(* An open wheel remembers a slot of the page it was opened on. *)
WheelInv == wheel_active => pause_row \in Rows /\ pause_row[1] = prev_page

FrameInv ==
    /\ TypeOK
    /\ ReservedMatchesMode
    /\ ModeInv
    /\ OverlayInv
    /\ MaskInv
    /\ QuietInv
    /\ WheelInv

(* The set that free_buttons leaves when it is handed exactly what is      *)
(* reserved, and what reserve_buttons leaves when it is handed more.       *)
LEMMA FreeReserve ==
    /\ \A b : free_buttons(b, b) = {}
    /\ \A r, b : r \subseteq b => reserve_buttons(r, b) = b
BY DEF free_buttons, reserve_buttons

(* kz starts with the menu closed, nothing reserved and nothing hidden.    *)
LEMMA InitFrameInv == ASSUME Init PROVE FrameInv
<1> USE DEF Init
<1>1. TypeOK
    <2>1. 0 \in Cells /\ 0 \in 0..INPUT_REPEAT
        BY FrameAssumption DEF Cells
    <2>2. "item" \in Pages
        BY FrameAssumption DEF ItemPages
    <2> QED BY <2>1, <2>2 DEF TypeOK, Commands
<1>2. ReservedMatchesMode /\ ModeInv /\ OverlayInv /\ MaskInv /\ QuietInv /\ WheelInv
    BY DEF ReservedMatchesMode, ModeInv, OverlayInv, MaskInv, QuietInv, WheelInv
<1> QED BY <1>1, <1>2 DEF FrameInv

LEMMA GameFrameKeeps ==
    ASSUME FrameInv, GameFrame PROVE FrameInv'
<1> USE DEF FrameInv, GameFrame, inputVars, maskVars, camVars, editorVars, gameVars
<1>1. GameUpdate \/ UNCHANGED gameVars
    OBVIOUS
<1>2. /\ pause' \in {"none", "main", "other"} /\ screen_idx' \in Pages
      /\ cell' \in Cells /\ ovl_inst' \in {"none", "orig", "patched"}
      /\ pause' # "none" => ovl_inst' # "none"
      /\ pause = "none" \/ pause' = "none" \/ ovl_inst' = ovl_inst
    BY <1>1 DEF GameUpdate, GameOpensPause, GameChangesPauseState, GameMovesCursor,
       GameTurnsPage, TypeOK, OverlayInv
<1>3. TypeOK'
    BY <1>2 DEF TypeOK
<1>4. ReservedMatchesMode'
    BY DEF ReservedMatchesMode
<1>5. ModeInv' /\ OverlayInv'
    BY <1>2 DEF ModeInv, OverlayInv, TypeOK
<1>6. MaskInv' /\ QuietInv' /\ WheelInv'
    BY DEF MaskInv, QuietInv, WheelInv, CamSteering
<1> QED BY <1>3, <1>4, <1>5, <1>6

LEMMA InputUpdateKeeps ==
    ASSUME FrameInv, InputUpdate PROVE FrameInv'
<1> USE DEF FrameInv, InputUpdate, maskVars, camVars, editorVars, gameVars
<1>1. TypeOK'
    <2>1. PICK held \in BOOLEAN :
            /\ l_time' = IF ~held THEN 0
                         ELSE IF l_time < INPUT_REPEAT THEN l_time + 1 ELSE l_time
            /\ toggle' \in BOOLEAN
            /\ quiet' = {c \in Commands : \/ Bind[c] \cap pad_reserved # {}
                                          \/ "L" \in Bind[c] /\ ~held}
        OBVIOUS
    <2>2. l_time' \in 0..INPUT_REPEAT
        BY <2>1, FrameAssumption DEF TypeOK
    <2>3. quiet' \subseteq Commands
        BY <2>1
    <2> QED BY <2>1, <2>2, <2>3 DEF TypeOK
<1>2. ReservedMatchesMode' /\ ModeInv' /\ OverlayInv' /\ MaskInv' /\ WheelInv'
    BY DEF ReservedMatchesMode, ModeInv, OverlayInv, MaskInv, WheelInv, CamSteering
<1>3. QuietInv'
    <2>1. ASSUME menu_active PROVE pad_reserved = MenuButtons
        BY <2>1 DEF ReservedMatchesMode
    <2> QED BY <2>1 DEF QuietInv
<1> QED BY <1>1, <1>2, <1>3

LEMMA HandleMenuKeeps ==
    ASSUME FrameInv, HandleMenu PROVE FrameInv'
<1> USE DEF HandleMenu, inputVars, editorVars
<1>1. CASE OpenMenu
    <2>1. pad_reserved \subseteq MenuButtons
        BY DEF FrameInv, ReservedMatchesMode, MenuButtons, EditorButtons
    <2>2. pad_reserved' = MenuButtons
        BY <1>1, <2>1, FreeReserve DEF OpenMenu
    <2>3. pc' = "editor" /\ menu_active' = TRUE /\ toggle' = TRUE
        BY <1>1 DEF OpenMenu
    <2>4. TypeOK'
        BY <1>1, <2>2 DEF OpenMenu, FrameInv, TypeOK, Buttons, maskVars, camVars, gameVars
    <2>5. ReservedMatchesMode' /\ QuietInv' /\ ModeInv'
        BY <2>2, <2>3 DEF ReservedMatchesMode, FrameInv, QuietInv, ModeInv
    <2>6. OverlayInv' /\ MaskInv' /\ WheelInv'
        BY <1>1, <2>3 DEF OpenMenu, FrameInv, OverlayInv, MaskInv, WheelInv, maskVars,
           camVars, gameVars
    <2> QED BY <2>4, <2>5, <2>6 DEF FrameInv
<1>2. CASE CloseMenu \/ (MenuItem /\ main_menu_return_onactivate)
    <2>1. menu_active /\ ~item_update /\ pad_reserved = MenuButtons
        BY <1>2 DEF CloseMenu, MenuItem, FrameInv, ModeInv, ReservedMatchesMode
    <2>2. pad_reserved' = {} /\ menu_active' = FALSE
        BY <1>2, <2>1, FreeReserve DEF CloseMenu, main_menu_return_onactivate
    <2>3. UNCHANGED <<maskVars, camVars, pending_frames, gameVars>>
        BY <1>2 DEF CloseMenu, main_menu_return_onactivate
    <2>4. TypeOK'
        <3>1. pad_reserved' \subseteq Buttons /\ menu_active' \in BOOLEAN /\ pc' = "editor"
            BY <2>2
        <3> QED BY <2>3, <3>1 DEF FrameInv, TypeOK, maskVars, camVars, gameVars
    <2>6. ReservedMatchesMode'
        BY <2>1, <2>2 DEF ReservedMatchesMode
    <2>5. ModeInv' /\ OverlayInv' /\ MaskInv' /\ QuietInv' /\ WheelInv'
        BY <2>1, <2>2, <2>3 DEF FrameInv, ModeInv, OverlayInv, MaskInv, QuietInv, WheelInv,
           CamSteering, maskVars, camVars, gameVars
    <2> QED BY <2>4, <2>5, <2>6 DEF FrameInv
<1>3. CASE MenuItem /\ (free_cam_event \/ lock_cam_event)
    <2>1. menu_active /\ ~item_update
        BY <1>3 DEF MenuItem, FrameInv, ModeInv
    <2>2. /\ UNCHANGED <<pad_reserved, menu_active, pending_frames, gameVars>>
          /\ free_cam_active' \in BOOLEAN /\ free_cam_locked' \in BOOLEAN
          /\ c_mask' \in BOOLEAN /\ stick_mask' \in BOOLEAN
          /\ c_mask' => free_cam_active'
        <3>1. CASE free_cam_event
            BY <3>1 DEF free_cam_event, FrameInv, TypeOK
        <3>2. CASE lock_cam_event
            <4>1. c_mask' = (~free_cam_locked' /\ free_cam_active')
                BY <3>2 DEF lock_cam_event
            <4>2. c_mask' \in BOOLEAN /\ (c_mask' => free_cam_active')
                BY <4>1, Zenon
            <4> QED BY <3>2, <4>2 DEF lock_cam_event, FrameInv, TypeOK
        <3> QED BY <1>3, <3>1, <3>2
    <2>3. TypeOK' /\ ReservedMatchesMode'
        BY <2>2 DEF FrameInv, TypeOK, ReservedMatchesMode, gameVars
    <2>4. ModeInv' /\ OverlayInv' /\ MaskInv' /\ QuietInv' /\ WheelInv'
        BY <2>1, <2>2 DEF FrameInv, ModeInv, OverlayInv, MaskInv, QuietInv, WheelInv, gameVars
    <2> QED BY <2>3, <2>4 DEF FrameInv
<1>4. CASE MenuItem /\ command_onactivate
    <2>1. menu_active /\ ~item_update
        BY <1>4 DEF MenuItem, FrameInv, ModeInv
    <2>2. /\ pending_frames' \in {-1, 0, 1}
          /\ pause' \in {"none", "main", "other"} /\ screen_idx' \in Pages
          /\ cell' \in Cells /\ ovl_inst' \in {"none", "orig", "patched"}
          /\ pause' # "none" => ovl_inst' # "none"
        BY <1>4 DEF command_onactivate, load_state, command_pause, command_advance,
           FrameInv, TypeOK, OverlayInv, gameVars
    <2> QED BY <1>4, <2>1, <2>2 DEF command_onactivate, FrameInv, TypeOK,
            ReservedMatchesMode, ModeInv, OverlayInv, MaskInv, QuietInv, WheelInv,
            CamSteering, maskVars, camVars
<1>5. CASE MenuIdle
    BY <1>5 DEF MenuIdle, FrameInv, TypeOK, ReservedMatchesMode, ModeInv, OverlayInv,
       MaskInv, QuietInv, WheelInv, CamSteering, maskVars, camVars, gameVars
<1> QED BY <1>1, <1>2, <1>3, <1>4, <1>5 DEF MenuItem

LEMMA EditorModeKeeps ==
    ASSUME FrameInv, EditorMode PROVE FrameInv'
<1> USE DEF inputVars, camVars
<1>0. /\ EditorOn \/ EditorOff \/ EditorStays \/ EditorLeft
      /\ pc = "editor" /\ pc' = "commands"
      /\ UNCHANGED <<l_time, toggle, quiet, menu_at_read, menu_active, pending_frames,
                     free_cam_active, free_cam_locked, prev_page, pause_row, slots>>
    BY DEF EditorMode
<1>1. CASE EditorOn
    <2>1. pause = "main" /\ ~menu_active /\ ~item_update
        BY <1>0, <1>1 DEF EditorOn, is_pause
    <2>2. pad_reserved' = EditorButtons
        <3>1. pad_reserved = {}
            BY <2>1 DEF FrameInv, ReservedMatchesMode
        <3> QED BY <1>0, <1>1, <3>1, FreeReserve DEF EditorOn
    <2>3. cell' \in Cells
        <3>1. cell \in Cells
            BY DEF FrameInv, TypeOK
        <3>2. 0 \in Cells
            BY FrameAssumption DEF Cells
        <3>3. cell' = 0 \/ cell' = cell
            BY <1>1 DEF EditorOn
        <3> QED BY <3>1, <3>2, <3>3
    <2>4. TypeOK'
        <3>1. pad_reserved' \subseteq Buttons
            BY <2>2 DEF EditorButtons, MenuButtons, Buttons
        <3>2. prev_inst' \in {"orig", "patched"}
            BY <1>0, <1>1, <2>1 DEF EditorOn, FrameInv, TypeOK, OverlayInv
        <3>3. /\ item_update' = TRUE /\ switched' = TRUE /\ c_mask' = FALSE
              /\ ovl_inst' = "patched"
              /\ UNCHANGED <<stick_mask, wheel_active, pause, screen_idx>>
            BY <1>1 DEF EditorOn
        <3>4. TypeOK
            BY DEF FrameInv
        <3>5. /\ l_time' \in 0..INPUT_REPEAT /\ quiet' \subseteq Commands
              /\ pause_row' \in Rows \cup {NULL} /\ screen_idx' \in Pages
              /\ slots' \in [Rows -> Items \cup {NULL}]
            BY <1>0, <3>3, <3>4 DEF TypeOK
        <3>6. /\ toggle' \in BOOLEAN /\ menu_at_read' \in BOOLEAN /\ menu_active' \in BOOLEAN
              /\ free_cam_active' \in BOOLEAN /\ free_cam_locked' \in BOOLEAN
              /\ item_update' \in BOOLEAN /\ switched' \in BOOLEAN
              /\ wheel_active' \in BOOLEAN /\ stick_mask' \in BOOLEAN
              /\ c_mask' \in BOOLEAN
            BY <1>0, <3>3, <3>4 DEF TypeOK
        <3>7. /\ pc' \in {"game", "input", "menu", "editor", "commands"}
              /\ pending_frames' \in {-1, 0, 1} /\ prev_page' \in Pages
              /\ pause' \in {"none", "main", "other"}
              /\ ovl_inst' \in {"none", "orig", "patched"}
            BY <1>0, <3>3, <3>4 DEF TypeOK
        <3> QED BY <2>3, <3>1, <3>2, <3>5, <3>6, <3>7 DEF TypeOK
    <2>5. ReservedMatchesMode' /\ ModeInv' /\ OverlayInv' /\ QuietInv'
        BY <1>0, <1>1, <2>1, <2>2 DEF EditorOn, FrameInv, TypeOK, ReservedMatchesMode, ModeInv,
           OverlayInv, QuietInv
    <2>6. MaskInv' /\ WheelInv'
        BY <1>0, <1>1 DEF EditorOn, FrameInv, MaskInv, WheelInv, CamSteering
    <2> QED BY <2>4, <2>5, <2>6 DEF FrameInv
<1>2. CASE EditorOff
    <2>1. pause = "main" /\ ~menu_active /\ item_update
        BY <1>0, <1>2 DEF EditorOff, is_pause
    <2>2. pad_reserved' = {}
        <3>1. pad_reserved = EditorButtons
            BY <2>1 DEF FrameInv, ReservedMatchesMode
        <3> QED BY <1>0, <1>2, <3>1, FreeReserve DEF EditorOff
    <2>3. TypeOK'
        BY <1>0, <1>2, <2>1, <2>2 DEF EditorOff, FrameInv, TypeOK, OverlayInv
    <2>4. ReservedMatchesMode' /\ ModeInv' /\ QuietInv'
        BY <1>0, <1>2, <2>1, <2>2 DEF EditorOff, FrameInv, ReservedMatchesMode, ModeInv, QuietInv
    <2>5. OverlayInv' /\ MaskInv' /\ WheelInv'
        <3>1. prev_inst \in {"orig", "patched"}
            BY <2>1 DEF FrameInv, TypeOK, OverlayInv
        <3>2. ovl_inst' = prev_inst /\ ~item_update' /\ ~c_mask' /\ ~stick_mask' /\ ~wheel_active'
            BY <1>0, <1>2 DEF EditorOff
        <3> QED BY <1>0, <3>1, <3>2 DEF OverlayInv, MaskInv, WheelInv
    <2> QED BY <2>3, <2>4, <2>5 DEF FrameInv
<1>3. CASE EditorStays
    <2>1. pause = "main" /\ ~menu_active
        BY <1>0, <1>3 DEF EditorStays, is_pause
    <2>2. TypeOK' /\ ReservedMatchesMode'
        <3>1. TypeOK'
            <4>1. /\ c_mask' = FALSE
                  /\ UNCHANGED <<stick_mask, item_update, switched, pad_reserved, prev_inst,
                                 wheel_active, pause, screen_idx, cell, ovl_inst>>
                BY <1>3 DEF EditorStays, gameVars
            <4>2. TypeOK
                BY DEF FrameInv
            <4>3. /\ l_time' \in 0..INPUT_REPEAT /\ quiet' \subseteq Commands
                  /\ pad_reserved' \subseteq Buttons /\ pause_row' \in Rows \cup {NULL}
                  /\ screen_idx' \in Pages /\ cell' \in Cells
                  /\ slots' \in [Rows -> Items \cup {NULL}]
                BY <1>0, <4>1, <4>2 DEF TypeOK
            <4>4. /\ toggle' \in BOOLEAN /\ menu_at_read' \in BOOLEAN /\ c_mask' \in BOOLEAN
                  /\ stick_mask' \in BOOLEAN
                  /\ menu_active' \in BOOLEAN /\ free_cam_active' \in BOOLEAN
                  /\ free_cam_locked' \in BOOLEAN /\ item_update' \in BOOLEAN
                  /\ switched' \in BOOLEAN /\ wheel_active' \in BOOLEAN
                BY <1>0, <4>1, <4>2 DEF TypeOK
            <4>5. /\ pc' \in {"game", "input", "menu", "editor", "commands"}
                  /\ pending_frames' \in {-1, 0, 1} /\ prev_page' \in Pages
                  /\ prev_inst' \in {"zero", "orig", "patched"}
                  /\ pause' \in {"none", "main", "other"}
                  /\ ovl_inst' \in {"none", "orig", "patched"}
                BY <1>0, <4>1, <4>2 DEF TypeOK
            <4> QED BY <4>3, <4>4, <4>5 DEF TypeOK
        <3>2. ReservedMatchesMode'
            BY <1>0, <1>3 DEF EditorStays, FrameInv, ReservedMatchesMode
        <3> QED BY <3>1, <3>2
    <2>3. ModeInv' /\ OverlayInv' /\ QuietInv' /\ WheelInv'
        BY <1>0, <1>3, <2>1 DEF EditorStays, FrameInv, ModeInv, OverlayInv, QuietInv, WheelInv,
           gameVars
    <2>4. MaskInv'
        <3>1. c_mask' = FALSE /\ UNCHANGED <<stick_mask, item_update, camVars>>
            BY <1>0, <1>3 DEF EditorStays
        <3> QED BY <1>0, <2>1, <3>1 DEF FrameInv, MaskInv, CamSteering
    <2> QED BY <2>2, <2>3, <2>4 DEF FrameInv
<1>4. CASE EditorLeft
    <2>1. item_update' = FALSE
        BY <1>0, <1>4 DEF EditorLeft, FrameInv, TypeOK
    <2>2. pad_reserved' = IF menu_active THEN MenuButtons ELSE {}
        <3>1. CASE ~item_update
            BY <1>0, <1>4, <3>1 DEF EditorLeft, FrameInv, ReservedMatchesMode
        <3>2. CASE item_update /\ menu_active
            BY <1>0, <1>4, <3>2 DEF EditorLeft, FrameInv, ReservedMatchesMode
        <3>3. CASE item_update /\ ~menu_active
            <4>1. pad_reserved = EditorButtons
                BY <3>3 DEF FrameInv, ReservedMatchesMode
            <4> QED BY <1>0, <1>4, <3>3, <4>1, FreeReserve DEF EditorLeft
        <3> QED BY <3>1, <3>2, <3>3
    <2>3. UNCHANGED <<prev_inst, wheel_active, pause, screen_idx, cell, ovl_inst>>
        BY <1>0, <1>4 DEF EditorLeft, gameVars
    <2>7. stick_mask' = CamSteering /\ c_mask' = (c_mask \/ CamSteering)
        BY <1>0, <1>4 DEF EditorLeft, MasksFollowCamera
    <2>4. TypeOK'
        <3>1. pad_reserved' \subseteq Buttons
            BY <2>2 DEF MenuButtons, Buttons
        <3>2. switched' \in BOOLEAN
            BY <1>0, <1>4 DEF EditorLeft, FrameInv, TypeOK
        <3>3. stick_mask' \in BOOLEAN /\ c_mask' \in BOOLEAN
            BY <2>7, Zenon DEF CamSteering
        <3>4. TypeOK
            BY DEF FrameInv
        <3>5. /\ l_time' \in 0..INPUT_REPEAT /\ quiet' \subseteq Commands
              /\ pause_row' \in Rows \cup {NULL}
              /\ screen_idx' \in Pages /\ cell' \in Cells
              /\ slots' \in [Rows -> Items \cup {NULL}]
            BY <1>0, <2>3, <3>4 DEF TypeOK
        <3>6. /\ toggle' \in BOOLEAN /\ menu_at_read' \in BOOLEAN /\ menu_active' \in BOOLEAN
              /\ free_cam_active' \in BOOLEAN /\ free_cam_locked' \in BOOLEAN
              /\ item_update' \in BOOLEAN /\ wheel_active' \in BOOLEAN
            BY <1>0, <2>1, <2>3, <3>4 DEF TypeOK
        <3>7. /\ pc' \in {"game", "input", "menu", "editor", "commands"}
              /\ pending_frames' \in {-1, 0, 1} /\ prev_page' \in Pages
              /\ prev_inst' \in {"zero", "orig", "patched"}
              /\ pause' \in {"none", "main", "other"}
              /\ ovl_inst' \in {"none", "orig", "patched"}
            BY <1>0, <2>3, <3>4 DEF TypeOK
        <3> QED BY <3>1, <3>2, <3>3, <3>5, <3>6, <3>7 DEF TypeOK
    <2>5. ReservedMatchesMode' /\ ModeInv' /\ OverlayInv' /\ QuietInv' /\ WheelInv'
        BY <1>0, <2>1, <2>2, <2>3 DEF FrameInv, ReservedMatchesMode, ModeInv, OverlayInv, QuietInv,
           WheelInv, gameVars
    <2>6. MaskInv'
        BY <1>0, <2>7 DEF FrameInv, MaskInv, CamSteering
    <2> QED BY <2>4, <2>5, <2>6 DEF FrameInv
<1> QED BY <1>0, <1>1, <1>2, <1>3, <1>4

LEMMA CommandsOrEditorKeeps ==
    ASSUME FrameInv, CommandsOrEditor PROVE FrameInv'
<1> USE DEF CommandsOrEditor, camVars
<1>1. switched' \in BOOLEAN
    BY Zenon
<1>2. CASE RunBindings
    <2>1. ~item_update
        BY <1>2 DEF RunBindings
    <2>2. pending_frames' \in {-1, 0, 1}
        BY <1>2 DEF RunBindings, command_pause, command_advance, FrameInv, TypeOK
    <2>3. /\ pause' \in {"none", "main", "other"} /\ screen_idx' \in Pages
          /\ cell' \in Cells /\ ovl_inst' \in {"none", "orig", "patched"}
          /\ pause' # "none" => ovl_inst' # "none"
        BY <1>2 DEF RunBindings, load_state, gameVars, FrameInv, TypeOK, OverlayInv
    <2>4. TypeOK'
        BY <1>1, <1>2, <2>2, <2>3 DEF RunBindings, FrameInv, TypeOK
    <2>5. ReservedMatchesMode' /\ ModeInv' /\ OverlayInv' /\ MaskInv' /\ QuietInv' /\ WheelInv'
        BY <1>2, <2>1, <2>3 DEF RunBindings, FrameInv, ReservedMatchesMode, ModeInv,
           OverlayInv, MaskInv, QuietInv, WheelInv, CamSteering
    <2> QED BY <2>4, <2>5 DEF FrameInv
<1>3. CASE EditorPage
    <2>1. item_update /\ prev_page' = screen_idx /\ UNCHANGED <<pending_frames, gameVars>>
        BY <1>3 DEF EditorPage, PageIdle, WheelOnArrow, WheelOpens, WheelCommits,
           EditorPageShown
    <2>2. wheel_active' \in BOOLEAN /\ stick_mask' \in BOOLEAN
        BY <1>3, Zenon DEF EditorPage, PageIdle, WheelOnArrow, WheelOpens, WheelCommits,
           WheelKept
    <2>3. pause_row' \in Rows \cup {NULL} /\ slots' \in [Rows -> Items \cup {NULL}]
        <3>1. CASE WheelOpens
            BY <3>1 DEF WheelOpens, FrameInv, TypeOK, Rows
        <3>2. CASE WheelCommits
            BY <3>2 DEF WheelCommits, FrameInv, TypeOK
        <3>3. CASE PageIdle \/ WheelOnArrow
            BY <3>3 DEF PageIdle, WheelOnArrow, FrameInv, TypeOK
        <3> QED BY <1>3, <3>1, <3>2, <3>3 DEF EditorPage
    <2>4. TypeOK'
        BY <1>1, <2>1, <2>2, <2>3, ZenonT(30) DEF FrameInv, TypeOK, gameVars
    <2>5. ReservedMatchesMode' /\ ModeInv' /\ OverlayInv' /\ MaskInv' /\ QuietInv'
        BY <2>1 DEF FrameInv, ReservedMatchesMode, ModeInv, OverlayInv, MaskInv, QuietInv,
           gameVars
    <2>6. WheelInv'
        <3>1. CASE WheelOpens
            BY <3>1, <2>1 DEF WheelOpens, WheelInv, Rows, FrameInv, TypeOK
        <3>2. CASE PageIdle
            BY <3>2, <2>1 DEF PageIdle, WheelInv, WheelKept, FrameInv
        <3>3. CASE WheelOnArrow \/ WheelCommits
            BY <3>3 DEF WheelOnArrow, WheelCommits, WheelInv
        <3> QED BY <1>3, <3>1, <3>2, <3>3 DEF EditorPage
    <2> QED BY <2>4, <2>5, <2>6 DEF FrameInv
<1> QED BY <1>2, <1>3

LEMMA StutterKeeps == ASSUME FrameInv, UNCHANGED vars PROVE FrameInv'
BY DEF FrameInv, vars, inputVars, maskVars, camVars, editorVars, gameVars, TypeOK,
   ReservedMatchesMode, ModeInv, OverlayInv, MaskInv, QuietInv, WheelInv, CamSteering

(* FrameInv holds in every reachable state. *)
THEOREM FrameInvariant == Spec => []FrameInv
<1>1. Init => FrameInv
    BY InitFrameInv
<1>2. FrameInv /\ [Next]_vars => FrameInv'
    BY GameFrameKeeps, InputUpdateKeeps, HandleMenuKeeps, EditorModeKeeps,
       CommandsOrEditorKeeps, StutterKeeps DEF Next
<1> QED BY <1>1, <1>2, PTL DEF Spec

(* Every variable keeps its type; pending_frames never exceeds one frame,  *)
(* however pause and advance are mixed in one frame.                       *)
THEOREM FrameTypes == Spec => []TypeOK
<1>1. FrameInv => TypeOK
    BY DEF FrameInv
<1> QED BY <1>1, FrameInvariant, PTL

(* free_buttons flips bits, and yet no sequence of menu and editor         *)
(* switches leaves a button reserved that no mode owns, or free one that a *)
(* mode needs.                                                             *)
THEOREM ReservationsMatchModes == Spec => []ReservedMatchesMode
<1>1. FrameInv => ReservedMatchesMode
    BY DEF FrameInv
<1> QED BY <1>1, FrameInvariant, PTL

(* The editor runs only over the main state of a pause screen whose cursor *)
(* code is patched, with the menu closed.                                  *)
THEOREM EditorOnPauseScreen == Spec => []EditorOnPatchedPauseScreen
<1>1. FrameInv => EditorOnPatchedPauseScreen
    BY DEF FrameInv, ModeInv, EditorOnPatchedPauseScreen
<1> QED BY <1>1, FrameInvariant, PTL

(* Hidden sticks always have an owner that can give them back. *)
THEOREM SticksHaveOwner == Spec => []HiddenSticksHaveOwner
<1>1. FrameInv => HiddenSticksHaveOwner
    BY DEF FrameInv, MaskInv, HiddenSticksHaveOwner
<1> QED BY <1>1, FrameInvariant, PTL

(* In a frame whose pad was read with the menu open no command on a menu   *)
(* button runs, not even after the menu has closed in that frame.          *)
THEOREM OpenMenuSilencesCommands == Spec => []MenuButtonsRunNothing
<1>1. FrameInv => MenuButtonsRunNothing
    BY DEF FrameInv, QuietInv, MenuButtonsRunNothing
<1> QED BY <1>1, FrameInvariant, PTL

(* A commit of the item wheel never leaves the page that is shown. *)
THEOREM CommitsStayOnPage == Spec => CommitOnShownPage
<1> DEFINE OnPage == \A r \in Rows : slots'[r] # slots[r] => r[1] = screen_idx
<1>1. FrameInv /\ [Next]_vars => [OnPage]_vars
    <2> SUFFICES ASSUME FrameInv, Next PROVE OnPage
        OBVIOUS
    <2>1. CASE CommandsOrEditor /\ WheelCommits
        <3>1. pause_row \in Rows /\ pause_row[1] = screen_idx
            BY <2>1 DEF WheelCommits, WheelKept, FrameInv, WheelInv
        <3>2. \A r \in Rows : r # pause_row => slots'[r] = slots[r]
            BY <2>1 DEF WheelCommits, FrameInv, TypeOK
        <3> QED BY <3>1, <3>2
    <2>2. CASE ~(CommandsOrEditor /\ WheelCommits)
        <3>1. slots' = slots
            BY <2>2 DEF Next, GameFrame, InputUpdate, HandleMenu, EditorMode,
               CommandsOrEditor, RunBindings, EditorPage, PageIdle, WheelOnArrow, WheelOpens,
               editorVars
        <3> QED BY <3>1
    <2> QED BY <2>1, <2>2
<1> QED BY <1>1, FrameInvariant, PTL DEF Spec, CommitOnShownPage

=============================================================================
