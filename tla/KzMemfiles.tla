------------------------------ MODULE KzMemfiles ------------------------------
(***************************************************************************)
(* Memfiles and saved positions (src/src/commands.c), the ways the program *)
(* asks the game for a scene change (commands.c and the warps menu,        *)
(* src/src/kz_warps_menu.c), and the rows of the settings page that choose *)
(* a slot, export and import (src/src/kz_settings_menu.c).                 *)
(*                                                                         *)
(* Of the file the model keeps the exit link came through; of a scene, its *)
(* flags.  A scene change asked for takes effect when the frame is over.   *)
(***************************************************************************)
EXTENDS Integers

CONSTANTS KZ_MEMFILE_MAX, KZ_POSITION_MAX,
          Exits, SceneOf,   \* entrances and the scene each leads to
          Flags,            \* the flags a scene has, scene by scene
          Places,           \* places in a scene
          CardFiles,        \* memfiles and positions on the SD card
          NOTHING           \* an empty slot

ASSUME MemfilesAssumption ==
    /\ KZ_MEMFILE_MAX \in Nat \ {0} /\ KZ_POSITION_MAX \in Nat \ {0}
    /\ Exits # {} /\ DOMAIN SceneOf = Exits /\ NOTHING \notin Places

VARIABLES
    memfile, memfile_slot,
    position_save, pos_slot,
    memfile_action,   \* of the settings
    z2_file_exit, z2_scene, z2_flags, link_pos,
    entrance_index,   \* where a scene change leads
    change,           \* the scene change that was asked for
    file_dialog       \* the file menu that is up, and for what

MemfileVars == <<memfile, memfile_slot, position_save, pos_slot, memfile_action, z2_file_exit,
                 z2_scene, z2_flags, link_pos, entrance_index, change, file_dialog>>
slotVars == <<memfile, memfile_slot, position_save, pos_slot, memfile_action>>
gameVars == <<z2_file_exit, z2_scene, z2_flags, link_pos, entrance_index, change>>

MemfilesInit ==
    /\ memfile = [s \in 0..(KZ_MEMFILE_MAX - 1) |-> NOTHING] /\ memfile_slot = 0
    /\ position_save = [s \in 0..(KZ_POSITION_MAX - 1) |-> NOTHING] /\ pos_slot = 0
    /\ memfile_action = "NONE"
    /\ z2_file_exit \in Exits /\ z2_scene = SceneOf[z2_file_exit] /\ z2_flags = {}
    /\ link_pos \in Places /\ entrance_index = z2_file_exit
    /\ change = "none" /\ file_dialog = "none"

-----------------------------------------------------------------------------
command_save_memfile ==
    /\ memfile' = [memfile EXCEPT ![memfile_slot] =
           [z2_version |-> TRUE, exit |-> z2_file_exit, scene |-> z2_scene, flags |-> z2_flags]]
    /\ UNCHANGED <<memfile_slot, position_save, pos_slot, memfile_action, file_dialog>>
    /\ UNCHANGED gameVars

VoidsSlip(saved) == memfile_action = "VOID"
Voids(saved) == z2_file_exit # saved.exit \/ memfile_action = "VOID"

command_load_position ==
    link_pos' = IF position_save[pos_slot] = NOTHING THEN link_pos ELSE position_save[pos_slot]

(* The exit is the file's, which may have been copied just before.         *)
command_void(exit) == entrance_index' = exit /\ change' = "play"

command_load_memfile ==
    LET saved == memfile[memfile_slot] IN
    /\ saved # NOTHING /\ saved.z2_version
    /\ z2_flags' = (IF saved.scene = z2_scene THEN saved.flags ELSE z2_flags)
    /\ z2_file_exit' = saved.exit
    /\ IF memfile_action = "POS" THEN command_load_position ELSE UNCHANGED link_pos
    /\ IF Voids(saved) THEN command_void(saved.exit) ELSE UNCHANGED <<entrance_index, change>>
    /\ UNCHANGED z2_scene
    /\ UNCHANGED <<slotVars, file_dialog>>

command_next_memfile == memfile_slot' = (memfile_slot + 1) % KZ_MEMFILE_MAX /\ UNCHANGED pos_slot
command_prev_memfile ==
    memfile_slot' = (memfile_slot + KZ_MEMFILE_MAX - 1) % KZ_MEMFILE_MAX /\ UNCHANGED pos_slot
command_next_position == pos_slot' = (pos_slot + 1) % KZ_POSITION_MAX /\ UNCHANGED memfile_slot
command_prev_position ==
    pos_slot' = (pos_slot + KZ_POSITION_MAX - 1) % KZ_POSITION_MAX /\ UNCHANGED memfile_slot

MemSlotSelected ==
    /\ command_next_memfile \/ command_prev_memfile \/ command_next_position \/ command_prev_position
    /\ UNCHANGED <<memfile, position_save, memfile_action, file_dialog>>
    /\ UNCHANGED gameVars

command_save_position ==
    /\ position_save' = [position_save EXCEPT ![pos_slot] = link_pos]
    /\ UNCHANGED <<memfile, memfile_slot, pos_slot, memfile_action, file_dialog>>
    /\ UNCHANGED gameVars

PositionLoaded ==
    /\ command_load_position
    /\ UNCHANGED <<slotVars, file_dialog, z2_file_exit, z2_scene, z2_flags, entrance_index, change>>

(* VOID and RELOAD lead to the file's exit, the warps menu changes it; the *)
(* last of them in a frame, or the title screen, is what the game does.    *)
SceneAsked ==
    /\ \/ command_void(z2_file_exit) /\ UNCHANGED z2_file_exit
       \/ change' = "title" /\ UNCHANGED <<z2_file_exit, entrance_index>>
       \/ \E entrance \in Exits : z2_file_exit' = entrance /\ command_void(entrance)
    /\ UNCHANGED <<slotVars, file_dialog, z2_scene, z2_flags, link_pos>>

(* The frame is over: the game does what it was asked, or lets link walk,  *)
(* open a chest or leave the scene by an exit.  On the title screen a file *)
(* is opened.                                                              *)
GamePlays ==
    /\ \/ /\ change = "play" /\ change' = "none"
          /\ z2_scene' = SceneOf[entrance_index] /\ z2_flags' \in SUBSET Flags[z2_scene']
          /\ link_pos' \in Places /\ UNCHANGED <<z2_file_exit, entrance_index>>
       \/ /\ change = "title" /\ change' = "none"
          /\ z2_file_exit' \in Exits /\ entrance_index' = z2_file_exit'
          /\ z2_scene' = SceneOf[entrance_index'] /\ z2_flags' = {} /\ link_pos' \in Places
       \/ /\ change = "none" /\ UNCHANGED change
          /\ z2_file_exit' \in Exits /\ entrance_index' = z2_file_exit'
          /\ z2_scene' = SceneOf[entrance_index'] /\ z2_flags' \in SUBSET Flags[z2_scene']
          /\ link_pos' \in Places
    /\ UNCHANGED <<slotVars, file_dialog>>

memfile_action_onlist ==
    /\ memfile_action' \in {"NONE", "VOID", "POS"} \ {memfile_action}
    /\ UNCHANGED <<memfile, memfile_slot, position_save, pos_slot, file_dialog>>
    /\ UNCHANGED gameVars

(* An export asks for the slot's contents when the menu opens, and takes   *)
(* them when the menu answers; nothing of kz changes.                      *)
DialogOpened ==
    /\ file_dialog = "none"
    /\ \/ memfile[memfile_slot] # NOTHING /\ file_dialog' = "export"
       \/ position_save[pos_slot] # NOTHING /\ file_dialog' = "export"
       \/ file_dialog' \in {"import memfile", "import position"}
    /\ UNCHANGED slotVars /\ UNCHANGED gameVars

do_import ==
    \/ /\ file_dialog = "import memfile"
       /\ \E file \in CardFiles : memfile' = [memfile EXCEPT ![memfile_slot] = file]
       /\ UNCHANGED position_save
    \/ /\ file_dialog = "import position"
       /\ \E place \in Places : position_save' = [position_save EXCEPT ![pos_slot] = place]
       /\ UNCHANGED memfile
    \/ UNCHANGED <<memfile, position_save>>

DialogAnswered ==
    /\ file_dialog # "none" /\ file_dialog' = "none"
    /\ do_import
    /\ UNCHANGED <<memfile_slot, pos_slot, memfile_action>> /\ UNCHANGED gameVars

MemfilesNext ==
    \/ command_save_memfile \/ command_load_memfile \/ MemSlotSelected \/ command_save_position
    \/ PositionLoaded \/ SceneAsked \/ GamePlays \/ memfile_action_onlist
    \/ DialogOpened \/ DialogAnswered
MemfilesSpec == MemfilesInit /\ [][MemfilesNext]_MemfileVars

-----------------------------------------------------------------------------
(* However warps, voids and memfiles of other scenes, or saved on the way  *)
(* between two, follow each other before the game acts on them, a scene    *)
(* change leads to the exit in the file, and without one link is already   *)
(* in the scene of that exit: no file is left in a scene it does not name. *)
(* The exits are what command_load_memfile compares, not the scenes.       *)
FileNamesScene ==
    /\ change = "play" => entrance_index = z2_file_exit
    /\ change = "none" => z2_scene = SceneOf[z2_file_exit]

(* USAGE.md on memfiles: "When a memfile is loaded in the same scene that  *)
(* the memfile was saved from, no action is taken", with neither of the    *)
(* options for voiding out and loading a position.                         *)
SameSceneTakesNoAction ==
    [][(/\ command_load_memfile
        /\ memfile[memfile_slot].scene = z2_scene /\ memfile_action = "NONE")
           => UNCHANGED <<entrance_index, change>>]_MemfileVars
=============================================================================
