------------------------------ MODULE MCKzMachine ------------------------------
(* What lies below the menus, side by side: the two heaps, the emulator's  *)
(* tree and blocks of recompiled code, the views of collision and hitboxes *)
(* and their display lists, the settings in flash, memfiles and positions. *)
(* None of them looks at another one: a behavior is the behavior of one,   *)
(* and the others stay as they began.                                      *)
EXTENDS MCHbHeap, KzMem, KzVcTree, KzVcHeap, KzColView, KzDisplay, KzSettings, KzMemfiles

(* The regions of the WiiVC build in its order, the last one between the   *)
(* two frame buffers, without a gap on either side.                        *)
MCHeapStart == <<1, 17, 7>>
MCHeapSize == <<6, 6, 10>>

(* One function below, six inside kz's code, one at the very end of the    *)
(* game's code and one behind it.                                          *)
MCFuncs == {<<10 * k, 10 * k + 5>> : k \in {1, 3, 4, 5, 6, 7, 8, 11, 12}}

(* Batches of four triangles and of two outlines, scenes of up to seven    *)
(* polygons, so that several batches are filled and the last is broken off.*)
MCTypes == {{}, {"hookshot", "exit"}, {"wall_damage"}}

(* Two profiles and one watch; the flash holds a profile of another version*)
(* or one without the magic, or one that freezes time.                     *)
MCFound(version, valid, cheats) ==
    [version |-> version, valid |-> valid,
     data |-> [watch_cnt |-> 1, watches |-> <<"rupees">>, cheats |-> cheats, turbo_type |-> "TOGGLE"]]
MCFlash == {MCFound(FALSE, FALSE, {}), MCFound(TRUE, FALSE, {}), MCFound(TRUE, TRUE, {"freeze"})}
MCSpeeds == {0}
MCCheats == {"freeze", "turbo"}
MCLabels == {"rupees"}

(* Two scenes, one of them with two exits, the other with a chest; on the  *)
(* card are a memfile of this version and one of another.                  *)
MCExits == {1, 2, 3}
MCSceneOf == <<"town", "town", "swamp">>
MCFlags == [town |-> {}, swamp |-> {"chest"}]
MCCard == {[z2_version |-> v, exit |-> 3, scene |-> "swamp", flags |-> {}] : v \in BOOLEAN}

-----------------------------------------------------------------------------
VARIABLE runs

allVars == <<vars, MemVars, VcTreeVars, VcHeapVars, ColVars, DisplayVars, SettingsVars,
             MemfileVars, runs>>

(* What begins in several ways begins in one where it stays. *)
MachineInit ==
    /\ Init /\ MemInit /\ VcTreeInit /\ VcHeapInit /\ ColInit /\ DisplayInit
    /\ SettingsInit /\ MemfilesInit
    /\ runs \in {"hb_heap", "mem", "tree", "blocks", "views", "lists", "settings", "memfiles"}
    /\ runs # "views" => ~col_view.line /\ ~col_view.red /\ ~col_view.upd
                         /\ \A s \in Scenes : built.scene = scene_index
    /\ runs # "lists" => ~col_view_red
    /\ runs # "settings" => timespeed = 0 /\ \A p \in ProfilesOf : flash[p] = MCFound(FALSE, FALSE, {})
    /\ runs # "memfiles" => z2_file_exit = 1

HbHeaps  == runs = "hb_heap" /\ Next
            /\ UNCHANGED <<MemVars, VcTreeVars, VcHeapVars, ColVars, DisplayVars, SettingsVars,
                           MemfileVars, runs>>
MemHeaps == runs = "mem" /\ MemNext
            /\ UNCHANGED <<vars, VcTreeVars, VcHeapVars, ColVars, DisplayVars, SettingsVars,
                           MemfileVars, runs>>
VcTree   == runs = "tree" /\ VcTreeNext
            /\ UNCHANGED <<vars, MemVars, VcHeapVars, ColVars, DisplayVars, SettingsVars, MemfileVars, runs>>
VcBlocks == runs = "blocks" /\ VcHeapNext
            /\ UNCHANGED <<vars, MemVars, VcTreeVars, ColVars, DisplayVars, SettingsVars, MemfileVars, runs>>
ViewsRun == runs = "views" /\ ColNext
            /\ UNCHANGED <<vars, MemVars, VcTreeVars, VcHeapVars, DisplayVars, SettingsVars, MemfileVars, runs>>
ListsRun == runs = "lists" /\ do_poly_list
            /\ UNCHANGED <<vars, MemVars, VcTreeVars, VcHeapVars, ColVars, SettingsVars, MemfileVars, runs>>
Profiles == runs = "settings" /\ SettingsNext
            /\ UNCHANGED <<vars, MemVars, VcTreeVars, VcHeapVars, ColVars, DisplayVars, MemfileVars, runs>>
Memfiles == runs = "memfiles" /\ MemfilesNext
            /\ UNCHANGED <<vars, MemVars, VcTreeVars, VcHeapVars, ColVars, DisplayVars, SettingsVars, runs>>

(* Every function has been recompiled, the list is complete. *)
NothingLeft == runs \in {"hb_heap", "mem", "tree", "lists"} /\ UNCHANGED allVars

MachineSpec ==
    MachineInit /\ [][\/ HbHeaps \/ MemHeaps \/ VcTree \/ VcBlocks
                      \/ ViewsRun \/ ListsRun \/ Profiles \/ Memfiles \/ NothingLeft]_allVars
=============================================================================
