------------------------------- MODULE KzFiles -------------------------------
(***************************************************************************)
(* The file menu (src/src/menu_file.c) on the calls that src/src/sys.c     *)
(* passes to the SD card: what its rows show while the user walks through  *)
(* directories, scrolls, makes a folder, and the card is pulled out and    *)
(* put in.                                                                 *)
(*                                                                         *)
(* An entry of a directory is another directory, ".." or a file; names are *)
(* left out, so that directories come before files in no further order.    *)
(***************************************************************************)
EXTENDS Integers, Sequences, SequencesExt

CONSTANTS FILE_ROWS,
          TopFiles,      \* files with the extension in the top directory
          SubFiles,      \* and in its subdirectory
          NewFolders     \* folders the user can still make

ASSUME FilesAssumption ==
    FILE_ROWS \in Nat \ {0} /\ TopFiles \in Nat /\ SubFiles \in Nat /\ NewFolders \in Nat

VARIABLES
    card,               \* "in" or "out"
    folders,            \* folders made so far, by the directory they are in
    cwd,                \* the directory, of the top one and its subdirectory
    dir_files,          \* the entries listed
    file_menu_offset,
    file_rows,          \* rows that are enabled
    file_buttons,       \* buttons that are enabled
    file_menu_mode,
    file_cursor,        \* selected_item: a row or a button
    file_answer         \* the last entry the callback was given

FileVars == <<card, folders, cwd, dir_files, file_menu_offset, file_rows, file_buttons,
              file_menu_mode, file_cursor, file_answer>>

Item(name) == <<name, 0>>
RowItem(row) == <<"row", row>>
TheRows == 0..(FILE_ROWS - 1)
SaveButtons == {"entry", "accept", "clear", "new folder"}
ScrollButtons == {"up", "down"}
AlwaysEnabled == {"return", "reset disk"}
DirEntries == {"..", "sub", "folder", "file"}

(* readdir: what the extension leaves of a directory, sorted.              *)
readdir(dir, made) ==
    (IF dir = "top" THEN <<"sub">> ELSE <<"..">>)
    \o [i \in 1..made[dir] |-> "folder"]
    \o [i \in 1..(IF dir = "top" THEN TopFiles ELSE SubFiles) |-> "file"]

-----------------------------------------------------------------------------
(* Without a card opendir fails: the list is empty, nothing is enabled.    *)
update_view(dir, mode) ==
    LET list == IF card' = "in" THEN readdir(dir, folders') ELSE <<>> IN
    /\ dir_files' = list
    /\ file_rows' = {r \in TheRows : r < Len(list)}
    /\ file_buttons' =
           IF card' = "out" THEN {}
           ELSE (IF mode = "SAVE" THEN SaveButtons ELSE {})
                \cup (IF Len(list) > FILE_ROWS THEN ScrollButtons ELSE {})

FilesInit ==
    /\ card = "in" /\ folders = [d \in {"top", "sub"} |-> 0] /\ cwd = "top"
    /\ dir_files = <<>> /\ file_menu_offset = 0 /\ file_rows = {} /\ file_buttons = {}
    /\ file_menu_mode = "none" /\ file_cursor = Item("return") /\ file_answer = "none"

On(name) == file_cursor = Item(name)
Open == file_menu_mode # "none"

menu_file_get ==
    /\ ~Open
    /\ file_menu_mode' \in {"LOAD", "SAVE"}
    /\ file_cursor' = Item("return") /\ file_menu_offset' = 0
    /\ UNCHANGED <<card, folders, cwd, file_answer>>
    /\ update_view(cwd, file_menu_mode')

(* The card as the console sees it: where its directory was is forgotten.  *)
reset_disk_onactivate ==
    /\ Open /\ On("reset disk")
    /\ card' \in {"in", "out"} /\ cwd' = "top" /\ UNCHANGED folders
    /\ update_view("top", file_menu_mode)
    /\ file_menu_offset' = 0
    /\ UNCHANGED <<file_menu_mode, file_cursor, file_answer>>

CardPulled ==
    /\ card = "in" /\ card' = "out"
    /\ UNCHANGED <<folders, cwd, dir_files, file_menu_offset, file_rows, file_buttons,
                   file_menu_mode, file_cursor, file_answer>>

(* The callback runs, then the menu is left.                               *)
return_path(entry) ==
    /\ file_answer' = entry /\ file_menu_mode' = "none"
    /\ UNCHANGED <<card, folders, cwd, dir_files, file_menu_offset, file_rows, file_buttons, file_cursor>>

accept_onactivate == Open /\ On("accept") /\ return_path("named")

(* Past the end of the list is whatever was there before it was cleared.   *)
EntryAt(k) == IF k < Len(dir_files) THEN {dir_files[k + 1]} ELSE DirEntries

ChdirOffsetSlip == file_menu_offset
ChdirOffset == 0
(* Where chdir leads: nowhere without a card, and nowhere if the entry was *)
(* of another directory.  A folder the user made is like the subdirectory. *)
Reached(entry) ==
    LET target == IF entry = ".." THEN "top" ELSE "sub"
    IN IF card = "out" THEN {cwd}
       ELSE IF file_cursor[2] + file_menu_offset < Len(dir_files) THEN {target} ELSE {cwd, target}

(* The menu stays on the row, also if the row is disabled by then.         *)
menu_file_onactivate ==
    /\ Open /\ file_cursor[1] = "row"
    /\ \E entry \in EntryAt(file_cursor[2] + file_menu_offset) :
          \/ /\ entry # "file"
             /\ \E dir \in Reached(entry) :
                   /\ cwd' = dir
                   /\ UNCHANGED <<card, folders>> /\ update_view(dir, file_menu_mode)
             /\ file_menu_offset' = ChdirOffset
             /\ UNCHANGED <<file_menu_mode, file_cursor, file_answer>>
          \/ /\ entry = "file" /\ file_menu_mode = "SAVE"
             /\ file_cursor' = Item("accept")
             /\ UNCHANGED <<card, folders, cwd, dir_files, file_menu_offset, file_rows,
                            file_buttons, file_menu_mode, file_answer>>
          \/ /\ entry = "file" /\ file_menu_mode = "LOAD"
             /\ return_path(entry)

(* The keyboard answers.  The offset stays.                                *)
new_folder_event ==
    /\ Open /\ On("new folder")
    /\ folders' = (IF card = "in" /\ folders["top"] + folders["sub"] < NewFolders
                   THEN [folders EXCEPT ![cwd] = @ + 1] ELSE folders)
    /\ UNCHANGED card
    /\ update_view(cwd, file_menu_mode)
    /\ UNCHANGED <<cwd, file_menu_offset, file_menu_mode, file_cursor, file_answer>>

Hidden == Len(dir_files) - FILE_ROWS
file_menu_up ==
    On("up") /\ file_menu_offset' = IF file_menu_offset = 0 THEN Hidden ELSE file_menu_offset - 1
file_menu_down ==
    On("down") /\ file_menu_offset' = IF file_menu_offset >= Hidden THEN 0 ELSE file_menu_offset + 1

Scrolled ==
    /\ Open /\ (file_menu_up \/ file_menu_down)
    /\ UNCHANGED <<card, folders, cwd, dir_files, file_rows, file_buttons, file_menu_mode,
                   file_cursor, file_answer>>

(* The cursor goes to another item that is enabled (KzPages).              *)
FileCursorMoved ==
    /\ Open
    /\ file_cursor' \in {Item(name) : name \in AlwaysEnabled \cup file_buttons}
                        \cup {RowItem(row) : row \in file_rows}
    /\ UNCHANGED <<card, folders, cwd, dir_files, file_menu_offset, file_rows, file_buttons,
                   file_menu_mode, file_answer>>

FileMenuLeft ==
    /\ Open /\ file_menu_mode' = "none"
    /\ UNCHANGED <<card, folders, cwd, dir_files, file_menu_offset, file_rows, file_buttons,
                   file_cursor, file_answer>>

FilesNext ==
    \/ menu_file_get \/ reset_disk_onactivate \/ CardPulled \/ accept_onactivate
    \/ menu_file_onactivate \/ new_folder_event \/ Scrolled \/ FileCursorMoved \/ FileMenuLeft
FilesSpec == FilesInit /\ [][FilesNext]_FileVars

-----------------------------------------------------------------------------
(* Whatever directories are entered and left, folders made and cards       *)
(* pulled, with the list scrolled or not: every row that is drawn has an   *)
(* entry of the list to draw, and no entry past the last row is out of the *)
(* scroll buttons' reach.                                                  *)
RowsShowEntries ==
    Open =>
    /\ \A row \in file_rows : row + file_menu_offset < Len(dir_files)
    /\ Len(dir_files) > FILE_ROWS => ScrollButtons \subseteq file_buttons /\ file_rows = TheRows
=============================================================================
