-------------------------------- MODULE MCKzMenus --------------------------------
(* The menus side by side: the watches page, the keyboard, an item with a  *)
(* value, the tree of pages and their grids, the file menu, the debug      *)
(* menus.  A behavior is the behavior of one, the others stay as they began*)
EXTENDS KzWatches, KzKeyboard, KzWidgets, KzPages, KzFiles, KzDebug

(* Two rows, so that one has another below it; types of one byte and two,  *)
(* and an address in and out of range that only one of them is aligned to. *)
MCProfiles == {<<>>, <<[id |-> 1, address |-> 3, type |-> "u8", floating |-> TRUE]>>}
MCDataSizes == [u8 |-> 1, u16 |-> 2]

(* A name that fills the field, and a field that is cleared. *)
MCOwnerTexts == {<<>>, <<"_", "a">>}

(* The options of a list are counted from 0, like the array. *)
MCOptions == [i \in 0..2 |-> CASE i = 0 -> 7 [] i = 1 -> 0 [] i = 2 -> 3]

(* Two rows of memory in a RAM of four pages, two types of up to two       *)
(* actors, and a set of flags longer and one shorter than the page.        *)
MCAddresses == {67, 106}
MCActor(type, n) == 64 + 16 * type + 8 * n
MCSizes == <<4, 1>>

-----------------------------------------------------------------------------
VARIABLE shows

menusVars == <<WatchVars, KeyVars, WidgetVars, PageVars, FileVars, DebugVars, shows>>

(* What begins in several ways begins in one where it stays. *)
MenusInit ==
    /\ WatchInit /\ KeyInit /\ WidgetInit /\ PageInit /\ FilesInit /\ DebugInit
    /\ shows \in {"watches", "keyboard", "widget", "pages", "files", "debug"}
    /\ shows # "widget" => kind = "list" /\ bound = 0
    /\ shows # "debug" => obj_cnt = 0 /\ \A t \in ActorTypes : actor_count[t] = 0

WatchesPage == shows = "watches" /\ WatchNext
               /\ UNCHANGED <<KeyVars, WidgetVars, PageVars, FileVars, DebugVars, shows>>
Keyboard    == shows = "keyboard" /\ KeyNext
               /\ UNCHANGED <<WatchVars, WidgetVars, PageVars, FileVars, DebugVars, shows>>
Widget      == shows = "widget" /\ WidgetNext
               /\ UNCHANGED <<WatchVars, KeyVars, PageVars, FileVars, DebugVars, shows>>
PageTree    == shows = "pages" /\ PageNext
               /\ UNCHANGED <<WatchVars, KeyVars, WidgetVars, FileVars, DebugVars, shows>>
FileMenu    == shows = "files" /\ FilesNext
               /\ UNCHANGED <<WatchVars, KeyVars, WidgetVars, PageVars, DebugVars, shows>>
DebugMenu   == shows = "debug" /\ DebugNext
               /\ UNCHANGED <<WatchVars, KeyVars, WidgetVars, PageVars, FileVars, shows>>

MenusSpec ==
    MenusInit /\ [][\/ WatchesPage \/ Keyboard \/ Widget \/ PageTree \/ FileMenu \/ DebugMenu]_menusVars
=============================================================================
