-------------------------------- MODULE KzPages --------------------------------
(***************************************************************************)
(* The pages of kz's menu: where each puts its items, how the directions   *)
(* move the cursor over them (menu_navigate of src/src/menu.c), and how    *)
(* pages are entered and left.  What the items do is the other modules'    *)
(* subject; an item that takes the directions for itself while it is being *)
(* edited is KzWidgets's.                                                  *)
(***************************************************************************)
EXTENDS Integers, Sequences, FiniteSets

CONSTANTS WatchRows,    \* rows of the watches page
          DialogRows,   \* rows of the page that asks for a file
          CategorySize  \* scenes of a category, or entrances of a scene

(* The buttons that scroll the rows of a file dialog stand beside the first*)
(* and the last, which must not be one.                                    *)
ASSUME PagesAssumption ==
    WatchRows \in Nat /\ DialogRows \in Nat \ {0, 1} /\ CategorySize \in Nat \ {0}

VARIABLES path,     \* the pages from the main menu on: page and cursor of each
          usable    \* items of the last one that are interactive and enabled

PageVars == <<path, usable>>

-----------------------------------------------------------------------------
(* An item's cell and its offset in pixels.                                *)
At(x, y) == <<x, y, 0, 0>>
Off(x, y, dx, dy) == <<x, y, dx, dy>>
Each(n, Cell(_)) == [k \in 1..n |-> Cell(k - 1)]
Column(n) == LET Cell(i) == At(0, i) IN Each(n, Cell)

(* The items of a menu with cells and padding of so many pixels together.  *)
menu_item_x(cell, w) == cell[1] * w + cell[3]
menu_item_y(cell, h) == cell[2] * h + cell[4]
Placed(w, h, cells) ==
    [k \in DOMAIN cells |-> <<menu_item_x(cells[k], w), menu_item_y(cells[k], h)>>]

main_menu == Placed(8, 8, Column(11))
warps_menu == Placed(8, 9, Column(10))
category_menu == Placed(8, 9, Column(CategorySize + 1))
cheats_menu == Placed(8, 10, Column(14))

scene_menu == Placed(8, 10, Column(3) \o <<At(0, 5), At(0, 6), At(13, 6)>>)
collision_menu ==
    Placed(8, 10, <<At(0, 0), At(0, 1), At(2, 2), At(2, 3), At(2, 4), At(2, 5),
                    At(0, 6), At(0, 7), At(2, 8), At(0, 9)>>)
camera_menu == Placed(8, 10, Column(4))

(* The name can only be chosen when the slot holds a state.                *)
states_menu ==
    Placed(8, 8, <<At(0, 0), At(10, 1), At(14, 1), At(0, 2), At(0, 4), At(4, 4), At(8, 4)>>)

inventory_menu == Placed(8, 8, Column(5))
items_menu ==
    LET Rest(i)    == At((i % 5) + 1, (i \div 5) + 1)
        Bottle(i)  == At(i + 1, 4)
        Trade(i)   == At(6, i + 1)
        Upgrade(i) == At(0, i + 1)
    IN Placed(21, 21, <<At(0, 0)>> \o Each(15, Rest) \o Each(6, Bottle)
                        \o Each(3, Trade) \o Each(3, Upgrade))
masks_menu ==
    LET Mask(i) == At(i % 6, (i \div 6) + 1) IN Placed(21, 21, <<At(0, 0)>> \o Each(24, Mask))
quest_menu ==
    LET Remains(i) == Off(i, 9, i * 10, 12)
        Owl(i)     == Off(i % 5, (i \div 5) + 11, (i % 5) * 6, (i \div 5) * 9 + 21)
        Song(i)    == Off((i % 5) + 6, (i \div 5) + 11, ((i % 5) + 6) * 6, (i \div 5) * 9 + 21)
    IN Placed(8, 9, <<At(0, 0), At(15, 1), At(0, 2), At(0, 3), At(0, 4), At(15, 5), At(15, 6),
                      At(15, 7), Off(0, 8, 0, 5), Off(1, 8, 10, 5), Off(2, 8, 20, 5)>>
                    \o Each(5, Remains) \o Each(11, Owl) \o Each(13, Song))
amounts_menu ==
    LET Ammo(i) == Off((i % 3) * 3 + 1, (i \div 3) + 1, 5, 2)
    IN Placed(16, 16, <<At(0, 0)>> \o Each(7, Ammo)
                        \o <<Off(4, 3, 5, 2), Off(7, 3, 5, 2), Off(1, 4, 5, 2)>>)

equips_menu ==
    LET Sword(i) == Off(i, 1, 5 * i, 0)
        Shield(i) == Off(i, 2, 5 * i, 5)
    IN Placed(16, 16, <<At(0, 0)>> \o Each(3, Sword) \o Each(2, Shield)
                        \o <<Off(0, 3, 0, 8), Off(1, 3, 6, 11), Off(2, 3, 4, 21), Off(3, 3, 2, 11)>>)

file_menu ==
    Placed(8, 10, Column(4) \o <<At(12, 4), At(12, 5), At(12, 6), At(12, 7)>>)

settings_menu ==
    Placed(8, 10, <<At(0, 0), At(12, 1), At(14, 1), At(0, 2), At(0, 3), At(0, 4), At(0, 5), At(0, 6),
                    At(16, 6), At(0, 7), At(16, 7), At(0, 8), At(16, 8), At(0, 9), At(0, 10), At(0, 12)>>)
commands_menu ==
    LET Row(i) == At(IF i % 2 = 0 THEN 2 ELSE 22, (i \div 2) + 2)
    IN Placed(8, 9, <<At(0, 0), At(0, 2), At(0, 14)>> \o Each(26, Row))
settings_page2 ==
    Placed(8, 10, <<At(0, 0), At(15, 1), At(17, 1), At(0, 2), At(4, 2), At(15, 4), At(15, 5),
                    At(17, 5), At(0, 6), At(4, 6)>>)

debug_menu == Placed(8, 10, Column(5))
(* Ten rows of eight bytes, with a number for each byte, half word or word.*)
memory_menu ==
    LET Cell(idx) == At(10 + 2 * (idx % 8), 3 + idx \div 8)
    IN Placed(9, 13, <<At(0, 0), At(0, 1), At(10, 1), At(0, 3), At(0, 12)>> \o Each(80, Cell))
objects_menu == Placed(8, 10, <<At(0, 0), At(4, 1), At(12, 1), At(20, 1)>>)
actors_menu ==
    Placed(8, 10, <<At(0, 0), At(6, 1), At(0, 2), At(3, 2), At(0, 3), At(0, 6), At(6, 6), At(11, 6),
                    At(18, 6), At(9, 8), At(9, 9), At(9, 10), At(14, 10), At(19, 10), At(9, 11),
                    At(14, 11), At(19, 11), At(0, 12), At(7, 12)>>)
flags_menu ==
    LET Flag(i) == At((i % 16) + 9, (i \div 16) + 3)
    IN Placed(8, 8, <<At(0, 0), At(9, 1), At(11, 1), At(0, 3), At(0, 18)>> \o Each(256, Flag))

(* Rows of keys below "accept" and the line that is typed into.            *)
menu_keyboard ==
    LET Key(row, n) == [k \in 1..n |-> At(k - 1, row + 3)]
    IN Placed(16, 16, <<At(0, 0), At(0, 2), At(0, 1)>>
                        \o Key(0, 13) \o Key(1, 13) \o Key(2, 11) \o Key(3, 12))

(* The add button lies below the rows, and before them in the list; of a   *)
(* row's items the one that moves the watch can be disabled.               *)
watches_menu ==
    LET Cell(i) == LET y == 1 + 2 * (i \div 6) IN
                   <<At(0, y), At(1, y), At(2, y), At(4, y), At(14, y), At(4, y + 1)>>[(i % 6) + 1]
    IN Placed(8, 8, <<At(0, 0), At(0, 1 + 2 * WatchRows)>> \o Each(6 * WatchRows, Cell))

(* Where update_view puts the rows, below the file's name or without it.   *)
file_dialog(y) ==
    LET Row(i) == At(1, y + i)
    IN Placed(8, 8, <<At(0, 0), At(0, 1), At(0, 3), At(0, 4), At(8, 4), At(0, 5),
                      At(0, y), At(0, y + DialogRows - 1)>> \o Each(DialogRows, Row))

Pages ==
    [main |-> main_menu, warps |-> warps_menu, category |-> category_menu, scene_entrances |-> category_menu,
     cheats |-> cheats_menu, scene |-> scene_menu, collision |-> collision_menu, camera |-> camera_menu,
     states |-> states_menu, watches |-> watches_menu, inventory |-> inventory_menu, items |-> items_menu,
     masks |-> masks_menu, quest |-> quest_menu, amounts |-> amounts_menu, equips |-> equips_menu,
     file |-> file_menu, debug |-> debug_menu, memory |-> memory_menu, objects |-> objects_menu,
     actors |-> actors_menu, flags |-> flags_menu, settings |-> settings_menu, commands |-> commands_menu,
     page2 |-> settings_page2, keyboard |-> menu_keyboard, load |-> file_dialog(3), save |-> file_dialog(6)]

(* <<page, item, page entered>>: submenus, and what asks for text or a file*)
Doors ==
    {<<"main", 2, "warps">>, <<"main", 3, "cheats">>, <<"main", 4, "scene">>, <<"main", 5, "states">>,
     <<"main", 6, "watches">>, <<"main", 7, "inventory">>, <<"main", 8, "equips">>, <<"main", 9, "file">>,
     <<"main", 10, "debug">>, <<"main", 11, "settings">>, <<"category", 2, "scene_entrances">>,
     <<"scene", 2, "collision">>, <<"scene", 3, "camera">>,
     <<"inventory", 2, "items">>, <<"inventory", 3, "masks">>, <<"inventory", 4, "quest">>,
     <<"inventory", 5, "amounts">>, <<"debug", 2, "memory">>, <<"debug", 3, "objects">>,
     <<"debug", 4, "actors">>, <<"debug", 5, "flags">>, <<"actors", 5, "memory">>,
     <<"settings", 15, "commands">>, <<"settings", 16, "page2">>,
     <<"states", 4, "keyboard">>, <<"states", 5, "save">>, <<"states", 6, "load">>,
     <<"page2", 4, "save">>, <<"page2", 5, "load">>, <<"page2", 9, "save">>, <<"page2", 10, "load">>,
     <<"save", 3, "keyboard">>, <<"save", 6, "keyboard">>}
    \cup {<<"warps", i, "category">> : i \in 2..10}
    \cup {<<"watches", 2 + 6 * i, "keyboard">> : i \in 1..WatchRows}

(* What can be usable of a page: a name without a state is not, nor is the *)
(* button that moves a watch that does not float; of the dialog for a file *)
(* what its mode, the disk and the number of entries leave; of the memory  *)
(* table there is a number for each unit of the size shown; and of the     *)
(* flags' switches those of the bytes that are left of the set from the    *)
(* offset on, which refresh_flags_table takes from the set before.         *)
Rows(k) == {8 + i : i \in 1..k}
CellsOf(size) == {6 + idx : idx \in {byte \in 0..79 : byte % size = 0}}
SwitchesOf(bytes) == {5 + i : i \in 1..(8 * bytes)}
BytesLeft == {0, 2, 3, 4, 6, 8, 10, 12, 14, 16, 32}
Views(page) ==
    LET all == DOMAIN Pages[page] IN
    CASE page = "states"  -> {all, all \ {4}}
      [] page = "watches" -> {all \ {2 + 6 * (i - 1) + 3 : i \in fixed} : fixed \in SUBSET (1..WatchRows)}
      [] page = "load"    -> {{1, 2}} \cup {{1, 2} \cup Rows(k) : k \in 0..DialogRows}
                             \cup {{1, 2, 7, 8} \cup Rows(DialogRows)}
      [] page = "save"    -> {{1, 2}} \cup {(1..6) \cup Rows(k) : k \in 0..DialogRows} \cup {all}
      [] page = "memory"  -> {(1..5) \cup CellsOf(size) : size \in {1, 2, 4}}
      [] page = "flags"   -> {(1..5) \cup SwitchesOf(bytes) : bytes \in BytesLeft}
      [] OTHER            -> {all}

-----------------------------------------------------------------------------
Navs == {"up", "down", "left", "right"}

(* Distance of an item along the direction, and across it.                 *)
pa(from, to, nav) ==
    CASE nav = "left" -> from[1] - to[1] [] nav = "right" -> to[1] - from[1]
      [] nav = "up"   -> from[2] - to[2] [] nav = "down"  -> to[2] - from[2]
Abs(n) == IF n < 0 THEN -n ELSE n
pe(from, to, nav) == IF nav \in {"up", "down"} THEN Abs(to[1] - from[1]) ELSE Abs(to[2] - from[2])

Precedes(s, t) ==
    \/ s[1] < t[1]
    \/ s[1] = t[1] /\ (s[2] < t[2] \/ (s[2] = t[2] /\ s[3] <= t[3]))
Foremost(triples) == (CHOOSE s \in triples : \A t \in triples : Precedes(s, t))[3]

NavigatedSlip(points, items, at, nav) ==
    LET here  == points[at]
        ahead == {i \in items : pa(here, points[i], nav) >= 0}
    IN IF ahead # {}
       THEN Foremost({<<pe(here, points[i], nav), pa(here, points[i], nav), i>> : i \in ahead})
       ELSE at
(* The item ahead that is least off the line, the nearest of those; if     *)
(* there is none, the one farthest behind.                                 *)
Navigated(points, items, at, nav) ==
    LET here   == points[at]
        ahead  == {i \in items : pa(here, points[i], nav) > 0}
        behind == {i \in items : pa(here, points[i], nav) < 0}
    IN IF ahead # {}
       THEN Foremost({<<pe(here, points[i], nav), pa(here, points[i], nav), i>> : i \in ahead})
       ELSE IF behind # {}
       THEN Foremost({<<pa(here, points[i], nav), pe(here, points[i], nav), i>> : i \in behind})
       ELSE at

(* The same for every item of every page, once.                            *)
Moves ==
    [page \in DOMAIN Pages |->
        [view \in Views(page) |->
            [at \in DOMAIN Pages[page] |-> {Navigated(Pages[page], view, at, nav) : nav \in Navs}]]]

Here == path[Len(path)]

menu_navigate ==
    /\ \E to \in Moves[Here.page][usable][Here.at] : path' = [path EXCEPT ![Len(path)].at = to]
    /\ UNCHANGED usable

(* A page remembers its cursor, which can have been left on any item; the  *)
(* keyboard and the dialog for a file start at their first.  By an actor's *)
(* button the table of memory is built anew under its cursor, which can    *)
(* then point at freed memory; here it is on one of the items all the same.*)
Enter ==
    \E door \in Doors :
        /\ door[1] = Here.page /\ door[2] = Here.at /\ Here.at \in usable
        /\ \E view \in Views(door[3]) :
              /\ usable' = view
              /\ \E at \in IF door[3] \in {"keyboard", "load", "save"} THEN {1} ELSE view :
                    path' = Append(path, [page |-> door[3], at |-> at])

(* By the page's first item, or from anywhere by the command or an answer. *)
menu_return ==
    /\ Len(path) > 1
    /\ path' = SubSeq(path, 1, Len(path) - 1)
    /\ usable' \in Views(path[Len(path) - 1].page)

(* What the items and the commands do changes what is usable.              *)
Changes ==
    /\ usable' \in Views(Here.page)
    /\ UNCHANGED path

PageInit == path = <<[page |-> "main", at |-> 1]>> /\ usable = DOMAIN main_menu
PageNext == menu_navigate \/ Enter \/ menu_return \/ Changes
PageSpec == PageInit /\ [][PageNext]_PageVars

-----------------------------------------------------------------------------
(* Where so many presses of the directions get to from a set of items: as  *)
(* far as half of them from it, and the others from what those reach.      *)
LedBy(moves) ==
    LET items == DOMAIN moves
        within[n \in 0..Cardinality(items)] ==
            [from \in SUBSET items |->
                IF n = 0 THEN from
                ELSE IF n = 1 THEN from \cup UNION {moves[i] : i \in from}
                ELSE LET half == within[n \div 2][from]
                     IN  IF half = from THEN from ELSE within[n - n \div 2][half]]
    IN within

(* Where they get to from an item, in as many presses as there are items.  *)
LedTo(moves, at) == LedBy(moves)[Cardinality(DOMAIN moves)][{at}]

(* Wherever the cursor is left, even on an item that has been disabled     *)
(* under it, the four directions lead to every item that can be used: the  *)
(* rule prefers what is straight ahead over what is near, and no page has  *)
(* an item it always passes by.                                            *)
EveryItemReached == usable \subseteq LedTo(Moves[Here.page][usable], Here.at)
=============================================================================
