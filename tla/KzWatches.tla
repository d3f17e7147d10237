------------------------------- MODULE KzWatches -------------------------------
(***************************************************************************)
(* The watches menu (src/src/kz_watches_menu.c) on the items and handlers  *)
(* of a menu (src/src/menu.c): a row of seven items for every watch, added *)
(* and removed while the menu is up, and rebuilt from a profile while it   *)
(* is not.  Labels are KzKeyboard's; where on the screen a watch is drawn  *)
(* is left out.                                                            *)
(***************************************************************************)
EXTENDS Integers, Sequences, FiniteSets, SequencesExt

CONSTANTS WATCHES_MAX,
          LOWEST, MEMMAX,  \* addresses a watch may have are in between
          Entries,         \* numbers the user enters for an address
          DataSizes,       \* size of each type, e.g. [u8 |-> 1, u16 |-> 2]
          U8,              \* the type prev_type starts with
          Profiles,        \* lists of watches an earlier session has saved
          STALE_MAX        \* bound of the model on handlers left behind

Types == DOMAIN DataSizes
Watch == [id : Nat, address : Int, type : Types, floating : BOOLEAN]

ASSUME WatchesAssumption ==
    /\ WATCHES_MAX \in Nat \ {0} /\ STALE_MAX \in Nat
    /\ U8 \in DOMAIN DataSizes /\ \A t \in DOMAIN DataSizes : DataSizes[t] \in Nat \ {0}
    /\ LOWEST \in Nat /\ MEMMAX \in Nat /\ LOWEST < MEMMAX /\ Entries \subseteq Nat
    /\ \A t \in DOMAIN DataSizes : LOWEST % DataSizes[t] = 0
    /\ \A profile \in Profiles : profile \in Seq(Watch) /\ Len(profile) <= WATCHES_MAX

VARIABLES
    watches,       \* kz.watches, each with an identity
    watch_rows,    \* the rows, with what their items show
    add_y,         \* y_cell of the add button
    item_events,   \* the handlers of the menu's items, in order
    selected_item,
    prev_addr, prev_type,
    shown          \* the watches menu is the one on the screen

WatchVars == <<watches, watch_rows, add_y, item_events, selected_item, prev_addr, prev_type, shown>>

(* The items of a row and, in the order they are added, their handlers: an *)
(* item's own and, if it has one, the row's.                               *)
RowItems == <<"delete", "anchor", "move", "addr", "type", "watch", "label">>
RowHandlers == <<"delete", "anchor", "move", "addr", "addr", "type", "type", "label">>
ReturnItem == <<0, "return">>
AddItem == <<0, "add">>
Freed == <<0, "freed">>
Handler(item) == [own |-> item, subscriber |-> item]

NewId(rows) ==
    LET free == 1..(WATCHES_MAX + 1) \ {rows[i].id : i \in DOMAIN rows}
    IN CHOOSE id \in free : \A j \in free : id <= j

WatchInit ==
    /\ watches = <<>> /\ watch_rows = <<>> /\ add_y = 1
    /\ item_events = <<Handler(ReturnItem), Handler(AddItem)>>
    /\ selected_item = ReturnItem /\ prev_addr = LOWEST /\ prev_type = U8 /\ shown = FALSE

-----------------------------------------------------------------------------
menu_item_removeSlip(events, item) ==
    FlattenSeq([k \in DOMAIN events |->
        IF k < Len(events) /\ events[k].subscriber[2] = item[2] THEN <<>> ELSE <<events[k]>>])
(* The loop over the handlers ends before it has looked at the last one.   *)
menu_item_remove(events, item) ==
    FlattenSeq([k \in DOMAIN events |->
        IF k < Len(events) /\ events[k].subscriber = item THEN <<>> ELSE <<events[k]>>])

(* All items of a row; a handler that is left behind still names an item   *)
(* that has been freed.                                                    *)
delete_row(events, id) ==
    LET after[i \in 0..Len(RowItems)] ==
            IF i = 0 THEN events ELSE menu_item_remove(after[i - 1], <<id, RowItems[i]>>)
        left == after[Len(RowItems)]
    IN [k \in DOMAIN left |->
          IF left[k].subscriber[1] # id THEN left[k]
          ELSE [own |-> <<0, left[k].own[2]>>, subscriber |-> Freed]]

Stale(events) == {k \in DOMAIN events : events[k].own # events[k].subscriber}

(* An item of the new row may come to lie where a freed one was: "there"   *)
(* says, for each handler left behind, what its item's memory has become.  *)
Left(events) == {k \in DOMAIN events : events[k].subscriber = Freed}
ItemsOf(ids) == {<<id, RowItems[k]>> : id \in ids, k \in DOMAIN RowItems}
AddHandlers(events, id, there) ==
    [k \in DOMAIN events |->
        IF k \in Left(events) /\ there[k][1] = id
        THEN [events[k] EXCEPT !.subscriber = there[k]] ELSE events[k]]
    \o [k \in DOMAIN RowHandlers |-> Handler(<<id, RowHandlers[k]>>)]

(* The list of a new row starts with the type chosen last.                 *)
NewRow(id, w, y) ==
    [id |-> id, watch |-> w.id, y |-> y, on_tile |-> IF w.floating THEN 1 ELSE 7,
     move_enabled |-> w.floating, addr |-> w.address, type |-> prev_type]

watches_button_add ==
    LET id == NewId(watch_rows)
        w  == [id |-> id, address |-> prev_addr, type |-> prev_type, floating |-> FALSE]
    IN /\ shown /\ selected_item = AddItem /\ Len(watches) < WATCHES_MAX
       /\ watches' = Append(watches, w)
       /\ watch_rows' = Append(watch_rows, NewRow(id, w, add_y))
       /\ add_y' = add_y + 2
       /\ \E there \in [Left(item_events) -> {Freed} \cup ItemsOf({id})] :
            item_events' = AddHandlers(item_events, id, there)
       /\ UNCHANGED <<selected_item, prev_addr, prev_type, shown>>

SelectedAfterDeleteSlip(rows, i) == IF i <= Len(rows) THEN <<rows[i].id, "move">> ELSE AddItem
(* The row below moves up under the cursor.  The handler still reads the   *)
(* menu from its own item, which has been freed; nothing allocates between.*)
SelectedAfterDelete(rows, i) == IF i <= Len(rows) THEN <<rows[i].id, "delete">> ELSE AddItem

MovedUpSlip(rows, i) == rows
MovedUp(rows, i) ==
    [k \in DOMAIN rows |-> IF k >= i THEN [rows[k] EXCEPT !.y = @ - 2] ELSE rows[k]]

WatchOf(row) == CHOOSE k \in DOMAIN watches : watches[k].id = row.watch

menu_watch_delete(i) ==
    LET row  == watch_rows[i]
        left == RemoveAt(watch_rows, i)
        events == delete_row(item_events, row.id)
    IN /\ shown /\ selected_item = <<row.id, "delete">>
       /\ Cardinality(Stale(events)) <= STALE_MAX
       /\ watches' = RemoveAt(watches, WatchOf(row))
       /\ watch_rows' = MovedUp(left, i)
       /\ add_y' = add_y - 2
       /\ item_events' = events
       /\ selected_item' = SelectedAfterDelete(left, i)
       /\ UNCHANGED <<prev_addr, prev_type, shown>>

-----------------------------------------------------------------------------
menu_watch_anchor(i) ==
    LET k == WatchOf(watch_rows[i])
        floating == ~watches[k].floating
    IN /\ shown /\ selected_item = <<watch_rows[i].id, "anchor">>
       /\ watches' = [watches EXCEPT ![k].floating = floating]
       /\ watch_rows' = [watch_rows EXCEPT ![i].move_enabled = floating,
                                           ![i].on_tile = IF floating THEN 1 ELSE 7]
       /\ UNCHANGED <<add_y, item_events, selected_item, prev_addr, prev_type, shown>>

Aligned(address, type) == address - (address % DataSizes[type])
watch_address_onnumber(i, entered) ==
    LET k == WatchOf(watch_rows[i])
        value == Aligned(entered, watches[k].type)
        address == IF value >= MEMMAX \/ value < LOWEST THEN LOWEST ELSE value
    IN /\ shown /\ selected_item = <<watch_rows[i].id, "addr">>
       /\ watches' = [watches EXCEPT ![k].address = address]
       /\ watch_rows' = [watch_rows EXCEPT ![i].addr = address]
       /\ prev_addr' = address
       /\ UNCHANGED <<add_y, item_events, selected_item, prev_type, shown>>

(* The watch's address is aligned to the type, the one kept for the next   *)
(* new watch is not.                                                       *)
watch_type_onlist(i, type) ==
    LET k == WatchOf(watch_rows[i])
        address == Aligned(watches[k].address, type)
    IN /\ shown /\ selected_item = <<watch_rows[i].id, "type">>
       /\ watches' = [watches EXCEPT ![k].address = address, ![k].type = type]
       /\ watch_rows' = [watch_rows EXCEPT ![i].addr = address, ![i].type = type]
       /\ prev_type' = type
       /\ UNCHANGED <<add_y, item_events, selected_item, prev_addr, shown>>

-----------------------------------------------------------------------------
Enabled(item) ==
    \/ item \in {ReturnItem, AddItem}
    \/ \E i \in DOMAIN watch_rows :
         /\ item[1] = watch_rows[i].id /\ item[2] # "watch" /\ item[2] # "freed"
         /\ item[2] = "move" => watch_rows[i].move_enabled
AllItems ==
    {ReturnItem, AddItem} \cup ItemsOf({watch_rows[i].id : i \in DOMAIN watch_rows})

(* Where the cursor can go is KzPages's subject.                           *)
WatchNavigate ==
    /\ shown /\ selected_item' \in {item \in AllItems : Enabled(item)}
    /\ UNCHANGED <<watches, watch_rows, add_y, item_events, prev_addr, prev_type, shown>>

(* The menu is left by its own item or by the command, wherever the cursor *)
(* is, and remembers where it was.                                         *)
EnterOrReturn ==
    /\ shown' = ~shown
    /\ UNCHANGED <<watches, watch_rows, add_y, item_events, selected_item, prev_addr, prev_type>>

(* clear_watches, then a watch and a row for each watch of the profile.    *)
(* The new rows may lie where the old ones were: a cursor that was on a row*)
(* is left on freed memory or on whatever new item has come to lie there.  *)
LoadProfile(profile) ==
    LET n == Len(profile)
        old == Len(watch_rows)
        new == [k \in 1..n |-> [profile[k] EXCEPT !.id = k]]
        cleared[k \in 0..old] ==
            IF k = 0 THEN item_events ELSE delete_row(cleared[k - 1], watch_rows[k].id)
        added(there) ==
            LET by[k \in 0..n] ==
                    IF k = 0 THEN cleared[old] ELSE AddHandlers(by[k - 1], k, there)
            IN by[n]
        places == {Freed} \cup ItemsOf(1..n)
    IN /\ ~shown /\ Cardinality(Stale(cleared[old])) <= STALE_MAX
       /\ watches' = new
       /\ watch_rows' = [k \in 1..n |-> NewRow(k, new[k], 2 * k - 1)]
       /\ add_y' = 1 + 2 * n
       /\ \E there \in [Left(cleared[old]) -> places] : item_events' = added(there)
       /\ selected_item' \in IF selected_item \in {ReturnItem, AddItem} THEN {selected_item} ELSE places
       /\ UNCHANGED <<prev_addr, prev_type, shown>>

WatchNext ==
    \/ watches_button_add
    \/ \E i \in DOMAIN watch_rows :
         \/ menu_watch_delete(i) \/ menu_watch_anchor(i)
         \/ \E entered \in Entries : watch_address_onnumber(i, entered)
         \/ \E type \in Types : watch_type_onlist(i, type)
    \/ WatchNavigate \/ EnterOrReturn 
    \/ \E profile \in Profiles : LoadProfile(profile)

WatchSpec == WatchInit /\ [][WatchNext]_WatchVars

-----------------------------------------------------------------------------
(* The rows are the watches, in their order: each shows its own watch's    *)
(* address and whether it floats, rows and the add button follow each other*)
(* without a gap, and the move button is there when the watch floats.      *)
RowsFollowWatches ==
    /\ Len(watch_rows) = Len(watches) /\ Len(watches) <= WATCHES_MAX
    /\ add_y = 1 + 2 * Len(watch_rows)
    /\ \A i \in DOMAIN watch_rows :
         LET row == watch_rows[i] IN
         /\ row.watch = watches[i].id /\ row.y = 2 * i - 1
         /\ row.addr = watches[i].address
         /\ row.move_enabled = watches[i].floating
         /\ row.on_tile = IF watches[i].floating THEN 1 ELSE 7

(* Removing rows never takes a handler from a row that stays: each has all *)
(* of its own, in order.  What is left behind is only ever the handler of  *)
(* a removed label.                                                        *)
RowsKeepHandlers ==
    /\ \A i \in DOMAIN watch_rows :
         LET id == watch_rows[i].id
             mine == FlattenSeq([k \in DOMAIN item_events |->
                        IF item_events[k].own[1] = id /\ item_events[k].own = item_events[k].subscriber
                        THEN <<item_events[k]>> ELSE <<>>])
         IN mine = [k \in DOMAIN RowHandlers |-> Handler(<<id, RowHandlers[k]>>)]
    /\ \A k \in Stale(item_events) : item_events[k].own[2] = "label"

(* While the menu is on the screen the cursor never leaves its items for   *)
(* one that is gone or cannot be used, whatever row is deleted under it or *)
(* loses its move button.  A profile loaded while the menu is away does    *)
(* leave the cursor on a freed item (LoadProfile): of that it says nothing.*)
CursorStaysUsable ==
    [][shown /\ Enabled(selected_item) => Enabled(selected_item)']_WatchVars
=============================================================================
