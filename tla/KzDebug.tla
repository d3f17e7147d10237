------------------------------- MODULE KzDebug -------------------------------
(***************************************************************************)
(* The debug menu (src/src/kz_debug_menu.c): the table of the memory page, *)
(* the flags, the actors with the camera that looks at one, and the object *)
(* context.  What is in memory and in a flag is left out: of an edit the   *)
(* model keeps where it goes.                                              *)
(***************************************************************************)
EXTENDS Integers, FiniteSets, Sequences

CONSTANTS
    RAM_START, MEMORY_MAX,   \* 0x80000000 and 0x80800000
    ROWS,                    \* rows of eight bytes in the table (10)
    Addresses,               \* starting addresses the user enters
    ActorAddress(_, _),      \* where the n-th actor of a type is
    ACTOR_TYPES,             \* categories of actors (16)
    ACTOR_MAX,               \* actors of a type; bounds the model
    VIEW_FRAMES,             \* frames the camera stays at an actor (8)
    OBJ_MAX,                 \* objects in the context; bounds the model
    FLAG_BYTES,              \* bytes of flags the page shows (32)
    flag_sizes               \* bytes of each set of flags

ASSUME DebugAssumption ==
    /\ RAM_START \in Nat /\ RAM_START % 8 = 0 /\ MEMORY_MAX \in Nat /\ MEMORY_MAX % 8 = 0
    /\ ROWS \in Nat \ {0} /\ Addresses \subseteq Nat
    /\ ACTOR_TYPES \in Nat \ {0} /\ ACTOR_MAX \in Nat /\ VIEW_FRAMES \in Nat \ {0}
    /\ OBJ_MAX \in Nat /\ FLAG_BYTES % 2 = 0 /\ flag_sizes # <<>>
    /\ \A t \in 0..(ACTOR_TYPES - 1), n \in 0..ACTOR_MAX :
           ActorAddress(t, n) \in Nat /\ ActorAddress(t, n) % 8 = 0

VARIABLES
    memory_start_addr, memory_view_size,
    memory_item_cells,    \* the offsets of the bytes that begin a cell
    region, offset,       \* flags_data
    flags_enabled,        \* the bytes of the page whose switches can be used
    actor_count,          \* the game's actors of each type
    actor_type, actor_idx,
    viewing, hasviewed, focus,   \* of the view button and the camera
    obj_cnt

memoryVars == <<memory_start_addr, memory_view_size, memory_item_cells>>
flagVars == <<region, offset, flags_enabled>>
actorVars == <<actor_count, actor_type, actor_idx>>
viewVars == <<viewing, hasviewed, focus>>
DebugVars == <<memoryVars, flagVars, actorVars, viewVars, obj_cnt>>

PAGE == 8 * ROWS
ActorTypes == 0..(ACTOR_TYPES - 1)

-----------------------------------------------------------------------------
(* The memory page: a cell for every unit of the size that is shown.       *)
memory_table_update(size) == memory_item_cells' = {idx \in 0..(PAGE - 1) : idx % size = 0}

AlignedToSlip(address, size) == address
AlignedTo(address, size) == address - (address % size)

MemoryShows(address, size) ==
    /\ memory_start_addr' = address /\ memory_view_size' = size
    /\ memory_table_update(size)
    /\ UNCHANGED <<flagVars, viewVars, obj_cnt>>

memory_start_event ==
    \E value \in Addresses :
        MemoryShows(AlignedTo(value, memory_view_size), memory_view_size) /\ UNCHANGED actorVars

memory_size_onlist ==
    \E size \in {1, 2, 4} :
        MemoryShows(AlignedTo(memory_start_addr, size), size) /\ UNCHANGED actorVars

(* A row, or with Z held a page.                                           *)
memory_inc_onactivate ==
    \E step \in {8, PAGE} :
        /\ MemoryShows(IF memory_start_addr + step >= MEMORY_MAX - PAGE
                       THEN RAM_START ELSE memory_start_addr + step, memory_view_size)
        /\ UNCHANGED actorVars

(* What is compared is the address before the step.                        *)
memory_dec_onactivate ==
    \E step \in {8, PAGE} :
        /\ MemoryShows(IF memory_start_addr <= RAM_START
                       THEN MEMORY_MAX - PAGE ELSE memory_start_addr - step, memory_view_size)
        /\ UNCHANGED actorVars

-----------------------------------------------------------------------------
(* The actors page.  There is no actor at an index past the end.           *)
Exists == actor_idx < actor_count[actor_type]

ActorsInit ==
    /\ actor_count \in [ActorTypes -> 0..ACTOR_MAX]
    /\ actor_type = 0 /\ actor_idx = 0

(* Of no actor the address is 0.                                           *)
actor_button_onactivate ==
    /\ MemoryShows(IF Exists THEN ActorAddress(actor_type, actor_idx) ELSE 0, memory_view_size)
    /\ UNCHANGED actorVars

SelectActor ==
    \/ \E type \in ActorTypes : actor_type' = type /\ actor_idx' = 0
    \/ /\ actor_count[actor_type] = 0 \/ actor_idx = 0
       /\ actor_type' = (actor_type + ACTOR_TYPES - 1) % ACTOR_TYPES
       /\ actor_idx' = IF actor_count[actor_type'] > 0 THEN actor_count[actor_type'] - 1 ELSE 0
    \/ /\ actor_count[actor_type] # 0 /\ actor_idx # 0
       /\ actor_idx' = (actor_idx + actor_count[actor_type] - 1) % actor_count[actor_type]
       /\ UNCHANGED actor_type
    \/ /\ actor_idx >= actor_count[actor_type] - 1
       /\ actor_type' = (actor_type + 1) % ACTOR_TYPES /\ actor_idx' = 0
    \/ /\ actor_idx < actor_count[actor_type] - 1
       /\ actor_idx' = actor_idx + 1 /\ UNCHANGED actor_type

ActorSelected ==
    /\ SelectActor
    /\ UNCHANGED <<memoryVars, flagVars, viewVars, actor_count, obj_cnt>>

(* Drawn, an index more than one past the end becomes the last.            *)
actor_info_draw ==
    /\ actor_idx > actor_count[actor_type]
    /\ actor_idx' = (IF actor_count[actor_type] > 0 THEN actor_count[actor_type] - 1 ELSE 0)
    /\ UNCHANGED <<memoryVars, flagVars, viewVars, actor_count, actor_type, obj_cnt>>

delete_actor_onactivate ==
    /\ Exists
    /\ actor_count' = [actor_count EXCEPT ![actor_type] = @ - 1]
    /\ actor_idx' = (IF actor_idx # 0 /\ actor_idx >= actor_count'[actor_type]
                     THEN actor_idx - 1 ELSE actor_idx)
    /\ UNCHANGED <<memoryVars, flagVars, viewVars, actor_type, obj_cnt>>

(* The spawn button, or the game: actors come and go.                      *)
ActorsChange ==
    /\ \E type \in ActorTypes :
          \/ /\ actor_count[type] < ACTOR_MAX
             /\ actor_count' = [actor_count EXCEPT ![type] = @ + 1]
          \/ /\ actor_count[type] > 0
             /\ actor_count' = [actor_count EXCEPT ![type] = @ - 1]
    /\ UNCHANGED <<memoryVars, flagVars, viewVars, actor_type, actor_idx, obj_cnt>>

(* Held, the view button is activated again; the camera goes back in an    *)
(* update of the button, so only while its page is shown.                  *)
view_actor_event ==
    /\ \/ /\ Exists /\ viewing' = VIEW_FRAMES /\ hasviewed' = TRUE /\ focus' = "actor"
       \/ /\ viewing > 0 /\ viewing' = viewing - 1 /\ UNCHANGED <<hasviewed, focus>>
       \/ /\ viewing = 0 /\ hasviewed /\ hasviewed' = FALSE /\ focus' = "link"
          /\ UNCHANGED viewing
    /\ UNCHANGED <<memoryVars, flagVars, actorVars, obj_cnt>>

ObjectsChange ==
    /\ \/ obj_cnt < OBJ_MAX /\ obj_cnt' = obj_cnt + 1
       \/ obj_cnt > 0 /\ obj_cnt' = obj_cnt - 1
    /\ UNCHANGED <<memoryVars, flagVars, actorVars, viewVars>>

-----------------------------------------------------------------------------
(* The flags page.                                                         *)
refresh_flags_table(set, first) ==
    flags_enabled' = {byte \in 0..(FLAG_BYTES - 1) : byte + first < flag_sizes[set]}

(* The switches are enabled with the offset of the set before.             *)
flags_prev_next ==
    /\ region' \in {IF region = 1 THEN Len(flag_sizes) ELSE region - 1,
                    IF region = Len(flag_sizes) THEN 1 ELSE region + 1}
    /\ refresh_flags_table(region', offset)
    /\ offset' = 0

flags_dec_onactivate ==
    /\ offset' = IF offset = 0 THEN flag_sizes[region] - FLAG_BYTES ELSE offset - 2
    /\ refresh_flags_table(region, offset') /\ UNCHANGED region

flags_inc_onactivate ==
    /\ offset' = IF offset + FLAG_BYTES < flag_sizes[region] THEN offset + 2 ELSE 0
    /\ refresh_flags_table(region, offset') /\ UNCHANGED region

(* Steps backwards from a negative offset never meet 0; bounded here.      *)
FlagsPage ==
    /\ flags_prev_next \/ flags_dec_onactivate \/ flags_inc_onactivate
    /\ offset' >= -FLAG_BYTES
    /\ UNCHANGED <<memoryVars, actorVars, viewVars, obj_cnt>>

DebugInit ==
    /\ memory_start_addr = RAM_START /\ memory_view_size = 1
    /\ memory_item_cells = 0..(PAGE - 1)
    /\ region = 1 /\ offset = 0
    /\ flags_enabled = {byte \in 0..(FLAG_BYTES - 1) : byte < flag_sizes[1]}
    /\ ActorsInit
    /\ viewing = 0 /\ hasviewed = FALSE /\ focus = "link"
    /\ obj_cnt \in 0..OBJ_MAX

DebugNext ==
    \/ memory_start_event \/ memory_size_onlist \/ memory_inc_onactivate \/ memory_dec_onactivate
    \/ actor_button_onactivate \/ ActorSelected \/ actor_info_draw \/ delete_actor_onactivate
    \/ ActorsChange \/ view_actor_event \/ ObjectsChange \/ FlagsPage
DebugSpec == DebugInit /\ [][DebugNext]_DebugVars

-----------------------------------------------------------------------------
(* The cells of the table are read and written as units of the size shown, *)
(* which the CPU only does at their own multiples: whatever starting       *)
(* address was entered for another size, however it was moved and whichever*)
(* actor's address was taken over, every byte of the table belongs to one  *)
(* aligned cell.                                                           *)
CellsAligned ==
    /\ \A idx \in memory_item_cells : (memory_start_addr + idx) % memory_view_size = 0
    /\ \A byte \in 0..(PAGE - 1) :
          Cardinality({idx \in memory_item_cells : byte \in idx..(idx + memory_view_size - 1)}) = 1
=============================================================================
