# A TLA+ model of kz

kz is a practice tool that is patched into *The Legend of Zelda: Majora's Mask*
(N64 and Wii Virtual Console). The game's main loop calls kz once per frame;
kz reads the pad, draws its menu over the game, runs the commands bound to
button combinations and edits the game's memory. This directory models the
parts of it in which something can go wrong over several steps, checks them
with TLC on small instances and proves the main results with TLAPS.

Contents: [the system](#1-the-system), [the modules](#2-the-modules-and-the-code),
[the runs](#3-the-runs), [what the code does otherwise](#4-where-the-code-does-otherwise),
[the proofs](#5-the-proofs), [what is not modelled](#6-what-is-not-modelled),
[the plan](#7-the-plan). `PROJECT.json` has the line-by-line map from
definitions to code, the hazards and the properties meant for them.

Paths below are under `src/src/` unless they say otherwise.

## 1. The system

### Components, their state and their operations

| component | state it keeps | operations |
|---|---|---|
| main loop `kz.c` | `kz.menu_active`, `kz.pending_frames`, the statics of `kz_main` (`item_update`, `switched`, `prev_inst`, `prev_page`), the wheel's `pause_row` and `item_val`, the position in the emergency code | `main` = `game_state_main`, then `kz_main`; `input_hook`, `camera_hook`; `pause_menu_event`; `init` |
| input `input.c` | the pad, `__button_time`, `pad_reserved`, `input_enabled`, per command `bind_component_state`, `bind_time`; `kz.input_mask`, the stick masks | `input_update`, `reserve_buttons`, `free_buttons`, `input_enable`, `input_disable`, `input_mask_set`, `input_mask_clear`, queries |
| bind rows `menu_bind.c` | per row a state NONE, BEGIN, ACTION, LISTENING; the binding in `settings->binds` | activate, update |
| WiiVC heap `hb_heap.c` | a doubly linked list of block headers in the heap, `first_free_block` | `halloc`, `hfree`, (`hrealloc`, `hmem_free`: no callers) |
| heap of the WiiVC and lite builds `mem.c` | the same over three or two regions, the last grown by `sbrk` | `malloc`, `free`, `realloc`, `memalign`, `sbrk` |
| save states `commands.c`, `kz_states_menu.c` | `kz.state_slot`, `kz.states[]` (pointers to heap blocks), the text `state_name` | prev, next, load, save; rename, export, import, clear |
| memfiles and positions `commands.c` | `kz.memfile[]`, `kz.position_save[]` and their slots | save, load, prev, next |
| settings `settings.c`, `kz_settings_menu.c` | the settings in memory and three profiles in flash; what is derived from them: command types, watches, frozen time | load, save, default, apply; the forms |
| menu tree `menu.c`, `menu_*.c` | menus with child and parent, lists of items and of event handlers, a selected item | `menu_input`, `menu_trigger_event`, enter, return, navigate, add and remove items |
| watches `watches.c`, `kz_watches_menu.c` | `kz.watches`, rows of menu items that point into it | add, delete, anchor, retype, clear, rebuild |
| keyboard `menu_keyboard.c` | buffer, cursor, the item and the string to answer to | get, type, accept, cancel |
| file menu and SD `menu_file.c`, `sys.c`, `hb.c` | the sorted entries of a directory, the offset of the view, a callback | get, enter directory, accept; requests to the cart's driver |
| state stream `state.c` | none of its own: the whole game, serialised | `save_state`, `load_state`, `state_is_valid` |
| scene, warp, cheat, inventory, equip, file, debug menus | flags in `kz` and the game's variables | one handler per item |
| free camera `camera.c`, collision view, `gfx.c`, resources | vectors, display lists, caches | once per frame |
| virtual console hooks `../vc/src/` | the recompiler's function trees with a root of kz's own, block maps of its code heap | `kz_treeInsert`, `kz_treeSearchNode`, `kz_treeBalance`, `kz_cpuHeapTake` |

### How they interact

There is one thread. What makes kz hard is that nearly everything is shared
between handlers that run in different frames, in an order the player chooses:

* The **order inside a frame** is fixed (game, pad and combinations, menu,
  editor mode, commands or editor page), but every part reads what an earlier
  part left, often from the frame before: a command is matched before the menu
  has been handled, the game sees the masks of the last frame.
* **Buttons and sticks are shared** by the game, the menu, the editor, the free
  camera and the combinations. Reservations and masks are global bit sets
  without owners; `free_buttons` flips bits.
* **Callbacks come late.** The keyboard and the file menu answer in some later
  frame, and bound commands keep running meanwhile; what the callback reads
  (`kz.state_slot`, a menu item) need not be what was there when it was asked.
* **Pointers are kept across frees**: slots, menu handlers, the keyboard's
  caller. The allocators are first-fit with immediate reuse, so a stale pointer
  soon points into someone else's block.
* **Failures** are possible in the allocators (both can refuse), the SD card
  (pulled out while its menu is open) and the flash. The only other processor is
  the RCP, which reads a frame's display lists while kz prepares the next one.
  Apart from the flash, nothing persists over a reset.

### What makes each component correct

* *Main loop*: reservations are those of the current mode; an active editor is
  over the pause screen it patched; nothing stays hidden from the game without
  someone who will give it back; the wheel writes to the slot the player sees.
* *Input*: a command starts when its combination is entered, in order and
  completely, and at no other time; a recording row always gives input back.
* *Heap*: blocks tile the heap; those in use never overlap, move or shrink; free
  neighbours are merged; free space can be found again.
* *Slots*: every block has one slot and every slot its own block or none;
  commands and menu act on the selected slot.
* *State stream*: what is read is what was written, in the same order, to the
  end; every pointer leads to the file it names, every clock goes on.
* *Memfiles, settings*: a scene change leads to the exit in the file; a profile
  brings back what was saved, and the flash survives what happens in between.
* *Menus, watches*: no row loses a handler, no cursor or offset points at what
  is gone, every item can be reached, an edit commits what the user saw.
* *Views*: nothing is freed or written while the RCP reads it, and a finished
  list draws the scene.
* *Virtual console*: an inserted function is found by the search; code blocks do
  not overlap.

## 2. The modules and the code

| module | models | uses |
|---|---|---|
| `KzFrame` | the frame of `kz.c` with the masks and reservations of `input.c`, `command_pause`, `command_advance`, the camera items of `kz_scene_menu.c` | |
| `KzInput` | `input_update` and `menu_bind.c` | |
| `HeapSpec` | what a heap promises its callers | |
| `HbHeap` | `halloc` and `hfree` of `hb_heap.c` | `HeapSpec` |
| `KzMem` | `malloc`, `free`, `memalign` of `mem.c` over several regions | `HeapSpec` |
| `SlotSpec` | save states as a player sees them: a bank of named moments | |
| `KzSlots` | the state commands and the states menu, on blocks with the promises of `HeapSpec` | `SlotSpec` |
| `KzState` | `save_state` and `load_state` of `state.c` | |
| `KzMemfiles` | memfiles, positions, warps and voids of `commands.c` and `kz_warps_menu.c`, their rows in the settings | |
| `KzSettings` | profiles in flash, defaults, cheats, the emergency reset | |
| `KzWatches` | the watches menu on the items and handlers of `menu.c` | |
| `KzKeyboard` | the on-screen keyboard and the text field that opens it | |
| `KzWidgets` | the number input and the list | |
| `KzPages` | the layout of every page, `menu_navigate`, entering and returning | |
| `KzFiles` | the file menu on the SD card | |
| `KzDebug` | the memory, flags, actors and objects pages | |
| `KzColView` | the life of the views' display lists | |
| `KzDisplay` | the polygon and line writers that fill them | |
| `KzVcTree`, `KzVcHeap` | the emulator's function trees and code blocks | |
| `MCKzFrame`, `MCKzInput`, `MCHbHeap`, `MCKzSlots`, `MCKzState`, `MCKzStates`, `MCKzMachine`, `MCKzMenus` | instances for TLC | |
| `KzFrameProofs`, `KzInputProofs`, `HbHeapProofs`, `KzMemProofs` | the theorems about one module each | TLAPS |
| `KzStatesProofs` | the theorems about `KzSlots` and `KzState` | TLAPS |
| `KzMachineProofs` | the theorems about `KzMemfiles`, `KzColView`, `KzDisplay`, `KzVcTree`, `KzVcHeap`, `KzSettings` | TLAPS |
| `KzMenuProofs` | the theorems about `KzKeyboard`, `KzFiles`, `KzDebug`, `KzWatches`, `KzWidgets`, `KzPages` | TLAPS |
| `KzLemmas` | what several proofs need of numbers and lists | TLAPS |

Definitions whose name ends in `Slip` (and `BalancedOrphan`) are mistaken forms
of a definition near them. Nothing uses them; put in place of the right form,
each makes TLC find a property violated, which shows that the property depends
on that line of code.

### KzFrame

One call of `main()` is five steps, `pc` naming the next: `GameFrame`
(`game_state_main`, `input_hook`), `InputUpdate`, `HandleMenu`, `EditorMode` and
`CommandsOrEditor` (the blocks of `kz_main`). The variables have the code's
names; `slots` stands for `z2_file.items` and `masks`, `pause` for
`pause_ctx.state`, `ovl_inst` for the four patched instructions of the pause
overlay, `c_mask` and `stick_mask` for the masks of `input_hook`. One variable
is not the code's: `menu_at_read` records whether the menu was open when the pad
was read, and only a property uses it.

Each step is total: the code has no waiting, so every frame goes through all
five, and the disjuncts of a step are the branches of its `if`s. The **game is
external**: the pause screen opens, turns pages, moves the cursor and closes as
it likes, except that the cursor needs the stick. The **menu tree** is reduced
to the four kinds of item that touch this state (the return item, the two camera
toggles, a command's button); any of them may be under the cursor. Combinations
are reduced to what `KzInput` establishes of them: a command bound to a reserved
button stays silent, the menu's own toggle does not and never comes twice in a
row. The emergency code, the log, drawing and the quest page are left out.

### KzInput

Two steps per frame, `InputUpdate` and `HandleMenu`, over pads that are sets of
buttons. `InputUpdate` takes any pad: all presses and releases between two
frames are covered. A binding is a sequence of buttons instead of nibbles, a
component is its index, `bind_component_state` a set of indices. The loop over
the components goes on as long as each stays down or goes down as the next in
order. `__button_time` is capped at `INPUT_REPEAT`, `bind_time` reduced to its
being positive: the code compares them with nothing larger. `Extended` is the
inner loop of `bind_event`.

The rest of the menu is "elsewhere": L on another item may enter or leave the
commands menu, the d-pad moves between rows and elsewhere. `MCKzInput` has the
module twice, with two rows and bindings up to `BIND_MAX` and, as `OneRow`, with
one row and longer bindings; `page` says which one a behavior is of.

### HbHeap and KzMem

Addresses and sizes count aligned units; NULL is 0 and the heaps start at 1, so
that `blk < first_free_block` compares as in C. Loops along the links are stated
by their result: the invariants say that the links ascend, which is what makes
the first hit of the walk the lowest address. Callers free what they hold, once:
who does otherwise is `KzSlots`' concern.

`mem.c` differs from its twin in one way that matters: a block that is not split
gets the length asked for, so that units behind it belong to no block (`Cut`).
Its list therefore does not tile the heap. It is still sound, because merging
takes a block's neighbour by its link and adds lengths that only ever err on the
short side; `MemListsSound` and `MemImplementsHeapSpec` say so. The regions may
lie in any order, as long as they do not overlap: in both builds the last, which
begins where the program ends and grows, lies below the one before it.

### KzSlots and KzState

A block is one of `Blocks`, with the promises of `HeapSpec`: apart from all
others, and arbitrary once freed. Memory the program still uses after freeing
it reads as anything (`Reads`), and freeing it again may drop any other blocks
(`hfree`): the outcomes a wild merge can have. `Failures` says what may fail.
`dialog` is the menu over the states menu; the four commands are enabled in
every state because they are in the code. `edited` remembers what the keyboard
was opened on; only a property uses it. When the keyboard or the file menu
answers and the slot selected by then has no state, the code goes through NULL:
the answer is lost, or the program stops there (`StopsAtNull` clears `running`),
which is why the runs with `KzSlots` do not check deadlock.

`KzState` is the content of one slot. The stream has no tags: reader and writer
agree on an order and on lengths that follow from what has been restored so far.
Both sides are therefore written down separately, block by block, `Read` passing
on where it is. Blocks that are copied without a look inside are one number
(`stamp`); each number in the model is one `st_write` or one run of them. What
the reader decides by (overlay tables, the nodes of the arena, which room and
object files are in memory, the sequencer's ring, the scene's map, the version)
is kept. `ram` says which file really lies where; a load that believes a file
present when it is not leaves the two apart. The audio thread, which stops the
sequencer when told to, is external. `Kept` is what the reader and the writer
take for granted of the game's memory, and what a moment therefore is: the nodes
of the arena lie one behind the other, no two overlays are at one address, and
an overlay that has a node of the arena has it to itself (a node of size 1 in the
model). Where a table or the arena is walked, a recursive function over the
places or the nodes says where in the stream each one is.

### KzMemfiles and KzSettings

A scene change is only asked for; the game acts on it after the frame, and
anything else may be asked for before. `FileNamesScene` relates the exit in the
file, the entrance asked for and the scene on screen. `KzSettings` keeps, of the
settings, what something else is derived from: the watches, the cheats, the
turbo type. `SwitchedOff` clears everything but the flash; what the flash holds
at first includes profiles of another version and without the magic.

### The menus

`KzPages` computes the position of each item of each page from its cell and
offset, as `menu_item_x` does, and `menu_navigate`'s choice from the positions;
`Views` says which of the items can be disabled or missing: the name of an empty
slot, move buttons, rows of a dialog, the cells of the memory table that a unit
size leaves (80, 40 or 20), the flags past the end of a set. `KzWidgets` is a frame of one
field: the press, the update from the variable, the drawing, with the game
writing the variable in between. `KzWatches` has the list of handlers as the
code has it, in order, with those a removal leaves behind; an item of a row added
later, by the button or from a profile, may come to lie where the freed one was
(`AddHandlers`). A profile loaded while the page's cursor is on a row leaves the
cursor on freed memory or on such a new item (`LoadProfile`). `KzKeyboard` has the
buffer byte by byte, because its length is what goes wrong, with one letter
standing for all that mean nothing to the code; a field's owner may also set its
text (`OwnerSets`), as far as it fits the buffer. `KzFiles` keeps directories as
the kinds of their entries. `KzDebug` leaves out what is in memory and keeps
where reads and writes go.

### The views and the console

`KzColView`'s frame is `kz_col_view`, `kz_hitbox_view`, the menu, then the game;
buffers handed over in one frame are read by the RCP during the next. The scene
may change, and the pause screen may hold the collision view, in any frame.
`KzDisplay` builds a list command by command and plays it back (`Shown`) as the
RCP does. `KzVcTree` has the three trees with parent links, and the function that
begins at the very end of the game's code, which `kz_treeInsert` puts nowhere
(`Refused`); the emulator's own leaf insertion is external, deletion of nodes is
left out. `KzVcHeap` has the
bits of the two maps, the missing `break` of `cpuHeapTake.c:34` included.

## 3. The runs

Sizes are distinct states; each run ends within about three minutes.

| run | instance | result |
|---|---|---|
| `frame` | 3 pages of 1 cell, 1 item, repeat after 2 frames; commands on a d-pad button, on L and on a free button | pass, 1.2 M |
| `frame_lock`, `frame_slot` | the same; 2 pages of 2 cells | counterexamples, see 4 |
| `heap_full` | `HbHeap` alone | counterexample |
| `input` | 3 buttons, 3 commands, 2 rows with bindings up to 2 or 1 row with bindings up to 3 | pass, 193 k, with liveness |
| `input_unbind` | the same | counterexample |
| `states` | `KzSlots`: 3 slots, 3 blocks, 2 moments, 1 file; `KzState`: 4 moments, 2 scenes, an arena of 3 cells, a ring of 3, files of versions 6, 7, 9 | pass, 206 k |
| `slots_import`, `slots_rename` | `KzSlots` alone; imports may fail | counterexamples |
| `machine` | `HbHeap`: 16 units, headers of 2, requests of 1 to 5; `KzMem`: regions of 6 and 6 units and, between them, the last of 10; `KzVcTree`, `KzVcHeap`, `KzColView`, `KzDisplay`, `KzSettings`, `KzMemfiles` | pass, 792 k |
| `memfile_scene` | the same | counterexample |
| `menus` | `KzWatches`, `KzKeyboard`, `KzWidgets`, `KzPages`, `KzFiles`, `KzDebug` | pass, 374 k |

**Side by side.** The components of `states`, `machine` and `menus` do
not read or write each other's state, so their product would only multiply
states. The MC module lets a behavior be that of one component while the others
stay as they began: every behavior of every component is there, and the
invariants of the others are checked in their initial states.

**frame.** `ReservedMatchesMode`: the buttons reserved are at every step those
of the mode, although the menu, its return item and the editor reserve and flip
overlapping sets. `MenuButtonsRunNothing`: a frame whose pad was read with the
menu open runs no command on one of its buttons, also when the return item
closes the menu, and so frees them, before the commands are looked at. `EditorOnPatchedPauseScreen`: with menus
opened over it, pause screens closed under it and states loaded, an active
editor always has the pause screen it patched. `HiddenSticksHaveOwner`: hidden
sticks belong to a steered camera or the editor. `CommitOnShownPage`: a wheel
from another page never writes.

**machine, the heaps.** `ListTilesHeap`, `FreeBlocksCoalesced`, `FirstFreeIsLowest` and
`MemListsSound` are the lists' integrity; `ImplementsHeapSpec` and
`MemImplementsHeapSpec` are the point of it: through every split and merge the
blocks of `HeapSpec` are handed out and taken back. 16 units with headers of 2
hold up to five blocks: freeing between two free neighbours, a split with
exactly one unit left, one unit too few, and a full heap all occur. The three
regions of `KzMem` lie in the order of the WiiVC build, the last below the second,
and meet at their addresses, so that a merge across them would show.

**input.** `StartsAsEntered`: no command starts when a longer combination is let
go, when the menu gives buttons back, or when a row has finished.
`ListeningOnlyAdds`: what a row saves is everything pressed since it began to
listen, in order. `RecordingOwnsInput`: input is disabled exactly while one row
records, with its menu on screen. `InputComesBack`: a recording ends. Three
buttons allow a combination, a part of it and an outsider; one row with bindings
of three covers growth over several frames, two rows with bindings of two cover
the limit and the interplay of rows.

*Fairness.* `FairSpec` is weak fairness of `Next`: the game calls `main()` every
frame, whatever kz does, and both steps of a frame always return. Nothing is
assumed of single branches. What the player does is not fairness but a
hypothesis in the property: `InputComesBack` is about players who again and
again press something and again and again let go of everything
(`PlayerActive`); one who holds a button forever rightly keeps a row listening.

**states.** `SlotsOwnBlocks` and the refinement `ImplementsSlotSpec`, without
failures: three slots, so that next and previous differ; three blocks, so that a
full bank saves into the block it has just freed; a file of its own content, so
that an import is told from a save. Of the stream: `StreamReadToEnd` (the reader
ends where the writer did), `LoadRestoresMoment`, `FilesResident`, `ClocksGoOn`.
Any of the four moments is saved or imported and loaded over any other; they
differ in every field the reader decides by: overlays at another address or
missing, an arena with one node or three, free ones among them, empty and full
tables, an empty, a partly filled and a wrapping queue, other rooms and scenes,
the same room at another place, the pause screen up or not, no music.

**machine, the rest.** `RecompiledIsFound`: after every insertion every function in a node
is found at each of its addresses, in every order of nine functions, of which no
tree takes one, with spines balanced at 4 (12 in the code) in each tree and kz's
pool exhausted.
`ParentsAgree`: balancing keeps parent links. `RunsDisjoint`: bits set are those
of the runs handed out, each within one word of maps of two. `ListsStandWhileRead`: nothing the
RCP reads is freed or written. `ListDrawsScene`: whatever the sequence of
polygons, each is drawn once in its colour, in the memory computed for it; seven
polygons fill batches of four and leave one broken off. `FileNamesScene`, with
two exits to one scene and one to another. `ProfileRestored`: loading a profile
brings back what was last saved to it, over other profiles, defaults and power
cycles; two profiles and one watch are the least that can be mixed up.

**menus.** `RowsFollowWatches`, `RowsKeepHandlers` and `CursorStaysUsable` with
two rows: deleting the first moves the second up; one handler left behind
(`STALE_MAX`) is enough for it to meet a new item. `TextReachesCursor`: no NUL
before the cursor, on a buffer of four characters, which wraps in both
directions, with texts set by the field's owner in between. `UntouchedEditCommitsHeld`, for numbers of two digits in base 3 with
and without sign and a list of three options. `EveryItemReached` uses the real
pages with their real cells, those of the memory table in each unit size and the
flags in each length the sets and offsets leave; watches, file rows and the scenes of a category are
the only counts chosen (2, 4, and 18); those pages are reached at any length
(`GrowingPagesReached`, section 5). A dialog of a single row would not do, which
`PagesAssumption` excludes: the two buttons that scroll would lie on each other.
`RowsShowEntries`, with three rows for up to seven entries in one directory and
four in the other. `CellsAligned`, on
a RAM of four pages of two rows.

Bounds that TLC needs and the code has not: `INPUT_REPEAT` is 2 (in the code
8: only whether it is reached matters), pads have three buttons, `kz.states`
three slots, the clock stops at 1. Bounds of the code itself (`BIND_MAX` 4,
`STATE_MAX` 5, `WATCHES_MAX`, rows of the file menu, blocks and words of the
emulator's maps) are smaller here. Deadlock is checked in every run but the three
with `KzSlots`, where the program may stop at a slot without a state; where a
component of `machine` can be complete (every function recompiled, the scene
drawn) `NothingLeft` says so.

## 4. Where the code does otherwise

Each of these runs checks one sentence of the documentation and ends in a
counterexample that the code allows; `PROJECT.json` quotes text and line.

* `frame_lock` - a camera locked first and enabled second keeps the C buttons
  from the game (`USAGE.md` on *lock free cam*).
* `frame_slot` - a wheel left open when the menu is opened commits later to its
  old slot, not to the one under the cursor (`USAGE.md`, section 10).
* `heap_full` - once the last free block has been handed out, nothing that is
  freed is found again: NULL is not above any block (`hb_heap.c:74`, `:105`).
* `input_unbind` - unbinding a command with the press that activated its row
  leaves it running with no combination at all (`USAGE.md`, section 2.10).
* `slots_import` - a refused import leaves the slot pointing at the state it has
  freed (`USAGE.md` on *no state*).
* `memfile_scene` - a memfile of the scene link is in, but of another exit than
  the one link came by, voids link out: exits are compared, not scenes
  (`USAGE.md:432`, `commands.c:303`).
* `slots_rename` - the keyboard renames the state of the slot selected when it
  is accepted (`USAGE.md` on *state name*).

Further disagreements the models carry, without a run of their own:

* A profile or the defaults change `turbo_type` but not the command's type
  (`USAGE.md:331`; `KzSettings`).
* The flags page enables switches by the offset of the set before and may step
  to a negative offset; a switch then stands for no flag (`USAGE.md:288`;
  `KzDebug`).
* An address kept for the next new watch is not aligned to that watch's type
  (`USAGE.md:156`), and a new row's list shows the type chosen last, not the
  watch's (`USAGE.md:158`; `KzWatches`).
* What nothing in the documentation promises, but a reader should know: a name or
  an export answered for a slot that has lost its state goes through NULL
  (`kz_states_menu.c:67`, `:79`; `StopsAtNull` of `KzSlots`); a profile loaded with
  the cursor on a row of the watches page leaves the cursor on freed memory
  (`kz_watches_menu.c:137`; `LoadProfile`); a deleted label's handler may come to
  act for a new item (`menu.c:167`; `AddHandlers`).
* Not in a model: a name of 31 characters picked in the file dialog overflows the
  keyboard's buffer by its NUL (`menu_keyboard.c:297`), and an actor viewed in the
  memory table frees the cells under that page's cursor (`kz_debug_menu.c:538`).
* The comment at `../vc/src/cpuHeapTake.c:61` speaks of swapping from small to
  large blocks; case 1 falls through and tries the small ones again (`KzVcHeap`).
* `tri_norm` uses other vertices than the formula above it in two places
  (`collision_view.c:18`); geometry is not modelled.
* `heap_first_free` of `mem.c` is lost like `first_free_block` when a region is
  full (`mem.c:155`; `KzMem`).

## 5. The proofs

All theorems hold for every value of the constants that satisfies the named
`ASSUME` of the component's module; no other assumption is made unless said.

**KzFrameProofs.** The six properties of the run `frame`. They are statements
about the end of a frame, or about one variable; none is inductive. `FrameInv`
adds what is true in between: `ModeInv` (the menu may lie over a running editor
only until the editor step), `OverlayInv`, `MaskInv` (a camera item may have
hidden the sticks until the editor step looks again), `QuietInv` (what was
silenced stays so until the frame ends, also when the menu closes in it) and `WheelInv` (an open wheel remembers
a slot of `prev_page`; with it, `CommitOnShownPage` follows from the page test
before a commit). One lemma per step shows that it keeps `FrameInv`, and
`FrameInvariant` is `Spec => []FrameInv`.

**HbHeapProofs.** `HeapInv` joins the four invariants of `HbHeap`; they are
inductive together and in no smaller set: `hfree` merges only with neighbours,
so coalescing needs tiling; tiling after a merge needs the links of both sides;
the search of `halloc` from `first_free_block` returns the first fit only if
nothing free lies below. `SplitOffKeepsList` and `AbsorbKeepsList` treat one
split and one merge of an arbitrary tiled list; `hfree` applies the second
twice. `HeapImplementsSpec` maps `halloc` to `Alloc` and `hfree` to `Free`; a
refused request is a stutter. Termination of the walks is not a theorem: that
the links ascend is.

**KzStatesProofs.** *Slots*: `SlotTypes` holds whatever fails. `SlotsOwn` and
`SlotsImplementSpec` assume `Failures = {}`, and must: run `slots_import` is the
counterexample without it. The argument is that the selected slot's block is
live exactly when there is one (`FreesItsBlock`), so that replacing it by a
block no other slot has changes this slot's content alone (`ReplacedBlock`).
*The stream*: `Holds(s, p, w)` says that the numbers w stand in the stream from p
on. A stream that holds a concatenation holds its parts, one behind the other
(`HoldsBoth`, `HoldsEach`), so that each reader needs a lemma about its own part
only, which says what it makes of it and that it goes on where its part ends.
Tables are read place by place (`SparseRead`): the numbers before a place are
smaller than its own, and `End` is no place. The arena is read node by node
(`ArenaRead`), the reader knowing the address of a node only from the sizes of
those before it, and whether it has data only from the overlays read earlier;
the walk ends at the last node because behind any other stands `Node`. The
sequencer's queue is arithmetic of remainders (`PlaceInRing`). `StreamRead` puts
the parts together. `StateInv` then says that memory is as `Kept` wants it, that
the files the game believes in are resident, and that a slot holds the stream of
the moment that was saved or imported. A load re-establishes all three
(`LoadPromises`) - that the restored moment is a `Kept` one is `RestoredIsKept` -
and with them the four properties. That the files were resident *before* the load is
needed: what `load_state` does not fetch is right only if it was right.

**KzInputProofs.** `InputInv` adds three things to the properties of the run.
`BindsEntered` says of each binding that the components down are its first ones,
that they went down in order, and that a combination wholly down has started: it
is why a command that starts has a component that was not down before, hence a
button that goes down now. `RowsWait` says what a recording row sees: nothing was
pressed in the frame input was disabled, no component is down while it is, a row
in state ACTION finds only buttons that have just gone down, and one that
listens has recorded something. `RecordingOwnsInput` closes the circle, because
it keeps the menu from closing under the row. `ComponentsEntered` is the
argument about the loop of `input_update`; that the loop stops somewhere is
`StopProperties`. `ExtendedIsBind` shows that a binding that is recorded keeps
what it has, stays within `BIND_MAX` and names no button twice; that
`InIndexOrder` names each button once rests on `EveryRankTaken` of `KzLemmas`,
which is the pigeonhole principle.

**KzMemProofs.** The list does not tile its regions, so `Sound` replaces the
tiling of `HbHeap` by: the block a header links to is the next one *of its
region*, a block ends no later than that one begins, and the first and the last
stay inside. `BlockSplit`, `WholeBlockTaken` and `BlocksMerged` treat one change
of an arbitrary sound list; merging adds a neighbour's length and header, which
falls short of the units between them when a request was not split, never past
them. `MallocImplementsHeap` maps `malloc` to `Alloc` and `free` to `Free` as
for `HbHeap`. `MemAssumption` says of the regions only that no two overlap, which
`mem.c:37` to `:46` keeps in both builds; their order, in which the last is not
the highest, plays no part.

**KzMachineProofs.** `FileNamesScene` is inductive as it stands. `ColInv` relates
the status of each view to the buffers handed over in the frame before: what is
freed or rewritten in a status is never among them, and `part` says which half
of the frame has already run. `VcHeapInv` splits `RunsDisjoint` in three and
adds that a node that holds blocks holds at least one: a node with an empty run
could be given a second one. That a chosen run is free and within one word is
`RunChosen`. *Trees*: that a child hangs from the node it names as its parent,
and a parent's child names it (`Linked`), is nearly inductive: what a step moves
is found by walking down, so the proof needs that a way down ends
(`WayEnds`). It does because a root has no parent and every other node one, so a
way that starts at a root cannot come back to a node it has left, and there are
finitely many nodes. Balancing then hangs one subtree elsewhere, twice
(`RehungLinked`), and an insertion adds a leaf below a free place
(`GrownLinked`). For `RecompiledIsFound` every node is labelled with the addresses
of its subtree (`Ordered`): its own, and those of its children, each side's on
that side of its own. A search follows the labels (`SearchReaches`). Balancing
takes the middle's label out of those of the spine above it and adds what is left
to those of the chain below it (`MovedOrdered`): all of that lies beside all that
is below the middle (`SpineLabels`). Labels make induction over trees unnecessary.
That the emulator begins at the right root needs that kz's nodes, and no others,
come from kz's pool (`PoolIsKz`). `VcTreeAssumption` says of the game's functions
that they do not overlap, and that none straddles the end of kz's code or of the
emulator's first tree; one may begin there, and is refused. *Settings*: `SettingsInv` says that whatever passes for a profile in flash is
what was last saved there; loading it gives the watches back because of
`CopiedGivesList`: what is copied into the table comes out of it as it was,
whatever lay behind it.
`FlashAssumption` is about what the flash holds at first: whatever passes the
check of magic and version is a profile this version could have written.
*Display lists*: a list is only whole when its last batch is flushed, since
commands are written before what they load or draw is known. The proof therefore
speaks of the settled list, in which these places hold what they will, and says
that it draws exactly the polygons so far (`PolyReady`, `LineReady`). The RCP's
state after each command is a run, which every list has (`RunFrom`) and only one
of (`ShownByRun`). Growing the batch changes nothing that was drawn, because
no earlier command needs a vertex that is loaded behind those it names
(`ShownWithMore`, `SettledGrown`). A new triangle is then one of three
cases: the first of a command (`EvenFilled`), one in another colour, which takes
the command before apart (`BrokenFilled`), or one that completes it
(`PairFilled`), drawn by a command that is already there. An outline is nine lines
one after the other (`LinesDrawnOneByOne`). The memory is a count of words kept
with the lists (`PolySpace`): at most nine more for a polygon's triangle and
sixteen for its lines, while a flush takes none; `FeaturedTests` says that
`calc_poly_cnt` counts the very polygons that `do_poly_list` has a colour for.

**KzMenuProofs.** *Keyboard*: whatever is in the buffer, `buf_sanity` leaves text
up to the cursor (`SanityReachesCursor`), and a key goes one cell on, with a wrap
in both directions. `KeyboardAssumption` is that the texts owners put into
their fields fit the keyboard's buffer, whatever room the fields have. *Files*: the entries listed are those of the directory while
a card is in, and the offset leaves a full page; `RowsShowEntries` follows.
*Debug*: the start address is always a multiple of the size shown, since what
the user enters is aligned to it and all that is added or put in its place is a
multiple of 8 (actors' addresses too, which `DebugAssumption` states of the
game's heap); that each byte has one cell is division with remainder
(`CellOfByte`). *Watches*:
row k and watch k have the same identity, all identities differ, so that the row
an event names is the watch `list_erase` removes; rows below move up by two.
`CursorStaysUsable` is an action property proved from the same invariant; it is
about the menu on screen with the cursor on an item, and says nothing of a cursor
that a profile has left on a freed one. For the
handlers, `EventsOf` says of the page's one list that the handlers of each row
that is there are its own, once and in order, that a handler whose item is gone
was a label's, and that the last of the list is a label's or the add button's:
the loop of `menu_item_remove` stops one short of the end, so what is last must be
one that may stay. What is left of a list when some are taken out is a matter of
the list alone (`ThinnedFrom`, `ThinnedKeeps` of `KzLemmas`); deleting a row is seven
such steps, and a profile that is loaded deletes and adds row after row
(`LoadedHandlers`).
*Fields*: what a field shows is what its variable was in the last frame without
an edit (`WidgetInv`), and what it shows it commits (`HeldIsCommitted`) because
the digits drawn add up to the value (`DigitsAddUp`). The powers and the sums are
recursive functions over the places of a number; that such a function exists and
is what its equation says is `RecursionUpTo` of `KzLemmas`, and what holds of
each of its values is shown for the least number for which it would fail.
*Pages*: `LedTo` is a walk of as many presses as there are items, taken half and
half so that TLC can walk the long pages; a press that leads on adds an item, so
the walk ends in a set that no direction leads out of (`ReachedClosed`, from
`HalvesTaken` and `HalvesGrow` of `KzLemmas`). Such a set has, from each of its items, what
`menu_navigate` finds ahead (`ClosedLeads`), and that is followed item by item: from any
item of a watch's row left to the row's first, along those up and down, and
right again (`WatchesReached`, whichever watches do not float); in a dialog from
the topmost item of the set down the first column, by way of the buttons that
scroll, if there are any, to the rows (`DialogReached`). `PathInv` says that the
cursor is on an item and what is usable is one of the page's views. What
the modules assume of constants is what the code has: profiles hold at most
`WATCHES_MAX` watches, addresses are natural numbers. The exception is the file
dialog's name of 31 characters, which `KeyboardAssumption` leaves out (section 4).

**Only model-checked.** `InputComesBack` is liveness, which TLAPS does not reach.
`GrowingPagesReached` proves `EveryItemReached` of the pages whose length is a
constant (the categories, the watches, the dialogs that load and save); the
others are fixed tables of cells, in which there is nothing to generalise, and
TLC walks over all of each. `InputTypeOK` is the type invariant of
`KzInput` for both instances of the run; `InputTypes` proves it of one.

## 6. What is not modelled

* Drawing, formatting, resources, matrices, spheres and cylinders of the hitbox
  view: no state that decides anything later.
* Forms that write one game variable per item (inventory, equips, file values,
  most cheats) and the editor's quest page: an assignment each. Their layout and
  their fields are `KzPages` and `KzWidgets`.
* The game, the emulator and the cart's SD driver are external; the register
  protocol of `sys.c` and `hb.c` and the emulator device of `vc.c` and
  `vc_dev.c` are I/O without state of kz.
* Deletion of tree nodes by the emulator, and functions that straddle the end of
  kz's range (`VcTreeAssumption`): `kz_treeInsert` and `kz_treeSearchNode` would
  choose different trees. Functions that straddle `code_end`: `treeAdjustRoot`,
  which moves it, is the emulator's.
* `hrealloc`, `hmem_free`, `realloc` have no callers.
* Loss of power in the middle of a write to the flash: what it leaves is not
  known; `SwitchedOff` comes between operations.
* In `KzFrame`, bindings are constants; in `KzInput`, the editor's reservations
  and profiles are absent.
* In `KzSlots` and `KzMemfiles`, what an export writes.
* In `KzState`, moments in pause states 1 and 2, the frames in which the pause
  screen opens: what the game then keeps in the objects' memory is its own affair.

## 7. The plan

Every subsystem with state of its own has its module, and every safety property
its theorem, but for what section 5 leaves to TLC. What is left is a composition
worth having when the limits of state space allow it: `KzWatches` with
`KzKeyboard` and the emergency reset, for a label typed into a row that is gone.

Liveness stays with TLC.
