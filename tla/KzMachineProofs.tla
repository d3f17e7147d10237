---------------------------- MODULE KzMachineProofs ----------------------------
(***************************************************************************)
(* The safety properties of what lies below the menus: the memfiles, the   *)
(* views of collision and hitboxes, the emulator's blocks and trees of     *)
(* recompiled code, the settings in flash, and the display lists that the  *)
(* view of collision is drawn from.  Each part is about one component, for *)
(* every value of its constants.                                           *)
(***************************************************************************)
EXTENDS KzMemfiles, KzColView, KzDisplay, KzVcHeap, KzVcTree, KzSettings, KzLemmas,
        SequenceTheorems, FiniteSetTheorems

-----------------------------------------------------------------------------
(* Memfiles.  FileNamesScene needs no strengthening: what a memfile brings *)
(* in between a change that is asked for and the frame's end is named by   *)
(* the change that it asks for itself, or was named before.                *)

(* Wherever a memfile comes from and whatever was asked for before, the    *)
(* scene that link gets to is that of the exit in the file.                *)
THEOREM MemfilesNameScene == MemfilesSpec => []FileNamesScene
<1>1. MemfilesInit => FileNamesScene
    BY DEF MemfilesInit, FileNamesScene
<1>2. FileNamesScene /\ [MemfilesNext]_MemfileVars => FileNamesScene'
    <2> SUFFICES ASSUME FileNamesScene, [MemfilesNext]_MemfileVars PROVE FileNamesScene'
        OBVIOUS
    <2> USE DEF FileNamesScene
    <2>1. CASE command_load_memfile
        <3>1. /\ z2_file_exit' = memfile[memfile_slot].exit /\ z2_scene' = z2_scene
              /\ IF Voids(memfile[memfile_slot]) THEN command_void(memfile[memfile_slot].exit)
                 ELSE UNCHANGED <<entrance_index, change>>
            BY <2>1 DEF command_load_memfile
        <3>2. CASE Voids(memfile[memfile_slot])
            BY <3>1, <3>2 DEF command_void
        <3>3. CASE ~Voids(memfile[memfile_slot])
            BY <3>1, <3>3 DEF Voids
        <3> QED BY <3>2, <3>3
    <2>2. CASE SceneAsked
        BY <2>2 DEF SceneAsked, command_void
    <2>3. CASE GamePlays
        BY <2>3 DEF GamePlays
    <2>4. CASE \/ command_save_memfile \/ MemSlotSelected \/ command_save_position
               \/ PositionLoaded \/ memfile_action_onlist \/ DialogOpened \/ DialogAnswered
               \/ UNCHANGED MemfileVars
        BY <2>4 DEF command_save_memfile, MemSlotSelected, command_save_position, PositionLoaded,
           memfile_action_onlist, DialogOpened, DialogAnswered, gameVars, MemfileVars
    <2> QED BY <2>1, <2>2, <2>3, <2>4 DEF MemfilesNext
<1> QED BY <1>1, <1>2, PTL DEF MemfilesSpec

-----------------------------------------------------------------------------
(* The views.  A list is read in the frame after it was handed over, so the*)
(* invariant is about what was handed over last: while a frame runs from   *)
(* the views to the game that is "drawn", then "reading".                  *)

HandedOver == IF part = "collision" THEN reading ELSE drawn
HitHandedOver == IF part \in {"collision", "hitbox"} THEN reading ELSE drawn

ColTypes ==
    /\ part \in {"game", "collision", "hitbox", "menu"}
    /\ collision_view_status \in Status
    /\ hitbox_view_status \in {"INACTIVE", "START", "ACTIVE", "BEGIN_STOP", "STOP"}
    /\ dynamic_idx \in 0..1 /\ hit_view_idx \in 0..1
    /\ bufs \subseteq ColBuffers \cup HitBuffers
    /\ drawn \subseteq bufs
    /\ part = "collision" => drawn = {} /\ touched = {}
    /\ part = "hitbox" => drawn \cap HitBuffers = {}

(* The lists of an active view are all there; the buffers of a status that *)
(* frees or allocates them are not being read; of the pairs only the one   *)
(* that was written last is.                                               *)
CollisionInv ==
    /\ collision_view_status = "ACTIVE" =>
          /\ {static_col, dynamic_gfx(0), dynamic_gfx(1)} \subseteq bufs
          /\ built.line => {static_line, dynamic_line(0), dynamic_line(1)} \subseteq bufs
    /\ collision_view_status \in {"INACTIVE", "START", "STOP", "RESTART"} =>
          HandedOver \cap ColBuffers = {}
    /\ dynamic_gfx(1 - dynamic_idx) \notin HandedOver
    /\ dynamic_line(1 - dynamic_idx) \notin HandedOver

HitboxInv ==
    /\ hitbox_view_status = "ACTIVE" => HitBuffers \subseteq bufs
    /\ hitbox_view_status \in {"INACTIVE", "START", "STOP"} => HitHandedOver \cap HitBuffers = {}
    /\ hit_view_disp(hit_view_idx) \notin HitHandedOver

ColInv == ColTypes /\ CollisionInv /\ HitboxInv /\ ListsStandWhileRead

LEMMA ColInitInv == ColInit => ColInv
BY DEF ColInit, ColInv, ColTypes, CollisionInv, HitboxInv, ListsStandWhileRead, HandedOver,
   HitHandedOver, Status

LEMMA GameRunsKeeps ==
    ASSUME ColInv, GameRuns PROVE ColInv'
<1> USE DEF GameRuns, ColInv
<1>1. ColTypes'
    BY DEF ColTypes
<1>2. CollisionInv'
    BY DEF ColTypes, CollisionInv, HandedOver
<1>3. HitboxInv'
    BY DEF ColTypes, HitboxInv, HitHandedOver
<1>4. ListsStandWhileRead'
    BY DEF ColTypes, ListsStandWhileRead
<1> QED BY <1>1, <1>2, <1>3, <1>4

(* A status that is not about to change stays. *)
LEMMA NextStatusValues ==
    /\ NextStatus("BEGIN_STOP") = "STOP" /\ NextStatus("BEGIN_RESTART") = "RESTART"
    /\ NextStatus("STOP") = "INACTIVE"
    /\ \A status \in {"INACTIVE", "START", "ACTIVE", "RESTART"} : NextStatus(status) = status
BY Zenon DEF NextStatus

(* What kz_col_view may do, case by case: it builds the lists, goes on     *)
(* drawing them, or lets the status advance, which may free them.          *)
LEMMA CollisionViewKeeps ==
    ASSUME ColInv, CollisionView PROVE ColInv'
<1> USE DEF static_col, static_line, dynamic_gfx, dynamic_line, ColBuffers
<1>1. PICK enabled \in BOOLEAN : kz_col_view(enabled)
    BY DEF CollisionView
<1>2. /\ part = "collision" /\ part' = "hitbox"
      /\ UNCHANGED <<hitbox_view_status, col_view, scene_index, hit_view_idx, reading>>
      /\ drawn = {} /\ touched = {} /\ dynamic_idx \in 0..1
      /\ collision_view_status \in Status /\ bufs \subseteq ColBuffers \cup HitBuffers
    BY DEF CollisionView, ColInv, ColTypes
<1> DEFINE S == collision_view_status
           Lists(line) == {static_col, dynamic_gfx(0), dynamic_gfx(1)}
                          \cup IF line THEN {static_line, dynamic_line(0), dynamic_line(1)} ELSE {}
           Current(line) == {static_col, dynamic_gfx(dynamic_idx')}
                          \cup IF line THEN {static_line, dynamic_line(dynamic_idx')} ELSE {}
           DrawnInto(line) == {dynamic_gfx(dynamic_idx')}
                          \cup IF line THEN {dynamic_line(dynamic_idx')} ELSE {}
<1>3. CASE enabled /\ S \in {"START", "RESTART"}
    <2> DEFINE freed == IF S = "RESTART" THEN bufs \cap ColBuffers ELSE {}
    <2>1. /\ S' = "ACTIVE"
          /\ built' = [scene |-> scene_index, line |-> col_view.line, red |-> col_view.red]
          /\ dynamic_idx' = 1 - dynamic_idx
          /\ bufs' = (bufs \ freed) \cup Lists(col_view.line)
          /\ touched' = freed \cup DrawnInto(col_view.line)
          /\ drawn' = Current(col_view.line)
        BY <1>1, <1>2, <1>3 DEF kz_col_view, StatusOnEntry, NextStatus, Frees
    <2>2. ColTypes' /\ ~Outdated'
        BY <1>2, <2>1 DEF ColInv, ColTypes, Status, Outdated, HitBuffers, hit_view_disp
    <2>3. reading \cap ColBuffers = {}
        BY <1>2, <1>3 DEF ColInv, CollisionInv, HandedOver
    <2>4. CollisionInv'
        BY <1>2, <2>1 DEF CollisionInv, HandedOver
    <2>5. HitboxInv'
        BY <1>2, <2>1 DEF ColInv, HitboxInv, HitHandedOver, HitBuffers, hit_view_disp
    <2>6. touched' \cap reading' = {}
        BY <1>2, <2>1, <2>3
    <2> QED BY <1>2, <2>1, <2>2, <2>4, <2>5, <2>6
        DEF ColInv, ListsStandWhileRead, ColTypes, HitBuffers, hit_view_disp
<1>4. CASE enabled /\ S = "ACTIVE" /\ ~Outdated
    <2>1. /\ S' = "ACTIVE" /\ built' = built /\ bufs' = bufs
          /\ IF col_view.upd THEN dynamic_idx' = 1 - dynamic_idx /\ touched' = DrawnInto(built.line)
             ELSE dynamic_idx' = dynamic_idx /\ touched' = {}
          /\ drawn' = Current(built.line)
        BY <1>1, <1>2, <1>4, NextStatusValues DEF kz_col_view, StatusOnEntry, Frees
    <2>2. Lists(built.line) \subseteq bufs
        BY <1>4 DEF ColInv, CollisionInv
    <2>3. ColTypes' /\ ~Outdated'
        BY <1>2, <1>4, <2>1, <2>2 DEF ColInv, ColTypes, Status, Outdated, HitBuffers, hit_view_disp
    <2>4. CollisionInv'
        BY <1>2, <2>1, <2>2 DEF CollisionInv, HandedOver
    <2>5. HitboxInv'
        BY <1>2, <2>1 DEF ColInv, HitboxInv, HitHandedOver, HitBuffers, hit_view_disp
    <2>6. touched' \cap reading' = {}
        BY <1>2, <2>1 DEF ColInv, CollisionInv, HandedOver
    <2> QED BY <1>2, <2>1, <2>3, <2>4, <2>5, <2>6 DEF ColInv, ListsStandWhileRead, ColTypes
<1>5. CASE ~(enabled /\ (S \in {"START", "RESTART"} \/ (S = "ACTIVE" /\ ~Outdated)))
    <2> DEFINE entry == IF enabled /\ S = "ACTIVE" THEN "BEGIN_RESTART" ELSE S
               freed == IF entry \in {"STOP", "RESTART"} THEN bufs \cap ColBuffers ELSE {}
    <2>1. /\ S' = NextStatus(entry) /\ built' = built /\ dynamic_idx' = dynamic_idx
          /\ bufs' = bufs \ freed /\ touched' = freed /\ drawn' = {}
        <3>1. StatusOnEntry(enabled) = entry
            BY <1>5 DEF StatusOnEntry
        <3>2. enabled => NextStatus(entry) # "ACTIVE"
            BY <1>2, <1>5, NextStatusValues DEF Status
        <3> QED BY <1>1, <1>2, <1>5, <3>1, <3>2, NextStatusValues DEF kz_col_view, Frees
    <2>2. S' \in Status /\ (S' = "ACTIVE" => S = "ACTIVE" /\ freed = {})
        BY <1>2, <2>1, NextStatusValues DEF Status
    <2>3. ColTypes'
        BY <1>2, <2>1, <2>2 DEF ColInv, ColTypes
    <2>4. CollisionInv'
        BY <1>2, <2>1, <2>2 DEF ColInv, CollisionInv, HandedOver
    <2>5. HitboxInv'
        BY <1>2, <2>1 DEF ColInv, HitboxInv, HitHandedOver, HitBuffers, hit_view_disp
    <2>6. touched' \cap reading' = {}
        BY <1>2, <2>1 DEF ColInv, CollisionInv, HandedOver
    <2>7. S' = "INACTIVE" => bufs' \cap ColBuffers = {}
        BY <1>2, <2>1, NextStatusValues DEF ColInv, ListsStandWhileRead, Status
    <2> QED BY <1>2, <2>1, <2>3, <2>4, <2>5, <2>6, <2>7 DEF ColInv, ListsStandWhileRead
<1> QED BY <1>3, <1>4, <1>5

LEMMA HitboxViewKeeps ==
    ASSUME ColInv, HitboxView PROVE ColInv'
<1> USE DEF HitBuffers, hit_view_disp, ColBuffers, static_col, static_line, dynamic_gfx, dynamic_line
<1>1. PICK show \in BOOLEAN : kz_hitbox_view(show)
    BY DEF HitboxView
<1>2. /\ part = "hitbox" /\ part' = "menu"
      /\ UNCHANGED <<collision_view_status, col_view, scene_index, built, dynamic_idx, reading>>
      /\ drawn \cap HitBuffers = {}
    BY DEF HitboxView, ColInv, ColTypes
<1>3. ColTypes'
    BY <1>1, <1>2 DEF kz_hitbox_view, ColInv, ColTypes
<1>4. CollisionInv'
    BY <1>1, <1>2 DEF kz_hitbox_view, ColInv, ColTypes, CollisionInv, HandedOver
<1>5. HitboxInv'
    BY <1>1, <1>2 DEF kz_hitbox_view, ColInv, ColTypes, HitboxInv, HitHandedOver
<1>6. touched' \cap reading' = {}
    BY <1>1, <1>2 DEF kz_hitbox_view, ColInv, ColTypes, HitboxInv, HitHandedOver, ListsStandWhileRead
<1>7. hitbox_view_status' = "INACTIVE" => bufs' \cap HitBuffers = {}
    BY <1>1, <1>2 DEF kz_hitbox_view, ColInv, ListsStandWhileRead
<1>8. collision_view_status' = "INACTIVE" => bufs' \cap ColBuffers = {}
    BY <1>1, <1>2 DEF kz_hitbox_view, ColInv, ListsStandWhileRead
<1> QED BY <1>2, <1>3, <1>4, <1>5, <1>6, <1>7, <1>8 DEF ColInv, ColTypes, ListsStandWhileRead

(* The menu changes what is asked for and no buffer.  A view that is asked *)
(* for by it had no buffer being read, since it held none; one that is to  *)
(* be stopped or built anew keeps its buffers for another frame.           *)
LEMMA ColMenuKeeps ==
    ASSUME ColInv, ColMenu PROVE ColInv'
<1>1. /\ part = "menu" /\ part' = "game"
      /\ UNCHANGED <<scene_index, built, bufs, dynamic_idx, hit_view_idx, drawn, reading, touched>>
    BY DEF ColMenu
<1>2. /\ \/ collision_view_status' = collision_view_status
         \/ collision_view_status = "INACTIVE" /\ collision_view_status' = "START"
         \/ collision_view_status' \in {"BEGIN_STOP", "BEGIN_RESTART"}
      /\ \/ hitbox_view_status' = hitbox_view_status
         \/ hitbox_view_status = "INACTIVE" /\ hitbox_view_status' = "START"
         \/ hitbox_view_status' = "BEGIN_STOP"
    BY DEF ColMenu, collision_gen_event, hitbox_gen_event, collision_switch_event, SettingsLoaded, Toggled
<1>3. ColTypes'
    BY <1>1, <1>2 DEF ColInv, ColTypes, Status
<1>4. CollisionInv'
    BY <1>1, <1>2 DEF ColInv, CollisionInv, HandedOver
<1>5. HitboxInv'
    BY <1>1, <1>2 DEF ColInv, HitboxInv, HitHandedOver
<1>6. ListsStandWhileRead'
    BY <1>1, <1>2 DEF ColInv, ListsStandWhileRead
<1> QED BY <1>3, <1>4, <1>5, <1>6 DEF ColInv

LEMMA ColInvariant == ColSpec => []ColInv
<1>1. ColInv /\ [ColNext]_ColVars => ColInv'
    <2> SUFFICES ASSUME ColInv, [ColNext]_ColVars PROVE ColInv'
        OBVIOUS
    <2>1. CASE UNCHANGED ColVars
        <3> USE <2>1 DEF ColVars, ColInv
        <3>1. ColTypes'
            BY DEF ColTypes
        <3>2. CollisionInv'
            BY DEF CollisionInv, HandedOver
        <3>3. HitboxInv'
            BY DEF HitboxInv, HitHandedOver
        <3>4. ListsStandWhileRead'
            BY DEF ListsStandWhileRead, Outdated
        <3> QED BY <3>1, <3>2, <3>3, <3>4
    <2> QED BY <2>1, GameRunsKeeps, CollisionViewKeeps, HitboxViewKeeps, ColMenuKeeps DEF ColNext
<1> QED BY <1>1, ColInitInv, PTL DEF ColSpec

(* Whatever the checkboxes, the settings, the scene and the pause screen   *)
(* do between the frames, no list is freed or written while the RCP reads  *)
(* it, and the lists that are drawn are those of this frame's settings.    *)
THEOREM ColViewListsStand == ColSpec => []ListsStandWhileRead
BY ColInvariant, PTL DEF ColInv

-----------------------------------------------------------------------------
(* Recompiled code.  A node that holds blocks holds at least one: else one *)
(* that has nothing to give back could be given a second run.              *)

BlockTypes == {SmallBlocks, LargeBlocks}
BitsOf(n) == alloc[n].pos .. (alloc[n].pos + alloc[n].cnt - 1)

VcTypes ==
    /\ blk_status \in [BlockTypes -> SUBSET Nat]
    /\ alloc \in [Nodes -> [type : {-1, SystemHeap} \cup BlockTypes, pos : Nat, cnt : Nat]]
    /\ \A n \in Nodes : alloc[n].type \in BlockTypes => alloc[n].cnt # 0

(* The three parts of RunsDisjoint. *)
BitsAreRuns ==
    \A t \in BlockTypes : \A b \in Nat :
        b \in blk_status[t] <=> \E n \in Nodes : alloc[n].type = t /\ b \in BitsOf(n)
RunsApart ==
    \A n, m \in Nodes :
        n # m /\ alloc[n].type \in BlockTypes /\ alloc[m].type = alloc[n].type
            => BitsOf(n) \cap BitsOf(m) = {}
RunsInWords ==
    \A n \in Nodes : alloc[n].type \in BlockTypes =>
        \A b \in BitsOf(n) : b \div WORD = alloc[n].pos \div WORD

VcHeapInv == VcTypes /\ BitsAreRuns /\ RunsApart /\ RunsInWords

LEMMA RunsDisjointFromParts == ASSUME VcHeapInv PROVE RunsDisjoint
<1> USE DEF VcHeapInv, VcTypes, BlockTypes, SmallBlocks, LargeBlocks, SystemHeap, BitsOf
<1> DEFINE own(t) == {n \in Nodes : alloc[n].type = t}
<1>1. ASSUME NEW t \in BlockTypes
      PROVE  blk_status[t] = UNION {BitsOf(n) : n \in own(t)}
    <2>1. blk_status[t] \subseteq Nat /\ \A n \in Nodes : BitsOf(n) \subseteq Nat
        OBVIOUS
    <2>2. \A b \in blk_status[t] : b \in UNION {BitsOf(n) : n \in own(t)}
        BY <2>1 DEF BitsAreRuns
    <2>3. \A n \in own(t) : \A b \in BitsOf(n) : b \in blk_status[t]
        BY <2>1 DEF BitsAreRuns
    <2> QED BY <2>2, <2>3
<1>2. ASSUME NEW t \in BlockTypes, NEW n \in own(t), NEW m \in own(t), n # m
      PROVE  BitsOf(n) \cap BitsOf(m) = {}
    <2>1. n \in Nodes /\ m \in Nodes /\ alloc[n].type = t /\ alloc[m].type = t
        OBVIOUS
    <2>2. RunsApart
        OBVIOUS
    <2> QED BY <1>2, <2>1, <2>2 DEF RunsApart
<1>3. ASSUME NEW t \in BlockTypes, NEW n \in own(t)
      PROVE  \A b \in BitsOf(n) : b \div WORD = alloc[n].pos \div WORD
    BY DEF RunsInWords
<1> QED BY <1>1, <1>2, <1>3 DEF RunsDisjoint

LEMMA NeededPositive ==
    ASSUME NEW t \in BlockTypes, NEW size \in CodeSizes PROVE Needed(t, size) \in Nat \ {0}
<1> DEFINE blk == IF t = SmallBlocks THEN SM_BLK_SIZE ELSE LG_BLK_SIZE
<1>1. blk \in Nat \ {0} /\ size \in Nat \ {0}
    BY VcHeapAssumption
<1>2. size + blk - 1 \in Nat /\ size + blk - 1 >= blk
    BY <1>1
<1> HIDE DEF blk
<1>3. (size + blk - 1) \div blk \in Nat \ {0}
    BY <1>1, <1>2, QuotientPositive
<1> QED BY <1>3 DEF Needed, blk

(* The run that is chosen is of free bits of one word. *)
LEMMA RunChosen ==
    ASSUME NEW t \in BlockTypes, NEW cnt \in Nat \ {0}, Runs(t, cnt) # {}
    PROVE  LET pos == CHOOSE p \in Runs(t, cnt) : \A q \in Runs(t, cnt) : p <= q
           IN  /\ pos \in Nat
               /\ Run(pos, cnt) \cap blk_status[t] = {}
               /\ \A b \in Run(pos, cnt) : b \div WORD = pos \div WORD
<1> DEFINE R == Runs(t, cnt)
           pos == CHOOSE p \in R : \A q \in R : p <= q
<1>1. WORD \in Nat \ {0} /\ Words(t) \in Nat
    BY VcHeapAssumption DEF Words
<1>2. R \in SUBSET Nat
    <2>1. \A i \in 0..(Words(t) - 1), j \in 0..(WORD - cnt - 1) : i * WORD + j \in Nat
        BY <1>1, WordOfBit
    <2> QED BY <2>1 DEF Runs
<1>3. pos \in R
    <2>1. \E p \in R : \A q \in R : p <= q
        <3>1. R # {}
            OBVIOUS
        <3> HIDE DEF R
        <3> QED BY <1>2, <3>1, LeastNatural
    <2> QED BY <2>1
<1>4. PICK i \in 0..(Words(t) - 1), j \in 0..(WORD - cnt - 1) : pos = i * WORD + j
    BY <1>3 DEF Runs
<1>5. Run(pos, cnt) \cap blk_status[t] = {}
    BY <1>3 DEF Runs
<1> HIDE DEF pos
<1>6. ASSUME NEW b \in Run(pos, cnt) PROVE b \div WORD = i
    <2>1. i * WORD \in Nat /\ i \in Nat
        BY <1>1, WordOfBit
    <2>2. b - i * WORD \in 0..(WORD - 1) /\ b \in Int
        BY <1>1, <1>4, <2>1 DEF Run
    <2>3. b = i * WORD + (b - i * WORD)
        BY <2>1, <2>2
    <2> QED BY <1>1, <2>1, <2>2, <2>3, WordOfBit
<1>7. pos \in Run(pos, cnt)
    BY <1>2, <1>3 DEF Run
<1> QED BY <1>2, <1>3, <1>5, <1>6, <1>7 DEF pos

LEMMA TakeBlocksKeeps ==
    ASSUME VcHeapInv, NEW n \in Nodes, NEW t \in BlockTypes, NEW size \in CodeSizes,
           alloc[n].cnt = 0, HasRoom(t, size), TakeBlocks(n, t, size)
    PROVE  VcHeapInv'
<1> DEFINE cnt == Needed(t, size)
           R == Runs(t, cnt)
           pos == CHOOSE p \in R : \A q \in R : p <= q
<1>1. cnt \in Nat \ {0}
    BY NeededPositive
<1>2. /\ pos \in Nat /\ Run(pos, cnt) \cap blk_status[t] = {}
      /\ \A b \in Run(pos, cnt) : b \div WORD = pos \div WORD
    BY <1>1, RunChosen DEF HasRoom
<1>3. /\ blk_status' = [blk_status EXCEPT ![t] = @ \cup Run(pos, cnt)]
      /\ alloc' = [alloc EXCEPT ![n] = [type |-> t, pos |-> pos, cnt |-> cnt]]
    BY DEF TakeBlocks
<1> HIDE DEF cnt, R, pos
<1> USE DEF BlockTypes, SmallBlocks, LargeBlocks, SystemHeap
<1>4. VcTypes'
    BY <1>1, <1>2, <1>3 DEF VcHeapInv, VcTypes, Run
<1>5. alloc[n].type \notin BlockTypes
    BY DEF VcHeapInv, VcTypes
<1>6. BitsOf(n)' = Run(pos, cnt) /\ alloc'[n].type = t /\ alloc'[n].pos = pos
    BY <1>3 DEF VcHeapInv, VcTypes, BitsOf, Run
<1>7. \A m \in Nodes \ {n} : BitsOf(m)' = BitsOf(m) /\ alloc'[m] = alloc[m] /\ BitsOf(m) \subseteq Nat
    BY <1>3 DEF VcHeapInv, VcTypes, BitsOf
<1>8. /\ blk_status'[t] = blk_status[t] \cup Run(pos, cnt)
      /\ \A u \in BlockTypes \ {t} : blk_status'[u] = blk_status[u]
    BY <1>3 DEF VcHeapInv, VcTypes
<1>9. BitsAreRuns'
    BY <1>5, <1>6, <1>7, <1>8 DEF VcHeapInv, BitsAreRuns
<1>10. \A m \in Nodes \ {n} : alloc[m].type = t => BitsOf(m) \subseteq blk_status[t]
    BY <1>7 DEF VcHeapInv, BitsAreRuns
<1>11. RunsApart'
    BY <1>2, <1>6, <1>7, <1>10 DEF VcHeapInv, RunsApart
<1>12. RunsInWords'
    BY <1>2, <1>6, <1>7 DEF VcHeapInv, RunsInWords
<1> QED BY <1>4, <1>9, <1>11, <1>12 DEF VcHeapInv

(* The system's heap has its own memory: no bit changes hands. *)
LEMMA TakeSystemKeeps ==
    ASSUME VcHeapInv, NEW n \in Nodes, alloc[n].cnt = 0, TakeSystem(n)
    PROVE  VcHeapInv'
<1> USE DEF BlockTypes, SmallBlocks, LargeBlocks, SystemHeap
<1>1. PICK cnt \in {0, 1} : alloc' = [alloc EXCEPT ![n] = [type |-> SystemHeap, pos |-> 0, cnt |-> cnt]]
    BY DEF TakeSystem
<1>2. blk_status' = blk_status
    BY DEF TakeSystem
<1>3. VcTypes'
    BY <1>1, <1>2 DEF VcHeapInv, VcTypes
<1>4. alloc[n].type \notin BlockTypes /\ alloc'[n].type \notin BlockTypes
    BY <1>1 DEF VcHeapInv, VcTypes
<1>5. \A m \in Nodes \ {n} : BitsOf(m)' = BitsOf(m) /\ alloc'[m] = alloc[m]
    BY <1>1 DEF VcHeapInv, VcTypes, BitsOf
<1>6. BitsAreRuns'
    BY <1>2, <1>4, <1>5 DEF VcHeapInv, BitsAreRuns
<1>7. RunsApart'
    BY <1>4, <1>5 DEF VcHeapInv, RunsApart
<1>8. RunsInWords'
    BY <1>4, <1>5 DEF VcHeapInv, RunsInWords
<1> QED BY <1>3, <1>6, <1>7, <1>8 DEF VcHeapInv

LEMMA TakeKeeps ==
    ASSUME VcHeapInv, NEW n \in Nodes, NEW size \in CodeSizes, kz_cpuHeapTake(n, size)
    PROVE  VcHeapInv'
<1> DEFINE first == FirstType(n, size)
<1>1. first = SystemHeap \/ first \in BlockTypes
    BY DEF FirstType, BlockTypes
<1>2. SecondType(first) \in BlockTypes
    BY DEF SecondType, BlockTypes
<1>3. CASE UNCHANGED <<blk_status, alloc>>
    BY <1>3 DEF VcHeapInv, VcTypes, BitsAreRuns, RunsApart, RunsInWords, BitsOf
<1> QED BY <1>1, <1>2, <1>3, TakeSystemKeeps, TakeBlocksKeeps DEF kz_cpuHeapTake

(* The bits given back were in no other run. *)
LEMMA FreeKeeps ==
    ASSUME VcHeapInv, NEW n \in Nodes, cpuHeapFree(n)
    PROVE  VcHeapInv'
<1> USE DEF BlockTypes, SmallBlocks, LargeBlocks, SystemHeap
<1>1. /\ alloc' = [alloc EXCEPT ![n] = NoCode]
      /\ blk_status' = [t \in BlockTypes |->
                           IF t = alloc[n].type THEN blk_status[t] \ BitsOf(n) ELSE blk_status[t]]
    BY DEF cpuHeapFree, VcHeapInv, VcTypes, BitsOf, Run
<1>2. VcTypes'
    BY <1>1 DEF VcHeapInv, VcTypes, NoCode
<1>3. alloc'[n].type \notin BlockTypes
    BY <1>1 DEF VcHeapInv, VcTypes, NoCode
<1>4. \A m \in Nodes \ {n} : BitsOf(m)' = BitsOf(m) /\ alloc'[m] = alloc[m]
    BY <1>1 DEF VcHeapInv, VcTypes, BitsOf
<1>5. BitsAreRuns'
    BY <1>1, <1>3, <1>4 DEF VcHeapInv, BitsAreRuns, RunsApart
<1>6. RunsApart'
    BY <1>3, <1>4 DEF VcHeapInv, RunsApart
<1>7. RunsInWords'
    BY <1>3, <1>4 DEF VcHeapInv, RunsInWords
<1> QED BY <1>2, <1>5, <1>6, <1>7 DEF VcHeapInv

(* However functions are recompiled and thrown away, no two of them share  *)
(* a block, and the maps show what is in use.                              *)
THEOREM VcRunsDisjoint == VcHeapSpec => []RunsDisjoint
<1>1. VcHeapInit => VcHeapInv
    BY DEF VcHeapInit, VcHeapInv, VcTypes, BitsAreRuns, RunsApart, RunsInWords, NoCode, BlockTypes,
           SmallBlocks, LargeBlocks, SystemHeap
<1>2. VcHeapInv /\ [VcHeapNext]_VcHeapVars => VcHeapInv'
    <2>1. VcHeapInv /\ UNCHANGED VcHeapVars => VcHeapInv'
        BY DEF VcHeapVars, VcHeapInv, VcTypes, BitsAreRuns, RunsApart, RunsInWords, BitsOf
    <2> QED BY <2>1, TakeKeeps, FreeKeeps DEF VcHeapNext
<1> QED BY <1>1, <1>2, RunsDisjointFromParts, PTL DEF VcHeapSpec

-----------------------------------------------------------------------------
(* The settings.  What a profile brings back depends on the watches in the *)
(* flash being those of the moment it was written, so the invariant is the *)
(* property said of every profile at every time.                           *)

WatchLists == {list \in Seq(WatchLabels) : Len(list) <= WATCH_SLOTS}
Profile == [valid : {TRUE}, version : {TRUE}, data : SettingsData]

SettingsTypes ==
    /\ settings_info \in SettingsData
    /\ kz_watches \in WatchLists
    /\ settings_profile \in ProfilesOf
    /\ flash \in [ProfilesOf -> FlashFound \cup Profile]
    /\ DOMAIN last_saved = ProfilesOf
    /\ settings_ready \in BOOLEAN
    /\ ~settings_ready => settings_profile = 0

SavedInFlash ==
    \A p \in ProfilesOf : flash[p].version /\ flash[p].valid =>
        last_saved[p] = SavedNow(flash[p].data, WatchesIn(flash[p].data))

SettingsInv == SettingsTypes /\ SavedInFlash

LEMMA WatchesInData ==
    ASSUME NEW data \in SettingsData
    PROVE  WatchesIn(data) \in WatchLists
<1>1. /\ data.watch_cnt \in 0..WATCH_SLOTS
      /\ \A i \in 1..data.watch_cnt : data.watches[i] \in WatchLabels
    BY SettingsAssumption DEF SettingsData
<1>2. /\ WatchesIn(data) \in Seq(WatchLabels)
      /\ Len(WatchesIn(data)) = IF 1 <= data.watch_cnt THEN data.watch_cnt ELSE 0
    BY <1>1, SubSeqProperties DEF WatchesIn
<1> QED BY <1>1, <1>2, SettingsAssumption DEF WatchLists

(* What is copied in is what comes out, whatever lay behind it. *)
LEMMA CopiedGivesList ==
    ASSUME NEW data \in SettingsData, NEW list \in WatchLists
    PROVE  /\ Copied(data, list) \in SettingsData
           /\ WatchesIn(Copied(data, list)) = list
           /\ SavedNow(Copied(data, list), list) = SavedNow(data, list)
<1> DEFINE to == Copied(data, list)
<1>1. /\ Len(list) \in 0..WATCH_SLOTS
      /\ \A i \in 1..Len(list) : list[i] \in WatchLabels
      /\ list \in Seq(WatchLabels)
    BY SettingsAssumption DEF WatchLists
<1>2. /\ to.watch_cnt = Len(list) /\ to.cheats = data.cheats /\ to.turbo_type = data.turbo_type
      /\ to.watches = [i \in 1..WATCH_SLOTS |-> IF i <= Len(list) THEN list[i] ELSE data.watches[i]]
    BY DEF Copied, SettingsData
<1>3. to \in SettingsData
    <2> DEFINE copy == [i \in 1..WATCH_SLOTS |-> IF i <= Len(list) THEN list[i] ELSE data.watches[i]]
               counted == [data EXCEPT !.watch_cnt = Len(list)]
    <2>1. counted \in SettingsData /\ counted.watches = data.watches
        BY <1>1 DEF SettingsData
    <2>2. copy \in [1..WATCH_SLOTS -> WatchLabels]
        <3>1. \A i \in 1..WATCH_SLOTS : data.watches[i] \in WatchLabels
            BY DEF SettingsData
        <3>2. \A i \in 1..WATCH_SLOTS : i <= Len(list) => list[i] \in WatchLabels
            BY <1>1, SettingsAssumption
        <3> QED BY <3>1, <3>2
    <2>3. to = [counted EXCEPT !.watches = copy]
        BY DEF Copied, SettingsData
    <2> HIDE DEF to, copy, counted
    <2> QED BY <2>1, <2>2, <2>3 DEF SettingsData
<1> HIDE DEF to
<1>4. \A i \in 1..Len(list) : to.watches[i] = list[i] /\ to.watches[i] \in WatchLabels
    BY <1>1, <1>2, SettingsAssumption
<1>5. /\ WatchesIn(to) \in Seq(WatchLabels)
      /\ Len(WatchesIn(to)) = IF 1 <= Len(list) THEN Len(list) - 1 + 1 ELSE 0
      /\ \A i \in 1..(Len(list) - 1 + 1) : WatchesIn(to)[i] = to.watches[1 + i - 1]
    BY <1>1, <1>2, <1>4, SubSeqProperties DEF WatchesIn
<1>6. /\ Len(WatchesIn(to)) = Len(list)
      /\ \A i \in 1..Len(list) : WatchesIn(to)[i] = list[i]
    <2>1. Len(list) \in Nat /\ Len(list) - 1 + 1 = Len(list) /\ \A i \in 1..Len(list) : 1 + i - 1 = i
        BY <1>1
    <2> QED BY <1>4, <1>5, <2>1
<1>7. WatchesIn(to) = list
    BY <1>1, <1>5, <1>6, SeqEqual
<1>8. SavedNow(to, list) = SavedNow(data, list)
    BY <1>2 DEF SavedNow
<1> QED BY <1>3, <1>7, <1>8 DEF to

LEMMA EmptyWatches ==
    ASSUME NEW data \in SettingsData
    PROVE  /\ DefaultSettings(data) \in SettingsData
           /\ <<>> \in WatchLists
<1>1. DefaultSettings(data) \in SettingsData
    <2> DEFINE d1 == [data EXCEPT !.watch_cnt = 0]
               d2 == [d1 EXCEPT !.cheats = {}]
               d3 == [d2 EXCEPT !.turbo_type = "TOGGLE"]
    <2>1. d1 \in SettingsData
        BY SettingsAssumption DEF SettingsData
    <2>2. d2 \in SettingsData
        <3> HIDE DEF d1
        <3> QED BY <2>1 DEF SettingsData
    <2>3. d3 \in SettingsData
        <3> HIDE DEF d2
        <3> QED BY <2>2 DEF SettingsData
    <2> QED BY <2>3 DEF DefaultSettings
<1>2. <<>> \in WatchLists
    BY SettingsAssumption, EmptySeq DEF WatchLists
<1> QED BY <1>1, <1>2

(* A profile is written: what it brings back is what is in use now. *)
LEMMA WrittenKeeps ==
    ASSUME SettingsInv, NEW data \in SettingsData, NEW list \in WatchLists, NEW p \in ProfilesOf,
           flash' = Written(data, list, p),
           last_saved' = [last_saved EXCEPT ![p] = SavedNow(data, list)]
    PROVE  /\ flash' \in [ProfilesOf -> FlashFound \cup Profile]
           /\ DOMAIN last_saved' = ProfilesOf
           /\ SavedInFlash'
<1> USE DEF SettingsInv, SettingsTypes
<1>1. Copied(data, list) \in SettingsData /\ WatchesIn(Copied(data, list)) = list
      /\ SavedNow(Copied(data, list), list) = SavedNow(data, list)
    BY CopiedGivesList
<1>2. /\ flash'[p] = [valid |-> TRUE, version |-> TRUE, data |-> Copied(data, list)]
      /\ \A q \in ProfilesOf \ {p} : flash'[q] = flash[q] /\ last_saved'[q] = last_saved[q]
      /\ last_saved'[p] = SavedNow(data, list)
    BY DEF Written
<1>3. flash' \in [ProfilesOf -> FlashFound \cup Profile]
    BY <1>1 DEF Written, Profile
<1>4. SavedInFlash'
    <2> SUFFICES ASSUME NEW q \in ProfilesOf, flash'[q].version, flash'[q].valid
                 PROVE  last_saved'[q] = SavedNow(flash'[q].data, WatchesIn(flash'[q].data))
        BY DEF SavedInFlash
    <2>1. CASE q = p
        BY <1>1, <1>2, <2>1
    <2>2. CASE q # p
        BY <1>2, <2>2 DEF SavedInFlash
    <2> QED BY <2>1, <2>2
<1> QED BY <1>3, <1>4

LEMMA LoadKeeps ==
    ASSUME SettingsInv, NEW p \in ProfilesOf, load_settings_from_flashram(p)
    PROVE  /\ settings_info' \in SettingsData
           /\ kz_watches' \in WatchLists
           /\ flash' \in [ProfilesOf -> FlashFound \cup Profile]
           /\ DOMAIN last_saved' = ProfilesOf
           /\ SavedInFlash'
           /\ flash[p].version /\ flash[p].valid =>
                 SavedNow(settings_info', kz_watches') = last_saved[p]
<1> USE DEF SettingsInv, SettingsTypes
<1>1. {flash[p].version, flash[p].valid} \subseteq BOOLEAN
    BY FlashAssumption DEF Profile
<1>2. CASE flash[p].version /\ flash[p].valid
    <2>1. /\ settings_info' = flash[p].data /\ kz_watches' = WatchesIn(flash[p].data)
          /\ UNCHANGED <<flash, last_saved>>
        BY <1>2 DEF load_settings_from_flashram, kz_apply_settings
    <2>2. flash[p].data \in SettingsData
        BY <1>2, FlashAssumption DEF Profile
    <2> QED BY <1>2, <2>1, <2>2, WatchesInData DEF SavedInFlash
<1>3. CASE flash[p].version /\ ~flash[p].valid
    <2>1. /\ settings_info' = DefaultSettings(settings_info)
          /\ kz_watches' = WatchesIn(DefaultSettings(settings_info))
          /\ UNCHANGED <<flash, last_saved>>
        BY <1>3 DEF load_settings_from_flashram, kz_apply_settings
    <2>2. DefaultSettings(settings_info) \in SettingsData
        BY EmptyWatches
    <2> QED BY <1>3, <2>1, <2>2, WatchesInData DEF SavedInFlash
<1>4. CASE ~flash[p].version
    <2> DEFINE defaults == Copied(DefaultSettings(settings_info), <<>>)
    <2>1. defaults \in SettingsData /\ <<>> \in WatchLists
        BY EmptyWatches, CopiedGivesList
    <2>2. /\ settings_info' = defaults /\ kz_watches' = WatchesIn(defaults)
          /\ flash' = Written(defaults, <<>>, p)
          /\ last_saved' = [last_saved EXCEPT ![p] = SavedNow(defaults, <<>>)]
        BY <1>4 DEF load_settings_from_flashram, kz_apply_settings
    <2> HIDE DEF defaults
    <2> QED BY <1>4, <2>1, <2>2, WatchesInData, WrittenKeeps
<1> QED BY <1>1, <1>2, <1>3, <1>4

LEMMA SettingsInitInv == SettingsInit => SettingsInv
<1> SUFFICES ASSUME SettingsInit PROVE SettingsInv
    OBVIOUS
<1>1. NoSettings \in SettingsData
    BY SettingsAssumption DEF NoSettings, SettingsData
<1>2. kz_watches \in WatchLists
    BY SettingsAssumption, EmptySeq DEF SettingsInit, WatchLists
<1>3. 0 \in ProfilesOf
    BY SettingsAssumption DEF ProfilesOf
<1> QED BY <1>1, <1>2, <1>3 DEF SettingsInit, SettingsInv, SettingsTypes, SavedInFlash

LEMMA SettingsStep ==
    ASSUME SettingsInv, SettingsNext PROVE SettingsInv'
<1> USE DEF SettingsInv
<1> DEFINE Kept == UNCHANGED <<flash, last_saved>>
<1>1. ASSUME Kept PROVE SavedInFlash'
    BY <1>1 DEF SavedInFlash
<1>2. 0 \in ProfilesOf /\ NoSettings \in SettingsData
    BY SettingsAssumption DEF ProfilesOf, NoSettings, SettingsData
<1>3. CASE kz_init
    BY <1>2, <1>3, LoadKeeps DEF kz_init, SettingsTypes
<1>4. CASE SwitchedOff
    BY <1>1, <1>2, <1>4, EmptyWatches DEF SwitchedOff, SettingsTypes
<1>5. CASE Running
    <2>1. settings_ready /\ settings_ready'
        BY <1>5 DEF Running
    <2>2. CASE ProfileSelected
        <3>1. settings_profile' \in ProfilesOf
            BY <2>2, SettingsAssumption DEF ProfileSelected, profile_dec, profile_inc, ProfilesOf, SettingsTypes
        <3> QED BY <1>1, <2>1, <2>2, <3>1 DEF ProfileSelected, SettingsTypes
    <2>3. CASE save_profile_onactivate
        BY <2>1, <2>3, WrittenKeeps, CopiedGivesList
           DEF save_profile_onactivate, save_settings_to_flashram, SettingsTypes
    <2>4. CASE load_profile_onactivate
        BY <2>1, <2>4, LoadKeeps DEF load_profile_onactivate, SettingsTypes
    <2>5. DefaultSettings(settings_info) \in SettingsData
          /\ WatchesIn(DefaultSettings(settings_info)) \in WatchLists
        BY EmptyWatches, WatchesInData DEF SettingsTypes
    <2>6. CASE default_settings_onactivate
        BY <1>1, <2>1, <2>5, <2>6 DEF default_settings_onactivate, kz_apply_settings, SettingsTypes
    <2>7. CASE settings_switch_event
        <3>1. settings_info' \in SettingsData
            BY <2>7 DEF settings_switch_event, SettingsTypes, SettingsData
        <3> QED BY <1>1, <2>1, <2>7, <3>1 DEF settings_switch_event, SettingsTypes
    <2>8. CASE command_turbo
        <3>1. settings_info' \in SettingsData
            BY <2>8, SettingsAssumption DEF command_turbo, SettingsTypes, SettingsData
        <3> QED BY <1>1, <2>1, <2>8, <3>1 DEF command_turbo, SettingsTypes
    <2>9. CASE cheat_event
        <3>1. settings_info' \in SettingsData
            BY <2>9, SettingsAssumption DEF cheat_event, SettingsTypes, SettingsData
        <3> QED BY <1>1, <2>1, <2>9, <3>1 DEF cheat_event, SettingsTypes
    <2>10. CASE WatchesChange
        <3>1. kz_watches' \in WatchLists
            BY <2>10, SettingsAssumption DEF WatchesChange, SettingsTypes, WatchLists
        <3> QED BY <1>1, <2>1, <2>10, <3>1 DEF WatchesChange, SettingsTypes
    <2>11. CASE EmergencyCode
        BY <1>1, <2>1, <2>5, <2>11 DEF EmergencyCode, kz_apply_settings, SettingsTypes
    <2>12. CASE ActivateCheats \/ GameSetsSpeed
        BY <1>1, <2>1, <2>12 DEF ActivateCheats, GameSetsSpeed, SettingsTypes
    <2> QED BY <1>5, <2>2, <2>3, <2>4, <2>6, <2>7, <2>8, <2>9, <2>10, <2>11, <2>12 DEF Running
<1> QED BY <1>3, <1>4, <1>5 DEF SettingsNext

(* A profile that is loaded brings back what was in use when it was saved: *)
(* whatever is saved, loaded and changed between, and however often the    *)
(* console is switched off.                                                *)
THEOREM SettingsProfileRestored == SettingsSpec => ProfileRestored
<1>1. SettingsInv /\ [SettingsNext]_SettingsVars => SettingsInv'
    <2>1. SettingsInv /\ UNCHANGED SettingsVars => SettingsInv'
        BY DEF SettingsVars, SettingsInv, SettingsTypes, SavedInFlash
    <2> QED BY <2>1, SettingsStep
<1>2. ASSUME SettingsInv, [SettingsNext]_SettingsVars,
             kz_init \/ (settings_ready /\ load_profile_onactivate),
             flash[settings_profile].version, flash[settings_profile].valid
      PROVE  SavedNow(settings_info', kz_watches') = last_saved[settings_profile]
    <2>1. settings_profile \in ProfilesOf /\ (kz_init => settings_profile = 0)
        BY <1>2 DEF SettingsInv, SettingsTypes, kz_init
    <2> QED BY <1>2, <2>1, LoadKeeps DEF kz_init, load_profile_onactivate
<1> DEFINE Brought ==
        kz_init \/ (settings_ready /\ load_profile_onactivate) =>
            (flash[settings_profile].version /\ flash[settings_profile].valid =>
                 SavedNow(settings_info', kz_watches') = last_saved[settings_profile])
<1>3. SettingsInv /\ [SettingsNext]_SettingsVars => [Brought]_SettingsVars
    BY <1>2
<1>4. SettingsSpec => [][Brought]_SettingsVars
    BY <1>1, <1>3, SettingsInitInv, PTL DEF SettingsSpec
<1> QED BY <1>4, PTL DEF ProfileRestored

-----------------------------------------------------------------------------
(* The trees.  That a child hangs from its parent is enough for a way down *)
(* to end: it cannot come back to where it began.                          *)

(* No two nodes lead to the same one, and none to the first. *)
OneWay(N, next, n) ==
    /\ IsFiniteSet(N) /\ N \subseteq Nat \ {0} /\ next \in [N -> N \cup {0}] /\ n \in N
    /\ \A l, m \in N : next[l] = next[m] => next[l] = 0 \/ l = m
    /\ \A m \in N : next[m] # n

(* The sequence is the way from n to its end. *)
Leads(N, next, n, way) ==
    /\ way \in Seq(N) /\ Len(way) \in Nat \ {0} /\ way[1] = n
    /\ \A k \in 1..(Len(way) - 1) : way[k + 1] = next[way[k]]
    /\ next[way[Len(way)]] = 0

(* A way that leads on for as many steps as there are nodes would come to *)
(* one twice; the first such node would be the one it began at.            *)
LEMMA WayEnds ==
    ASSUME NEW N, NEW next, NEW n, OneWay(N, next, n)
    PROVE  Leads(N, next, n, Way(n, next))
<1>0. /\ IsFiniteSet(N) /\ N \subseteq Nat \ {0} /\ next \in [N -> N \cup {0}] /\ n \in N
      /\ \A l, m \in N : next[l] = next[m] => next[l] = 0 \/ l = m
      /\ \A m \in N : next[m] # n
    BY DEF OneWay
<1> USE <1>0
<1> DEFINE c == Cardinality(DOMAIN next)
           S == N \cup {0}
           G == [k \in 1..c |-> [x \in S |-> IF x = 0 THEN 0 ELSE next[x]]]
           Recurs(f) == f = [k \in 0..c |->
                              IF k = 0 THEN n ELSE IF f[k - 1] = 0 THEN 0 ELSE next[f[k - 1]]]
           at == CHOOSE f : Recurs(f)
           Ends(k) == at[k] = 0 /\ \A j \in 0..(k - 1) : at[j] # 0
           len == CHOOSE k \in DOMAIN at : Ends(k)
<1>1. DOMAIN next = N /\ c = Cardinality(N)
    OBVIOUS
<1>2. c \in Nat
    BY <1>1, FS_CardinalityType
<1>3. Way(n, next) = [k \in 1..len |-> at[k - 1]]
    BY DEF Way
<1> HIDE DEF c
<1>4. PICK f \in [0..c -> S] : f[0] = n /\ \A k \in 1..c : f[k] = G[k][f[k - 1]]
    <2>1. G \in Steps(c, S)
        BY DEF Steps
    <2>2. n \in S
        OBVIOUS
    <2> HIDE DEF G, S
    <2>3. PICK f : f \in Recursions(S, n, c, G)
        BY <1>2, <2>1, <2>2, RecursionUpTo
    <2> QED BY <2>3 DEF Recursions
<1>5. \A k \in 1..c : k - 1 \in 0..c /\ k \in 0..c /\ k # 0
    BY <1>2
<1>6. Recurs(f)
    <2>1. ASSUME NEW k \in 1..c PROVE f[k] = IF f[k - 1] = 0 THEN 0 ELSE next[f[k - 1]]
        <3>1. f[k - 1] \in S
            BY <1>4, <1>5
        <3> QED BY <1>4, <3>1
    <2> HIDE DEF S, G
    <2>2. \A k \in 0..c : k # 0 => k \in 1..c
        BY <1>2
    <2>3. \A k \in 0..c : f[k] = IF k = 0 THEN n ELSE IF f[k - 1] = 0 THEN 0 ELSE next[f[k - 1]]
        BY <1>4, <2>1, <2>2
    <2> QED BY <1>4, <2>3
<1>7. Recurs(at)
    <2> HIDE DEF Recurs
    <2> QED BY <1>6
<1> HIDE DEF at, G
<1>8. DOMAIN at = 0..c /\ at[0] = n
      /\ \A k \in 1..c : at[k] = IF at[k - 1] = 0 THEN 0 ELSE next[at[k - 1]]
    <2>1. at = [k \in 0..c |-> IF k = 0 THEN n ELSE IF at[k - 1] = 0 THEN 0 ELSE next[at[k - 1]]]
        BY <1>7
    <2> HIDE DEF Recurs
    <2> QED BY <1>2, <1>5, <2>1
<1> HIDE DEF Recurs
<1> DEFINE others == {k \in 0..c : at[k] \notin S}
<1>9. others = {}
    <2> SUFFICES ASSUME others # {} PROVE FALSE
        OBVIOUS
    <2>1. PICK m \in others : \A k \in others : m <= k
        <3>1. others \in SUBSET Nat
            BY <1>2
        <3> HIDE DEF others
        <3> QED BY <3>1, LeastNatural
    <2>2. m # 0
        BY <1>8, <2>1
    <2>3. m - 1 \in 0..c /\ ~(m <= m - 1) /\ m \in 1..c
        BY <1>2, <2>1, <2>2
    <2>4. at[m - 1] \in S
        BY <2>1, <2>3
    <2>5. at[m] \in S
        <3>1. at[m] = IF at[m - 1] = 0 THEN 0 ELSE next[at[m - 1]]
            BY <1>8, <2>3
        <3>2. CASE at[m - 1] = 0
            BY <3>1, <3>2
        <3>3. CASE at[m - 1] # 0
            <4>1. at[m - 1] \in N
                BY <2>4, <3>3
            <4>2. next[at[m - 1]] \in S
                BY <4>1
            <4> QED BY <3>1, <3>3, <4>2
        <3> QED BY <3>2, <3>3
    <2> HIDE DEF S
    <2> QED BY <2>1, <2>5
<1>10. \A k \in 0..c : at[k] \in S
    BY <1>9
<1> HIDE DEF others
<1>11. ASSUME NEW i \in 0..c, NEW j \in 0..c, i < j, at[i] = at[j], \A k \in 0..c : at[k] # 0
       PROVE  FALSE
    <2> DEFINE again == {x \in 0..c : \E y \in 0..c : x < y /\ at[x] = at[y]}
    <2>1. again # {}
        BY <1>11
    <2>2. PICK x \in again : \A z \in again : x <= z
        <3>1. again \in SUBSET Nat
            BY <1>2
        <3> HIDE DEF again
        <3> QED BY <2>1, <3>1, LeastNatural
    <2>3. PICK y \in 0..c : x < y /\ at[x] = at[y]
        BY <2>2
    <2>4. y \in 1..c /\ y - 1 \in 0..c /\ x \in 0..c
        BY <1>2, <2>2, <2>3
    <2>5. at[y] = next[at[y - 1]] /\ at[y - 1] \in N /\ at[y] # 0
        BY <1>8, <1>10, <1>11, <2>4
    <2>6. CASE x = 0
        BY <1>8, <2>3, <2>5, <2>6
    <2>7. CASE x # 0
        <3>1. x \in 1..c /\ x - 1 \in 0..c /\ x - 1 < y - 1 /\ ~(x <= x - 1)
            BY <1>2, <2>3, <2>4, <2>7
        <3>2. at[x] = next[at[x - 1]] /\ at[x - 1] \in N /\ at[x] # 0
            BY <1>8, <1>10, <1>11, <3>1, <2>4
        <3>3. at[x - 1] = at[y - 1]
            <4>1. next[at[x - 1]] = next[at[y - 1]] /\ next[at[x - 1]] # 0
                BY <2>3, <2>5, <3>2
            <4> QED BY <2>5, <3>2, <4>1
        <3>4. x - 1 \in again
            BY <2>4, <3>1, <3>3
        <3> HIDE DEF again
        <3> QED BY <2>2, <3>1, <3>4
    <2> QED BY <2>6, <2>7
<1> DEFINE ended == {k \in 0..c : at[k] = 0}
<1>12. ended # {}
    <2> SUFFICES ASSUME ended = {} PROVE FALSE
        OBVIOUS
    <2>1. \A k \in 0..c : at[k] # 0
        OBVIOUS
    <2> DEFINE g == [k \in 0..c |-> at[k]]
    <2>2. g \in [0..c -> N]
        BY <1>10, <2>1
    <2>3. IsFiniteSet(0..c) /\ Cardinality(0..c) = c + 1
        BY <1>2, FS_Interval
    <2>4. Cardinality(N) < Cardinality(0..c)
        BY <1>1, <1>2, <2>3
    <2> DEFINE I == 0..c
    <2>5. \E i, j \in I : i # j /\ g[i] = g[j]
        <3> HIDE DEF g, I
        <3>1. IsFiniteSet(I) /\ Cardinality(N) < Cardinality(I) /\ g \in [I -> N]
            BY <2>2, <2>3, <2>4 DEF I
        <3> QED BY <3>1, FS_PigeonHole
    <2> HIDE DEF g
    <2>6. PICK i \in 0..c, j \in 0..c : i # j /\ at[i] = at[j]
        BY <2>5 DEF g
    <2>7. i < j \/ j < i
        BY <1>2, <2>6
    <2> QED BY <1>11, <2>1, <2>6, <2>7
<1>13. PICK m \in ended : \A k \in ended : m <= k
    <2>1. ended \in SUBSET Nat
        BY <1>2
    <2> HIDE DEF ended
    <2> QED BY <1>12, <2>1, LeastNatural
<1>14. Ends(m) /\ m \in DOMAIN at
    <2>1. \A j \in 0..(m - 1) : j \in 0..c /\ ~(m <= j)
        BY <1>2, <1>13
    <2> QED BY <1>8, <1>13, <2>1
<1>15. len \in DOMAIN at /\ Ends(len)
    <2> HIDE DEF Ends
    <2> QED BY <1>14
<1> HIDE DEF len
<1>16. len \in 1..c /\ len - 1 \in 0..c
    <2>1. len # 0
        BY <1>8, <1>15
    <2> QED BY <1>2, <1>8, <1>15, <2>1
<1>17. ASSUME NEW k \in 1..len PROVE at[k - 1] \in N
    <2>1. k - 1 \in 0..c /\ k - 1 \in 0..(len - 1)
        BY <1>2, <1>16
    <2> QED BY <1>10, <1>15, <2>1
<1> DEFINE way == [k \in 1..len |-> at[k - 1]]
<1>18. way \in [1..len -> N] /\ len \in Nat
    BY <1>16, <1>17
<1>19. way \in Seq(N) /\ Len(way) = len
    <2> HIDE DEF way
    <2> QED BY <1>18, SeqDef, LenProperties
<1>20. way[1] = n
    BY <1>8, <1>16
<1>21. ASSUME NEW k \in 1..(len - 1) PROVE way[k + 1] = next[way[k]]
    <2>1. k \in 1..c /\ k \in 1..len /\ k + 1 \in 1..len /\ (k + 1) - 1 = k
        BY <1>2, <1>16
    <2>2. at[k - 1] \in N
        BY <1>17, <2>1
    <2>3. at[k] = next[at[k - 1]]
        BY <1>8, <2>1, <2>2
    <2> QED BY <2>1, <2>3
<1>22. next[way[len]] = 0
    <2>1. len \in 1..len
        BY <1>16
    <2>2. at[len - 1] \in N /\ at[len] = 0
        BY <1>15, <1>17, <2>1
    <2>3. at[len] = next[at[len - 1]]
        BY <1>8, <1>16, <2>2
    <2> QED BY <2>1, <2>2, <2>3
<1>23. Way(n, next) = way
    BY <1>3
<1> HIDE DEF way
<1> QED BY <1>16, <1>19, <1>20, <1>21, <1>22, <1>23 DEF Leads

Sides == {Left, Right}
TreeNode == [n64_start : Int, n64_end : Int, kid : [Sides -> Nat], parent : Nat]

(* Nodes N whose children are K and whose parents P hang from each other   *)
(* both ways, below the roots R.                                           *)
Hangs(N, K, P, R) ==
    /\ \A n \in N, s \in Sides : K[n][s] # 0 => K[n][s] \in N /\ P[K[n][s]] = n
    /\ \A n \in N : K[n][Left] = K[n][Right] => K[n][Left] = 0
    /\ \A n \in N : IF P[n] = 0 THEN n \in R
                    ELSE P[n] \in N /\ \E s \in Sides : K[P[n]][s] = n
    /\ \A n \in R : n # 0 => n \in N /\ P[n] = 0

Linked(t, R) ==
    /\ IsFiniteSet(DOMAIN t) /\ DOMAIN t \subseteq Nat \ {0} /\ t \in [DOMAIN t -> TreeNode]
    /\ Hangs(DOMAIN t, [n \in DOMAIN t |-> t[n].kid], [n \in DOMAIN t |-> t[n].parent], R)

(* The way down one side from a node that is not itself on that side of    *)
(* its parent.                                                             *)
LEMMA SpineEnds ==
    ASSUME NEW t, NEW R, Linked(t, R), NEW n \in DOMAIN t, NEW s \in Sides,
           \A m \in DOMAIN t : t[m].kid[s] # n
    PROVE  LET spine == Spine(t, n, s) IN
           /\ spine \in Seq(DOMAIN t) /\ Len(spine) \in Nat \ {0} /\ spine[1] = n
           /\ \A k \in 1..(Len(spine) - 1) : spine[k + 1] = t[spine[k]].kid[s]
           /\ t[spine[Len(spine)]].kid[s] = 0
<1> DEFINE N == DOMAIN t
           next == [m \in DOMAIN t |-> t[m].kid[s]]
           spine == Spine(t, n, s)
<1>1. IsFiniteSet(N) /\ N \subseteq Nat \ {0} /\ n \in N /\ t \in [N -> TreeNode]
    BY DEF Linked
<1> DEFINE K == [m \in N |-> t[m].kid]
           P == [m \in N |-> t[m].parent]
<1>11. Hangs(N, K, P, R)
    BY DEF Linked
<1>12. \A m \in N : t[m].kid[s] # 0 => t[m].kid[s] \in N /\ P[t[m].kid[s]] = m
    <2>1. \A m \in N : K[m] = t[m].kid
        OBVIOUS
    <2> HIDE DEF K, P
    <2> QED BY <1>11, <2>1 DEF Hangs
<1> HIDE DEF K, P
<1>2. \A m \in N : next[m] = t[m].kid[s]
    OBVIOUS
<1>3. next \in [N -> N \cup {0}]
    BY <1>12
<1>4. \A l, m \in N : next[l] = next[m] => next[l] = 0 \/ l = m
    BY <1>2, <1>12
<1>5. spine = Way(n, next)
    BY DEF Spine
<1>6. \A m \in N : next[m] # n
    BY <1>2
<1> HIDE DEF next, spine
<1>7. /\ spine \in Seq(N) /\ Len(spine) \in Nat \ {0} /\ spine[1] = n
      /\ \A k \in 1..(Len(spine) - 1) : spine[k + 1] = next[spine[k]]
      /\ next[spine[Len(spine)]] = 0
    <2> HIDE DEF N
    <2>1. OneWay(N, next, n)
        BY <1>1, <1>3, <1>4, <1>6 DEF OneWay
    <2>2. Leads(N, next, n, spine)
        BY <1>5, <2>1, WayEnds
    <2> QED BY <2>2 DEF Leads
<1>8. \A k \in 1..Len(spine) : spine[k] \in N
    BY <1>7, ElementOfSeq
<1>9. Len(spine) \in 1..Len(spine) /\ \A k \in 1..(Len(spine) - 1) : k \in 1..Len(spine)
    BY <1>7
<1>10. /\ \A k \in 1..(Len(spine) - 1) : spine[k + 1] = t[spine[k]].kid[s]
       /\ t[spine[Len(spine)]].kid[s] = 0
    BY <1>2, <1>7, <1>8, <1>9
<1> QED BY <1>7, <1>10 DEF spine

(* A new root: what n is, and that nothing else is touched. *)
RootAdded(N, K, P, R, n, L, Q, A) ==
    /\ Hangs(N, K, P, R) /\ 0 \notin N /\ n \notin N /\ n # 0
    /\ \A x \in N : L[x] = K[x] /\ Q[x] = P[x]
    /\ Q[n] = 0 /\ L[n][Left] = 0 /\ L[n][Right] = 0
    /\ n \in A /\ (\A x \in N : x \in R => x \in A) /\ \A x \in A : x = n \/ x = 0 \/ x \in R

(* The new node is a root. *)
LEMMA HangsRoot ==
    ASSUME NEW N, NEW K, NEW P, NEW R, NEW n, NEW L, NEW Q, NEW A,
           RootAdded(N, K, P, R, n, L, Q, A)
    PROVE  Hangs(N \cup {n}, L, Q, A)
<1> USE DEF RootAdded
<1>1. ASSUME NEW x \in N \cup {n}, NEW s \in Sides, L[x][s] # 0
      PROVE  L[x][s] \in N \cup {n} /\ Q[L[x][s]] = x
    <2>1. x \in N /\ L[x][s] = K[x][s]
        BY <1>1 DEF Sides
    <2> QED BY <1>1, <2>1 DEF Hangs
<1>2. ASSUME NEW x \in N \cup {n}, L[x][Left] = L[x][Right] PROVE L[x][Left] = 0
    BY <1>2 DEF Hangs
<1>3. ASSUME NEW x \in N \cup {n}
      PROVE  IF Q[x] = 0 THEN x \in A
             ELSE Q[x] \in N \cup {n} /\ \E s \in Sides : L[Q[x]][s] = x
    <2>1. CASE x = n
        BY <2>1
    <2>2. CASE x # n
        <3>1. x \in N /\ Q[x] = P[x]
            BY <2>2
        <3>2. IF P[x] = 0 THEN x \in R ELSE P[x] \in N /\ \E s \in Sides : K[P[x]][s] = x
            BY <3>1 DEF Hangs
        <3> QED BY <3>1, <3>2
    <2> QED BY <2>1, <2>2
<1>4. ASSUME NEW x \in A, x # 0 PROVE x \in N \cup {n} /\ Q[x] = 0
    BY <1>4 DEF Hangs
<1> QED BY <1>1, <1>2, <1>3, <1>4 DEF Hangs

(* A new leaf n on side s of m. *)
LeafAdded(N, K, P, R, n, L, Q, m, s) ==
    /\ Hangs(N, K, P, R) /\ 0 \notin N /\ n \notin N /\ n # 0
    /\ m \in N /\ s \in Sides /\ K[m][s] = 0
    /\ \A x \in N : Q[x] = P[x]
    /\ \A x \in N : \A y \in Sides : L[x][y] = IF x = m /\ y = s THEN n ELSE K[x][y]
    /\ Q[n] = m /\ L[n][Left] = 0 /\ L[n][Right] = 0

(* The new node is a leaf below a node that had room on that side. *)
LEMMA HangsLeaf ==
    ASSUME NEW N, NEW K, NEW P, NEW R, NEW n, NEW L, NEW Q, NEW m, NEW s,
           LeafAdded(N, K, P, R, n, L, Q, m, s)
    PROVE  Hangs(N \cup {n}, L, Q, R)
<1> USE DEF LeafAdded
<1>0. Left \in Sides /\ Right \in Sides /\ Left # Right /\ Sides = {Left, Right}
    BY DEF Sides, Left, Right
<1>1. ASSUME NEW x \in N \cup {n}, NEW y \in Sides, L[x][y] # 0
      PROVE  L[x][y] \in N \cup {n} /\ Q[L[x][y]] = x
    <2>1. x \in N
        BY <1>0, <1>1
    <2>2. CASE x = m /\ y = s
        BY <2>2
    <2>3. CASE ~(x = m /\ y = s)
        <3>1. L[x][y] = K[x][y]
            BY <2>1, <2>3
        <3>2. K[x][y] \in N /\ P[K[x][y]] = x
            BY <1>1, <2>1, <3>1 DEF Hangs
        <3> QED BY <3>1, <3>2
    <2> QED BY <2>2, <2>3
<1>2. ASSUME NEW x \in N \cup {n}, L[x][Left] = L[x][Right] PROVE L[x][Left] = 0
    <2>1. CASE x = n
        BY <2>1
    <2>2. CASE x \in N
        <3>1. /\ L[x][Left] = IF x = m /\ Left = s THEN n ELSE K[x][Left]
              /\ L[x][Right] = IF x = m /\ Right = s THEN n ELSE K[x][Right]
            BY <1>0, <2>2
        <3>2. K[x][Left] # n /\ K[x][Right] # n
            BY <1>0, <2>2 DEF Hangs
        <3>3. K[x][Left] = K[x][Right] => K[x][Left] = 0
            BY <2>2 DEF Hangs
        <3>4. s = Left \/ s = Right
            BY <1>0
        <3>5. CASE x # m
            BY <1>2, <3>1, <3>3, <3>5
        <3>6. CASE x = m
            <4>1. CASE s = Left
                <5>1. L[x][Left] = n /\ L[x][Right] = K[x][Right]
                    BY <1>0, <3>1, <3>6, <4>1
                <5> QED BY <1>2, <3>2, <5>1
            <4>2. CASE s = Right
                <5>1. L[x][Right] = n /\ L[x][Left] = K[x][Left]
                    BY <1>0, <3>1, <3>6, <4>2
                <5> QED BY <1>2, <3>2, <5>1
            <4> QED BY <3>4, <4>1, <4>2
        <3> QED BY <3>5, <3>6
    <2> QED BY <2>1, <2>2
<1>3. ASSUME NEW x \in N \cup {n}
      PROVE  IF Q[x] = 0 THEN x \in R
             ELSE Q[x] \in N \cup {n} /\ \E y \in Sides : L[Q[x]][y] = x
    <2>1. CASE x = n
        <3>1. Q[x] = m /\ m # 0 /\ L[m][s] = x
            BY <2>1
        <3> QED BY <3>1
    <2>2. CASE x # n
        <3>1. x \in N /\ Q[x] = P[x] /\ x # 0
            BY <2>2
        <3>2. IF P[x] = 0 THEN x \in R ELSE P[x] \in N /\ \E y \in Sides : K[P[x]][y] = x
            BY <3>1 DEF Hangs
        <3>3. ASSUME P[x] # 0 PROVE \E y \in Sides : L[P[x]][y] = x
            <4>1. PICK y \in Sides : K[P[x]][y] = x
                BY <3>2, <3>3
            <4>2. L[P[x]][y] = x
                BY <3>1, <3>2, <3>3, <4>1
            <4> QED BY <4>2
        <3> QED BY <3>1, <3>2, <3>3
    <2> QED BY <2>1, <2>2
<1>4. ASSUME NEW x \in R, x # 0 PROVE x \in N \cup {n} /\ Q[x] = 0
    BY <1>4 DEF Hangs
<1> QED BY <1>1, <1>2, <1>3, <1>4 DEF Hangs

(* One field of one node is written. *)
SameCode(m, n) == m.n64_start = n.n64_start /\ m.n64_end = n.n64_end
WithKid(t, a, s, v) == [t EXCEPT ![a].kid[s] = v]
KidIs(N, t, u, a, s, v) ==
    /\ u \in [N -> TreeNode]
    /\ \A n \in N : /\ u[n].parent = t[n].parent /\ SameCode(u[n], t[n])
                    /\ \A x \in Sides : u[n].kid[x] = IF n = a /\ x = s THEN v ELSE t[n].kid[x]

(* The child on one side of a node is written. *)
LEMMA KidWritten ==
    ASSUME NEW N, NEW t \in [N -> TreeNode], NEW a \in N, NEW s \in Sides, NEW v \in Nat
    PROVE  KidIs(N, t, WithKid(t, a, s, v), a, s, v)
<1> DEFINE kid == [t[a].kid EXCEPT ![s] = v]
           new == [t[a] EXCEPT !.kid = kid]
           u == [t EXCEPT ![a] = new]
<1>1. t[a] \in TreeNode /\ t[a].kid \in [Sides -> Nat]
    BY DEF TreeNode
<1>2. kid \in [Sides -> Nat] /\ \A x \in Sides : kid[x] = IF x = s THEN v ELSE t[a].kid[x]
    BY <1>1
<1> HIDE DEF kid
<1>3. new \in TreeNode /\ new.kid = kid /\ new.parent = t[a].parent /\ SameCode(new, t[a])
    BY <1>1, <1>2 DEF TreeNode, SameCode
<1> HIDE DEF new
<1>4. u \in [N -> TreeNode] /\ \A n \in N : u[n] = IF n = a THEN new ELSE t[n]
    BY <1>3
<1>5. u = WithKid(t, a, s, v)
    BY DEF new, kid, WithKid
<1> HIDE DEF u
<1>6. ASSUME NEW n \in N
      PROVE  /\ u[n].parent = t[n].parent /\ SameCode(u[n], t[n])
             /\ \A x \in Sides : u[n].kid[x] = IF n = a /\ x = s THEN v ELSE t[n].kid[x]
    <2>1. CASE n = a
        BY <1>2, <1>3, <1>4, <2>1
    <2>2. CASE n # a
        BY <1>4, <2>2 DEF SameCode
    <2> QED BY <2>1, <2>2
<1> QED BY <1>4, <1>5, <1>6 DEF KidIs

(* The same for the parent. *)
WithParent(t, a, v) == [t EXCEPT ![a].parent = v]
ParentIs(N, t, u, a, v) ==
    /\ u \in [N -> TreeNode]
    /\ \A n \in N : /\ u[n].parent = (IF n = a THEN v ELSE t[n].parent) /\ SameCode(u[n], t[n])
                    /\ \A x \in Sides : u[n].kid[x] = t[n].kid[x]

(* The parent of a node is written. *)
LEMMA ParentWritten ==
    ASSUME NEW N, NEW t \in [N -> TreeNode], NEW a \in N, NEW v \in Nat
    PROVE  ParentIs(N, t, WithParent(t, a, v), a, v)
<1> DEFINE new == [t[a] EXCEPT !.parent = v]
           u == [t EXCEPT ![a] = new]
<1>1. t[a] \in TreeNode
    OBVIOUS
<1>2. new \in TreeNode /\ new.kid = t[a].kid /\ new.parent = v /\ SameCode(new, t[a])
    BY <1>1 DEF TreeNode, SameCode
<1> HIDE DEF new
<1>3. u \in [N -> TreeNode] /\ \A n \in N : u[n] = IF n = a THEN new ELSE t[n]
    BY <1>2
<1>4. u = WithParent(t, a, v)
    BY DEF new, WithParent
<1> HIDE DEF u
<1>5. ASSUME NEW n \in N
      PROVE  /\ u[n].parent = (IF n = a THEN v ELSE t[n].parent) /\ SameCode(u[n], t[n])
             /\ \A x \in Sides : u[n].kid[x] = t[n].kid[x]
    <2>1. CASE n = a
        BY <1>2, <1>3, <2>1
    <2>2. CASE n # a
        BY <1>3, <2>2 DEF SameCode
    <2> QED BY <2>1, <2>2
<1> QED BY <1>3, <1>4, <1>5 DEF ParentIs

(* Moving mid, which hangs from above on side s, below start, and what     *)
(* hung there, second, below bottom, where nothing hung.                   *)
Moves(N, K, P, R, s, o, start, mid, second, above, bottom) ==
    /\ Hangs(N, K, P, R) /\ 0 \notin N
    /\ s \in Sides /\ o \in Sides /\ o # s
    /\ start \in N /\ mid \in N /\ second \in N /\ above \in N /\ bottom \in N
    /\ start \in R /\ K[start][s] = second /\ second # mid /\ K[above][s] = mid
    /\ bottom # start /\ K[bottom][o] = 0

(* What is written then. *)
MovedTo(N, K, P, L, Q, s, o, start, mid, second, above, bottom) ==
    /\ \A n \in N : Q[n] = IF n = second THEN bottom ELSE IF n = mid THEN start ELSE P[n]
    /\ \A n \in N : \A x \in Sides :
          L[n][x] = IF n = bottom /\ x = o THEN second
                    ELSE IF n = start /\ x = s THEN mid
                    ELSE IF n = above /\ x = s THEN 0 ELSE K[n][x]

(* No node is lost by it, and none hangs in two places. *)
LEMMA HangsAgain ==
    ASSUME NEW N, NEW R, NEW K, NEW P, NEW L, NEW Q, NEW s, NEW o,
           NEW start, NEW mid, NEW second, NEW above, NEW bottom,
           Moves(N, K, P, R, s, o, start, mid, second, above, bottom),
           MovedTo(N, K, P, L, Q, s, o, start, mid, second, above, bottom)
    PROVE  Hangs(N, L, Q, R)
<1> USE DEF Moves, MovedTo
<1>1. Sides = {s, o} /\ Sides = {Left, Right} /\ Left # Right
    BY DEF Sides, Left, Right
<1>2. \A n \in N, x \in Sides : K[n][x] # 0 => K[n][x] \in N /\ P[K[n][x]] = n
    BY DEF Hangs
<1>3. \A n \in N : K[n][s] = K[n][o] => K[n][s] = 0
    <2>1. (s = Left /\ o = Right) \/ (s = Right /\ o = Left)
        BY <1>1
    <2>2. \A n \in N : K[n][Left] = K[n][Right] => K[n][Left] = 0
        BY DEF Hangs
    <2> QED BY <2>1, <2>2
<1>4. /\ P[start] = 0 /\ P[second] = start /\ P[mid] = above
      /\ start # second /\ start # mid /\ above # start
    <2>1. P[start] = 0
        BY DEF Hangs
    <2> QED BY <1>2, <2>1
<1>5. \A n \in N, x \in Sides : K[n][x] = mid => n = above /\ x = s
    BY <1>1, <1>2, <1>3, <1>4
<1>6. \A n \in N, x \in Sides : K[n][x] = second => n = start /\ x = s
    BY <1>1, <1>2, <1>3, <1>4
<1>7. ASSUME NEW n \in N, NEW x \in Sides, L[n][x] # 0
      PROVE  L[n][x] \in N /\ Q[L[n][x]] = n
    <2>1. CASE n = bottom /\ x = o
        BY <2>1
    <2>2. CASE ~(n = bottom /\ x = o) /\ n = start /\ x = s
        BY <2>2
    <2>3. CASE ~(n = bottom /\ x = o) /\ ~(n = start /\ x = s)
        <3>1. L[n][x] = K[n][x] /\ ~(n = above /\ x = s)
            BY <1>7, <2>3
        <3>2. K[n][x] # mid /\ K[n][x] # second
            BY <1>5, <1>6, <2>3, <3>1
        <3> QED BY <1>2, <1>7, <3>1, <3>2
    <2> QED BY <2>1, <2>2, <2>3
<1>8. ASSUME NEW n \in N, L[n][s] = L[n][o] PROVE L[n][s] = 0
    <2>1. CASE n = bottom
        <3>1. L[n][o] = second /\ (L[n][s] = 0 \/ L[n][s] = K[n][s])
            BY <2>1
        <3> QED BY <1>6, <1>8, <2>1, <3>1
    <2>2. CASE n # bottom /\ n = start
        <3>1. L[n][s] = mid /\ L[n][o] = K[n][o]
            BY <2>2
        <3> QED BY <1>5, <1>8, <3>1
    <2>3. CASE n # bottom /\ n # start
        <3>1. L[n][o] = K[n][o] /\ (L[n][s] = 0 \/ L[n][s] = K[n][s])
            BY <2>3
        <3> QED BY <1>3, <1>8, <3>1
    <2> QED BY <2>1, <2>2, <2>3
<1>9. ASSUME NEW n \in N
      PROVE  IF Q[n] = 0 THEN n \in R
             ELSE Q[n] \in N /\ \E x \in Sides : L[Q[n]][x] = n
    <2>1. CASE n = second
        <3>1. Q[n] = bottom /\ L[bottom][o] = n /\ Q[n] # 0
            BY <2>1
        <3> QED BY <3>1
    <2>2. CASE n = mid
        <3>1. Q[n] = start /\ L[start][s] = n /\ Q[n] # 0
            BY <2>2
        <3> QED BY <3>1
    <2>3. CASE n # second /\ n # mid
        <3>1. Q[n] = P[n]
            BY <2>3
        <3>2. CASE P[n] = 0
            BY <3>1, <3>2 DEF Hangs
        <3>3. CASE P[n] # 0
            <4>1. P[n] \in N /\ \E x \in Sides : K[P[n]][x] = n
                BY <3>3 DEF Hangs
            <4>2. PICK x \in Sides : K[P[n]][x] = n
                BY <4>1
            <4>3. L[P[n]][x] = n
                BY <2>3, <4>1, <4>2
            <4> QED BY <3>1, <3>3, <4>1, <4>3
        <3> QED BY <3>2, <3>3
    <2> QED BY <2>1, <2>2, <2>3
<1>10. ASSUME NEW n \in R, n # 0 PROVE n \in N /\ Q[n] = 0
    <2>1. n \in N /\ P[n] = 0
        BY <1>10 DEF Hangs
    <2> QED BY <1>4, <2>1
<1>11. \A n \in N : L[n][Left] = L[n][Right] => L[n][Left] = 0
    BY <1>1, <1>8
<1> QED BY <1>7, <1>9, <1>10, <1>11 DEF Hangs

(* What it is for nodes to be linked, in terms of their fields. *)
LEMMA LinkedFacts ==
    ASSUME NEW t, NEW R, Linked(t, R)
    PROVE  /\ DOMAIN t \subseteq Nat \ {0} /\ IsFiniteSet(DOMAIN t) /\ t \in [DOMAIN t -> TreeNode]
           /\ \A n \in DOMAIN t, s \in Sides :
                 t[n].kid[s] # 0 => t[n].kid[s] \in DOMAIN t /\ t[t[n].kid[s]].parent = n
           /\ \A n \in DOMAIN t : t[n].kid[Left] = t[n].kid[Right] => t[n].kid[Left] = 0
           /\ \A n \in DOMAIN t :
                 IF t[n].parent = 0 THEN n \in R
                 ELSE t[n].parent \in DOMAIN t /\ \E s \in Sides : t[t[n].parent].kid[s] = n
           /\ \A n \in R : n # 0 => n \in DOMAIN t /\ t[n].parent = 0
<1> DEFINE N == DOMAIN t
           K == [n \in N |-> t[n].kid]
           P == [n \in N |-> t[n].parent]
<1>1. N \subseteq Nat \ {0} /\ IsFiniteSet(N) /\ t \in [N -> TreeNode] /\ Hangs(N, K, P, R)
    BY DEF Linked
<1>2. \A n \in N : K[n] = t[n].kid /\ P[n] = t[n].parent
    OBVIOUS
<1> HIDE DEF K, P, N
<1>3. \A n \in N, s \in Sides : t[n].kid[s] # 0 => t[n].kid[s] \in N /\ t[t[n].kid[s]].parent = n
    <2> SUFFICES ASSUME NEW n \in N, NEW s \in Sides, t[n].kid[s] # 0
                 PROVE  t[n].kid[s] \in N /\ t[t[n].kid[s]].parent = n
        OBVIOUS
    <2>1. K[n][s] # 0 /\ K[n][s] = t[n].kid[s]
        BY <1>2
    <2>2. K[n][s] \in N /\ P[K[n][s]] = n
        BY <1>1, <2>1 DEF Hangs
    <2> QED BY <1>2, <2>1, <2>2
<1>4. \A n \in N : t[n].kid[Left] = t[n].kid[Right] => t[n].kid[Left] = 0
    BY <1>1, <1>2 DEF Hangs
<1>5. \A n \in N : IF t[n].parent = 0 THEN n \in R
                   ELSE t[n].parent \in N /\ \E s \in Sides : t[t[n].parent].kid[s] = n
    <2> SUFFICES ASSUME NEW n \in N
                 PROVE  IF t[n].parent = 0 THEN n \in R
                        ELSE t[n].parent \in N /\ \E s \in Sides : t[t[n].parent].kid[s] = n
        OBVIOUS
    <2>1. IF P[n] = 0 THEN n \in R ELSE P[n] \in N /\ \E s \in Sides : K[P[n]][s] = n
        BY <1>1 DEF Hangs
    <2> QED BY <1>2, <2>1
<1>6. \A n \in R : n # 0 => n \in N /\ t[n].parent = 0
    BY <1>1, <1>2 DEF Hangs
<1> QED BY <1>1, <1>3, <1>4, <1>5, <1>6 DEF N

(* The children and the parents of the nodes. *)
Kids(t) == [n \in DOMAIN t |-> t[n].kid]
Parents(t) == [n \in DOMAIN t |-> t[n].parent]

(* The assignments of kz_treeBalance, one after the other. *)
LEMMA RehungWrites ==
    ASSUME NEW t, DOMAIN t \subseteq Nat \ {0}, t \in [DOMAIN t -> TreeNode], NEW s \in Sides,
           NEW start \in DOMAIN t, NEW mid \in DOMAIN t, NEW second \in DOMAIN t,
           NEW bottom \in DOMAIN t, t[mid].parent \in DOMAIN t
    PROVE  LET u == Rehung(t, start, s, mid, second, bottom) IN
           /\ u \in [DOMAIN t -> TreeNode] /\ \A n \in DOMAIN t : SameCode(u[n], t[n])
           /\ MovedTo(DOMAIN t, Kids(t), Parents(t), Kids(u), Parents(u),
                      s, Opposite(s), start, mid, second, t[mid].parent, bottom)
<1> DEFINE o == Opposite(s)
           above == t[mid].parent
<1>0. o \in Sides /\ o # s
    BY DEF Sides, Opposite, Left, Right
<1> HIDE DEF o, above
<1> DEFINE N == DOMAIN t
           t1 == WithKid(t, above, s, 0)
           t2 == WithKid(t1, start, s, mid)
           t3 == WithParent(t2, mid, start)
           t4 == WithKid(t3, bottom, o, second)
           t5 == WithParent(t4, second, bottom)
           K == [n \in N |-> t[n].kid]
           P == [n \in N |-> t[n].parent]
           L == [n \in N |-> t5[n].kid]
           Q == [n \in N |-> t5[n].parent]
<1>1. N \subseteq Nat \ {0} /\ t \in [N -> TreeNode]
    OBVIOUS
<1>2. 0 \in Nat /\ mid \in Nat /\ start \in Nat /\ second \in Nat /\ bottom \in Nat
    BY <1>1
<1>3. \A n \in N : K[n] = t[n].kid /\ P[n] = t[n].parent
    OBVIOUS
<1> HIDE DEF N, K, P
<1>4. start \in N /\ mid \in N /\ second \in N /\ above \in N /\ bottom \in N
    BY DEF N, above
<1>5. KidIs(N, t, t1, above, s, 0)
    BY <1>0, <1>1, <1>2, <1>4, KidWritten
<1> HIDE DEF t1
<1>6. KidIs(N, t1, t2, start, s, mid)
    <2>1. t1 \in [N -> TreeNode]
        BY <1>5 DEF KidIs
    <2> QED BY <1>0, <1>2, <1>4, <2>1, KidWritten
<1> HIDE DEF t2
<1>7. ParentIs(N, t2, t3, mid, start)
    <2>1. t2 \in [N -> TreeNode]
        BY <1>6 DEF KidIs
    <2> QED BY <1>2, <1>4, <2>1, ParentWritten
<1> HIDE DEF t3
<1>8. KidIs(N, t3, t4, bottom, o, second)
    <2>1. t3 \in [N -> TreeNode]
        BY <1>7 DEF ParentIs
    <2> QED BY <1>0, <1>2, <1>4, <2>1, KidWritten
<1> HIDE DEF t4
<1>9. ParentIs(N, t4, t5, second, bottom)
    <2>1. t4 \in [N -> TreeNode]
        BY <1>8 DEF KidIs
    <2> QED BY <1>2, <1>4, <2>1, ParentWritten
<1> HIDE DEF t5
<1>10. \A n \in N : L[n] = t5[n].kid /\ Q[n] = t5[n].parent
    OBVIOUS
<1> HIDE DEF L, Q
<1>11. ASSUME NEW n \in N
       PROVE  Q[n] = IF n = second THEN bottom ELSE IF n = mid THEN start ELSE P[n]
    <2>1. /\ t1[n].parent = t[n].parent /\ t2[n].parent = t1[n].parent
          /\ t4[n].parent = t3[n].parent
        BY <1>5, <1>6, <1>8 DEF KidIs
    <2>2. /\ t3[n].parent = IF n = mid THEN start ELSE t2[n].parent
          /\ t5[n].parent = IF n = second THEN bottom ELSE t4[n].parent
        BY <1>7, <1>9 DEF ParentIs
    <2> QED BY <1>3, <1>10, <2>1, <2>2
<1>12. ASSUME NEW n \in N, NEW x \in Sides
       PROVE  L[n][x] = IF n = bottom /\ x = o THEN second
                        ELSE IF n = start /\ x = s THEN mid
                        ELSE IF n = above /\ x = s THEN 0 ELSE K[n][x]
    <2>1. /\ t1[n].kid[x] = IF n = above /\ x = s THEN 0 ELSE t[n].kid[x]
          /\ t2[n].kid[x] = IF n = start /\ x = s THEN mid ELSE t1[n].kid[x]
          /\ t4[n].kid[x] = IF n = bottom /\ x = o THEN second ELSE t3[n].kid[x]
        BY <1>5, <1>6, <1>8 DEF KidIs
    <2>2. t3[n].kid[x] = t2[n].kid[x] /\ t5[n].kid[x] = t4[n].kid[x]
        BY <1>7, <1>9 DEF ParentIs
    <2> QED BY <1>3, <1>10, <2>1, <2>2
<1>13. ASSUME NEW n \in N PROVE SameCode(t5[n], t[n])
    <2>1. SameCode(t1[n], t[n]) /\ SameCode(t2[n], t1[n]) /\ SameCode(t4[n], t3[n])
        BY <1>5, <1>6, <1>8 DEF KidIs
    <2>2. SameCode(t3[n], t2[n]) /\ SameCode(t5[n], t4[n])
        BY <1>7, <1>9 DEF ParentIs
    <2> QED BY <2>1, <2>2 DEF SameCode
<1>14. MovedTo(N, K, P, L, Q, s, o, start, mid, second, above, bottom)
    BY <1>11, <1>12 DEF MovedTo
<1>15. t5 \in [N -> TreeNode] /\ DOMAIN t5 = N
    BY <1>9 DEF ParentIs
<1>16. K = Kids(t) /\ P = Parents(t) /\ L = Kids(t5) /\ Q = Parents(t5)
    BY <1>15 DEF K, P, L, Q, N, Kids, Parents
<1>17. t5 = Rehung(t, start, s, mid, second, bottom)
    BY DEF Rehung, t5, t4, t3, t2, t1, WithKid, WithParent, o, above
<1> QED BY <1>13, <1>14, <1>15, <1>16, <1>17 DEF N, o, above

LEMMA RehungLinked ==
    ASSUME NEW t, NEW R, Linked(t, R), NEW s \in Sides, NEW start, NEW mid, NEW second, NEW bottom,
           Moves(DOMAIN t, Kids(t), Parents(t), R, s, Opposite(s),
                 start, mid, second, t[mid].parent, bottom)
    PROVE  LET u == Rehung(t, start, s, mid, second, bottom)
           IN  Linked(u, R) /\ DOMAIN u = DOMAIN t
<1> DEFINE u == Rehung(t, start, s, mid, second, bottom)
           N == DOMAIN t
<1>1. IsFiniteSet(N) /\ N \subseteq Nat \ {0} /\ t \in [N -> TreeNode]
    BY DEF Linked
<1>2. start \in N /\ mid \in N /\ second \in N /\ t[mid].parent \in N /\ bottom \in N
    BY DEF Moves
<1>3. /\ u \in [N -> TreeNode]
      /\ MovedTo(N, Kids(t), Parents(t), Kids(u), Parents(u),
                 s, Opposite(s), start, mid, second, t[mid].parent, bottom)
    BY <1>1, <1>2, RehungWrites
<1>4. Hangs(N, Kids(u), Parents(u), R)
    BY <1>3, HangsAgain
<1> HIDE DEF u
<1>5. DOMAIN u = N
    BY <1>3
<1> QED BY <1>1, <1>3, <1>4, <1>5 DEF Linked, Kids, Parents, u

(* A way down one side. *)
Down(N, K, s, from, way) ==
    /\ way \in Seq(N) /\ Len(way) \in Nat \ {0} /\ way[1] = from
    /\ \A k \in 1..(Len(way) - 1) : way[k + 1] = K[way[k]][s]

(* What is moved when the spine on one side of a root is long, and where   *)
(* it is found: the middle and the one above it on the spine, and the end  *)
(* of the chain from the middle down its other side.                       *)
Found(t, R, start, side) ==
    LET N      == DOMAIN t
        spine  == Spine(t, start, side)
        o      == Opposite(side)
        mid    == Middle(spine)
        chain  == Spine(t, mid, o)
        bottom == Bottom(t, mid, o)
        i      == 1 + (Len(spine) - 1) \div 2
    IN /\ Moves(N, Kids(t), Parents(t), R, side, o, start, mid, spine[2], t[mid].parent, bottom)
       /\ Down(N, Kids(t), side, start, spine) /\ Down(N, Kids(t), o, mid, chain)
       /\ i \in 3..Len(spine) /\ mid = spine[i] /\ t[mid].parent = spine[i - 1]
       /\ bottom = chain[Len(chain)]

LEMMA LongSpine ==
    ASSUME NEW t, NEW R, Linked(t, R), NEW start \in R, NEW side \in Sides, start # 0,
           ~(Len(Spine(t, start, side)) - 1 < DEPTH)
    PROVE  Found(t, R, start, side)
<1> DEFINE N == DOMAIN t
           spine == Spine(t, start, side)
           o == Opposite(side)
           mid == Middle(spine)
           above == t[mid].parent
           second == spine[2]
           chain == Spine(t, mid, o)
           bottom == Bottom(t, mid, o)
<1>0. start # 0 /\ ~(Len(spine) - 1 < DEPTH)
    OBVIOUS
<1> HIDE DEF bottom, Bottom, chain, mid, above, second, o
<1>1. /\ N \subseteq Nat \ {0} /\ 0 \notin N
      /\ \A n \in N, s \in Sides : t[n].kid[s] # 0 => t[n].kid[s] \in N /\ t[t[n].kid[s]].parent = n
      /\ start \in N /\ t[start].parent = 0
    BY <1>0, LinkedFacts
<1> HIDE DEF spine
<1>2. \A n \in N : t[n].kid[Left] = t[n].kid[Right] => t[n].kid[Left] = 0
    BY LinkedFacts
<1>3. o \in Sides /\ o # side /\ Sides = {side, o} /\ Sides = {Left, Right}
    BY DEF Sides, Opposite, Left, Right, o
<1>4. \A n \in N : t[n].kid[side] = t[n].kid[o] => t[n].kid[side] = 0
    <2>1. (side = Left /\ o = Right) \/ (side = Right /\ o = Left)
        BY <1>3
    <2> QED BY <1>2, <2>1
<1>5. \A m \in N, s \in Sides : t[m].kid[s] # start
    BY <1>1
<1>6. /\ spine \in Seq(N) /\ Len(spine) \in Nat \ {0} /\ spine[1] = start
      /\ \A k \in 1..(Len(spine) - 1) : spine[k + 1] = t[spine[k]].kid[side]
    BY <1>1, <1>5, SpineEnds DEF spine
<1> DEFINE i == 1 + (Len(spine) - 1) \div 2
           len == Len(spine)
<1>7. i \in 3..len /\ len \in Nat
    <2>1. len - 1 >= 4
        BY <1>0, <1>6, VcTreeAssumption
    <2> HIDE DEF spine
    <2> QED BY <1>6, <2>1
<1>8. \A k \in 1..len : spine[k] \in N
    BY <1>6, ElementOfSeq
<1> HIDE DEF i, len
<1>9. /\ i - 1 \in 1..len /\ i - 2 \in 1..len /\ i \in 1..len /\ 1 \in 1..len /\ 2 \in 1..len
      /\ \A k \in 1..len : k + 1 <= len => spine[k + 1] = t[spine[k]].kid[side]
    BY <1>6, <1>7 DEF len
<1>10. mid = spine[i] /\ spine[i] = t[spine[i - 1]].kid[side] /\ spine[i - 1] = t[spine[i - 2]].kid[side]
    <2>1. (i - 1) + 1 = i /\ (i - 2) + 1 = i - 1 /\ i <= len /\ i - 1 <= len
        BY <1>7
    <2> QED BY <1>9, <2>1 DEF i, mid, Middle, len
<1>11. second = t[start].kid[side] /\ second \in N
    <2>1. 1 + 1 = 2 /\ 2 <= len
        BY <1>7
    <2> QED BY <1>6, <1>8, <1>9, <2>1 DEF second
<1>12. mid \in N /\ spine[i - 1] \in N /\ spine[i - 2] \in N
    BY <1>8, <1>9, <1>10
<1>13. above = spine[i - 1] /\ above \in N /\ t[above].kid[side] = mid /\ above # start
    <2>1. above = spine[i - 1]
        BY <1>1, <1>10, <1>12 DEF above
    <2>2. t[spine[i - 1]].parent = spine[i - 2]
        BY <1>1, <1>10, <1>12
    <2> QED BY <1>1, <1>10, <1>12, <2>1, <2>2
<1>14. second # mid
    BY <1>1, <1>11, <1>13 DEF above
<1>15. \A m \in N : t[m].kid[o] # mid
    <2> SUFFICES ASSUME NEW m \in N, t[m].kid[o] = mid PROVE FALSE
        OBVIOUS
    <2>1. m = above
        BY <1>1, <1>3, <1>12 DEF above
    <2> QED BY <1>1, <1>4, <1>12, <1>13, <2>1
<1>16. /\ chain \in Seq(N) /\ Len(chain) \in Nat \ {0} /\ chain[1] = mid
       /\ \A k \in 1..(Len(chain) - 1) : chain[k + 1] = t[chain[k]].kid[o]
       /\ t[bottom].kid[o] = 0
    BY <1>3, <1>12, <1>15, SpineEnds DEF chain, bottom, Bottom
<1>17. \A k \in 1..Len(chain) : chain[k] \in N
    BY <1>16, ElementOfSeq
<1>18. bottom \in N /\ bottom # start
    <2> DEFINE n == Len(chain)
    <2>0. n \in Nat \ {0} /\ n = Len(chain)
        BY <1>16
    <2> HIDE DEF n
    <2>1. n \in 1..n /\ (n # 1 => n - 1 \in 1..(n - 1) /\ n - 1 \in 1..n /\ (n - 1) + 1 = n)
        BY <2>0
    <2>2. bottom \in N
        BY <1>17, <2>0, <2>1 DEF bottom, Bottom, chain
    <2>3. CASE n = 1
        <3>1. bottom = mid
            BY <1>16, <2>0, <2>3 DEF bottom, Bottom, chain
        <3> QED BY <1>1, <1>12, <1>13, <2>2, <3>1
    <2>4. CASE n # 1
        <3>1. bottom = t[chain[n - 1]].kid[o] /\ chain[n - 1] \in N
            BY <1>16, <1>17, <2>0, <2>1, <2>4 DEF bottom, Bottom, chain
        <3> QED BY <1>3, <1>5, <2>2, <3>1
    <2> QED BY <2>2, <2>3, <2>4
<1>19. Moves(N, Kids(t), Parents(t), R, side, o, start, mid, second, above, bottom)
    <2> DEFINE K == Kids(t)
               P == Parents(t)
    <2>1. Hangs(N, K, P, R) /\ \A n \in N : K[n] = t[n].kid /\ P[n] = t[n].parent
        BY DEF Linked, Kids, Parents
    <2> HIDE DEF K, P, N
    <2>2. K[start][side] = second /\ K[above][side] = mid /\ K[bottom][o] = 0
        BY <1>1, <1>11, <1>13, <1>16, <1>18, <2>1
    <2>3. Moves(N, K, P, R, side, o, start, mid, second, above, bottom)
        BY <1>1, <1>3, <1>11, <1>12, <1>13, <1>14, <1>18, <2>1, <2>2 DEF Moves
    <2> QED BY <2>3 DEF K, P
<1>20. \A n \in N : Kids(t)[n] = t[n].kid
    BY DEF Kids
<1>21. Down(N, Kids(t), side, start, spine)
    <2>1. \A k \in 1..(Len(spine) - 1) : k \in 1..Len(spine)
        BY <1>6
    <2> HIDE DEF N
    <2> QED BY <1>6, <1>8, <1>20, <2>1 DEF Down, len
<1>22. Down(N, Kids(t), o, mid, chain)
    <2>1. \A k \in 1..(Len(chain) - 1) : k \in 1..Len(chain)
        BY <1>16
    <2> HIDE DEF N
    <2> QED BY <1>16, <1>17, <1>20, <2>1 DEF Down
<1> QED BY <1>7, <1>10, <1>13, <1>19, <1>21, <1>22
        DEF Found, i, mid, above, second, o, chain, bottom, spine, Bottom, len

(* Balancing one side of the tree below a root does nothing, or moves that.*)
Balancing(t, start, side) ==
    LET spine == Spine(t, start, side)
        mid   == Middle(spine)
    IN Rehung(t, start, side, mid, spine[2], Bottom(t, mid, Opposite(side)))

LEMMA BalancedOrNot ==
    ASSUME NEW t, NEW R, Linked(t, R), NEW start \in R, NEW side \in Sides
    PROVE  \/ Balanced(t, start, side) = t
           \/ Found(t, R, start, side) /\ Balanced(t, start, side) = Balancing(t, start, side)
<1> DEFINE short == start = 0 \/ Len(Spine(t, start, side)) - 1 < DEPTH
<1>1. Balanced(t, start, side) = IF short THEN t ELSE Balancing(t, start, side)
    BY SMTT(20) DEF Balanced, Balancing
<1>2. CASE short
    BY <1>1, <1>2
<1>3. CASE ~short
    <2>1. Found(t, R, start, side)
        BY <1>3, LongSpine
    <2> HIDE DEF short
    <2> QED BY <1>1, <1>3, <2>1
<1> QED BY <1>2, <1>3

LEMMA BalancedLinked ==
    ASSUME NEW t, NEW R, Linked(t, R), NEW start \in R, NEW side \in Sides
    PROVE  Linked(Balanced(t, start, side), R) /\ DOMAIN Balanced(t, start, side) = DOMAIN t
<1> DEFINE spine == Spine(t, start, side)
           mid == Middle(spine)
           bottom == Bottom(t, mid, Opposite(side))
<1>1. CASE Found(t, R, start, side) /\ Balanced(t, start, side) = Balancing(t, start, side)
    <2>1. Moves(DOMAIN t, Kids(t), Parents(t), R, side, Opposite(side), start, mid, spine[2],
                t[mid].parent, bottom)
        BY <1>1 DEF Found
    <2>2. Balanced(t, start, side) = Rehung(t, start, side, mid, spine[2], bottom)
        BY <1>1 DEF Balancing
    <2> HIDE DEF spine, mid, bottom
    <2> QED BY <2>1, <2>2, RehungLinked
<1>2. CASE Balanced(t, start, side) = t
    BY <1>2
<1> QED BY <1>1, <1>2, BalancedOrNot

(* All sides of all trees. *)
LEMMA BothBalanced ==
    ASSUME NEW t, NEW r, NEW R, Linked(t, R), r.code \in R, r.other \in R, r.kz \in R
    PROVE  Linked(kz_treeBalance(t, r), R)
<1> DEFINE Both(u, start) == Balanced(Balanced(u, start, Right), start, Left)
<1>1. ASSUME NEW u, NEW start \in R, Linked(u, R) PROVE Linked(Both(u, start), R)
    <2>1. Left \in Sides /\ Right \in Sides
        BY DEF Sides
    <2>2. Linked(Balanced(u, start, Right), R)
        BY <1>1, <2>1, BalancedLinked
    <2> QED BY <2>1, <2>2, BalancedLinked
<1> HIDE DEF Both
<1>2. Linked(Both(t, r.code), R)
    BY <1>1
<1>3. Linked(Both(Both(t, r.code), r.other), R)
    BY <1>1, <1>2
<1>4. Linked(Both(Both(Both(t, r.code), r.other), r.kz), R)
    BY <1>1, <1>3
<1> QED BY <1>4 DEF kz_treeBalance, Both

(* The three roots; a tree without nodes has none. *)
Roots == {root.code, root.other, root.kz}
TreeInv ==
    /\ root \in [{"code", "other", "kz"} -> Nat]
    /\ Linked(node, Roots)

(* A node is taken that is not in use. *)
LEMMA TakenIsFree ==
    ASSUME TreeInv, NEW addr
    PROVE  Taken(addr) \in Nat \ {0} /\ Taken(addr) \notin DOMAIN node
<1> DEFINE N == DOMAIN node
           c == Cardinality(N)
           free == IF InKz(addr) /\ \E n \in 1..POOL : n \notin N THEN (1..POOL) \ N
                   ELSE (POOL + 1 .. POOL + 1 + c) \ N
<1>1. IsFiniteSet(N) /\ c \in Nat /\ POOL \in Nat
    BY FS_CardinalityType, VcTreeAssumption DEF TreeInv, Linked
<1>2. (POOL + 1 .. POOL + 1 + c) \ N # {}
    <2> DEFINE I == POOL + 1 .. POOL + 1 + c
    <2> SUFFICES ASSUME I \subseteq N PROVE FALSE
        OBVIOUS
    <2>1. IsFiniteSet(I) /\ Cardinality(I) = c + 1
        BY <1>1, FS_Interval
    <2> HIDE DEF I
    <2>2. Cardinality(I) <= c
        BY <1>1, FS_Subset
    <2> QED BY <1>1, <2>1, <2>2
<1>3. free # {} /\ free \in SUBSET (Nat \ {0}) /\ \A n \in free : n \notin N
    BY <1>1, <1>2
<1>4. Taken(addr) = CHOOSE n \in free : \A m \in free : n <= m
    BY DEF Taken
<1> HIDE DEF free
<1>5. \E n \in free : \A m \in free : n <= m
    BY <1>3, LeastNatural
<1> QED BY <1>3, <1>4, <1>5

(* A way from a root down, each node choosing a side, to a free place.     *)
WayDown(N, K, P, W, Z, r, m, s) ==
    /\ W \subseteq N /\ r \in W /\ m \in W /\ P[r] = 0 /\ Z[m] = s
    /\ \A x \in N : Z[x] \in Sides
    /\ \A x \in W : x = m \/ K[x][Z[x]] \in W
    /\ \A y \in W : y = r \/ (P[y] \in W /\ K[P[y]][Z[P[y]]] = y)

(* The side on which an insertion passes a node. *)
Turns(start) == [m \in DOMAIN node |-> IF start < node[m].n64_start THEN Left ELSE Right]

(* A search from a root ends at a node with room on the side it takes. *)
LEMMA LeafWay ==
    ASSUME TreeInv, NEW r \in Roots, r # 0, NEW start
    PROVE  LET at == LeafFor(r, start) IN
           /\ at[1] \in DOMAIN node /\ at[2] \in Sides /\ node[at[1]].kid[at[2]] = 0
           /\ \E W : WayDown(DOMAIN node, Kids(node), Parents(node), W, Turns(start), r, at[1], at[2])
<1> DEFINE N == DOMAIN node
           Side(m) == IF start < node[m].n64_start THEN Left ELSE Right
           next == [m \in N |-> node[m].kid[Side(m)]]
           seen == Way(r, next)
           last == seen[Len(seen)]
           W == {seen[k] : k \in 1..Len(seen)}
           K == Kids(node)
           P == Parents(node)
           Z == Turns(start)
<1>1. Linked(node, Roots)
    BY DEF TreeInv
<1>2. /\ N \subseteq Nat \ {0} /\ IsFiniteSet(N) /\ r \in N /\ node[r].parent = 0
      /\ \A n \in N, s \in Sides : node[n].kid[s] # 0 =>
            node[n].kid[s] \in N /\ node[node[n].kid[s]].parent = n
    BY <1>1, LinkedFacts
<1>3. \A m \in N : next[m] = node[m].kid[Side(m)] /\ Side(m) \in Sides
    BY DEF Sides
<1>4. LeafFor(r, start) = <<last, Side(last)>>
    BY DEF LeafFor
<1>5. next = [m \in N |-> next[m]]
    OBVIOUS
<1>6. \A m \in N : K[m] = node[m].kid /\ P[m] = node[m].parent /\ Z[m] = Side(m)
    BY DEF Kids, Parents, Turns
<1> HIDE DEF Side, next, K, P, Z
<1>7. \A m \in N : next[m] # 0 => next[m] \in N /\ node[next[m]].parent = m
    BY <1>2, <1>3
<1>8. OneWay(N, next, r)
    <2>1. next \in [N -> N \cup {0}]
        BY <1>5, <1>7
    <2>2. \A l, m \in N : next[l] = next[m] => next[l] = 0 \/ l = m
        BY <1>7
    <2>3. \A m \in N : next[m] # r
        BY <1>2, <1>7
    <2> QED BY <1>2, <2>1, <2>2, <2>3 DEF OneWay
<1>9. /\ seen \in Seq(N) /\ Len(seen) \in Nat \ {0} /\ seen[1] = r /\ next[last] = 0
      /\ \A k \in 1..(Len(seen) - 1) : seen[k + 1] = next[seen[k]]
    BY <1>8, WayEnds DEF Leads
<1> HIDE DEF seen, N
<1>10. \A k \in 1..Len(seen) : seen[k] \in N
    BY <1>9, ElementOfSeq
<1>11. 1 \in 1..Len(seen) /\ Len(seen) \in 1..Len(seen)
    BY <1>9
<1>12. last \in N /\ r \in W /\ last \in W /\ W \subseteq N
    BY <1>9, <1>10, <1>11
<1>13. ASSUME NEW x \in W PROVE x = last \/ K[x][Z[x]] \in W
    <2>1. PICK k \in 1..Len(seen) : x = seen[k]
        OBVIOUS
    <2>2. CASE k = Len(seen)
        BY <2>1, <2>2
    <2>3. CASE k # Len(seen)
        <3>1. k \in 1..(Len(seen) - 1) /\ k + 1 \in 1..Len(seen)
            BY <1>9, <2>3
        <3>2. seen[k + 1] = next[x] /\ x \in N
            BY <1>9, <1>10, <2>1, <3>1
        <3>3. K[x][Z[x]] = next[x]
            BY <1>3, <1>6, <3>2
        <3> QED BY <3>1, <3>2, <3>3
    <2> QED BY <2>2, <2>3
<1>14. ASSUME NEW y \in W PROVE y = r \/ (P[y] \in W /\ K[P[y]][Z[P[y]]] = y)
    <2>1. PICK k \in 1..Len(seen) : y = seen[k]
        OBVIOUS
    <2>2. CASE k = 1
        BY <1>9, <2>1, <2>2
    <2>3. CASE k # 1
        <3>1. k - 1 \in 1..(Len(seen) - 1) /\ k - 1 \in 1..Len(seen) /\ (k - 1) + 1 = k
            BY <1>9, <2>3
        <3>2. y = next[seen[k - 1]] /\ seen[k - 1] \in N /\ y \in N /\ y # 0
            BY <1>2, <1>9, <1>10, <2>1, <3>1
        <3>3. P[y] = seen[k - 1]
            BY <1>6, <1>7, <3>2
        <3>4. K[P[y]][Z[P[y]]] = next[P[y]]
            BY <1>3, <1>6, <3>2, <3>3
        <3> QED BY <3>1, <3>2, <3>3, <3>4
    <2> QED BY <2>2, <2>3
<1>15. \A x \in N : Z[x] \in Sides
    BY <1>3, <1>6
<1>16. P[r] = 0 /\ Z[last] = Side(last) /\ node[last].kid[Side(last)] = 0 /\ Side(last) \in Sides
    BY <1>2, <1>3, <1>6, <1>9, <1>12
<1> HIDE DEF last, W
<1>17. WayDown(N, K, P, W, Z, r, last, Side(last))
    BY <1>12, <1>13, <1>14, <1>15, <1>16 DEF WayDown
<1> QED BY <1>4, <1>12, <1>16, <1>17 DEF N, K, P, Z

(* The nodes with a new one, of which nothing else is said yet. *)
NewNode(g, n, start, end) ==
    /\ g \in [DOMAIN node \cup {n} -> TreeNode]
    /\ g[n].n64_start = start /\ g[n].n64_end = end
    /\ \A x \in DOMAIN node : SameCode(g[x], node[x])

(* The roots with the new one, if it is the first of its tree. *)
RootsWith(n, A) ==
    n \in A /\ (\A x \in DOMAIN node : x \in Roots => x \in A) /\ \A x \in A : x = n \/ x = 0 \/ x \in Roots

(* What the new node changes. *)
LEMMA GrownAdds ==
    ASSUME TreeInv, NEW n \in Nat \ {0}, n \notin DOMAIN node, NEW start \in Int, NEW end \in Int
    PROVE  /\ \A A : RootsWith(n, A) =>
                 LET g == Grown(n, 0, Left, start, end) IN
                 /\ NewNode(g, n, start, end)
                 /\ RootAdded(DOMAIN node, Kids(node), Parents(node), Roots, n, Kids(g), Parents(g), A)
           /\ \A m \in DOMAIN node, s \in Sides : node[m].kid[s] = 0 =>
                 LET g == Grown(n, m, s, start, end) IN
                 /\ NewNode(g, n, start, end)
                 /\ LeafAdded(DOMAIN node, Kids(node), Parents(node), Roots, n, Kids(g), Parents(g), m, s)
<1> DEFINE N == DOMAIN node
           M == N \cup {n}
           K == [x \in N |-> node[x].kid]
           P == [x \in N |-> node[x].parent]
           leaf(m) == [n64_start |-> start, n64_end |-> end,
                       kid |-> [y \in {Left, Right} |-> 0], parent |-> m]
           g(m, s) == Grown(n, m, s, start, end)
           L(m, s) == [x \in M |-> g(m, s)[x].kid]
           Q(m, s) == [x \in M |-> g(m, s)[x].parent]
<1>1. N \subseteq Nat \ {0} /\ IsFiniteSet(N) /\ node \in [N -> TreeNode] /\ Hangs(N, K, P, Roots)
    BY DEF TreeInv, Linked
<1>2. M \subseteq Nat \ {0} /\ IsFiniteSet(M) /\ 0 \notin N /\ n \notin N /\ n # 0
    BY <1>1, FS_AddElement
<1>3. \A x \in N : K[x] = node[x].kid /\ P[x] = node[x].parent
    OBVIOUS
<1>4. \A m \in Nat : leaf(m) \in TreeNode /\ leaf(m).parent = m
                     /\ leaf(m).n64_start = start /\ leaf(m).n64_end = end
                     /\ leaf(m).kid[Left] = 0 /\ leaf(m).kid[Right] = 0
    BY DEF TreeNode, Sides
<1>5. ASSUME NEW m, NEW s
      PROVE  g(m, s) = [x \in M |-> IF x = n THEN leaf(m)
                                    ELSE IF x = m THEN [node[x] EXCEPT !.kid[s] = n] ELSE node[x]]
    BY DEF Grown
<1> HIDE DEF leaf, g
<1>6. ASSUME NEW m, NEW s, NEW x \in M
      PROVE  g(m, s)[x] = IF x = n THEN leaf(m)
                          ELSE IF x = m THEN [node[x] EXCEPT !.kid[s] = n] ELSE node[x]
    BY <1>5
<1>6a. ASSUME NEW m, NEW s, NEW x \in M, x # n, x # m PROVE g(m, s)[x] = node[x]
    BY <1>5, <1>6a
<1>7. ASSUME NEW m, NEW s PROVE DOMAIN g(m, s) = M /\ g(m, s) = [x \in M |-> g(m, s)[x]]
    BY <1>5
<1>8. ASSUME NEW m, NEW s PROVE L(m, s) = Kids(g(m, s)) /\ Q(m, s) = Parents(g(m, s))
    BY <1>7 DEF Kids, Parents
<1>8a. K = Kids(node) /\ P = Parents(node)
    BY DEF Kids, Parents
<1>9. ASSUME NEW m, NEW s, NEW x \in M
      PROVE  L(m, s)[x] = g(m, s)[x].kid /\ Q(m, s)[x] = g(m, s)[x].parent
    OBVIOUS
<1> HIDE DEF K, P, L, Q, M, N
<1>10. N \subseteq M /\ n \in M /\ M = N \cup {n}
    BY DEF M
<1>11. ASSUME NEW A, RootsWith(n, A)
       PROVE  NewNode(g(0, Left), n, start, end)
              /\ RootAdded(N, K, P, Roots, n, L(0, Left), Q(0, Left), A)
    <2>1. \A x \in N : g(0, Left)[x] = node[x]
        <3> SUFFICES ASSUME NEW x \in N PROVE g(0, Left)[x] = node[x]
            OBVIOUS
        <3>1. x \in M /\ x # n /\ x # 0
            BY <1>2, <1>10
        <3> QED BY <1>6a, <3>1
    <2>2. g(0, Left)[n] = leaf(0)
        BY <1>6, <1>10
    <2>3. g(0, Left) \in [M -> TreeNode]
        <3>1. \A x \in M : g(0, Left)[x] \in TreeNode
            BY <1>1, <1>4, <1>10, <2>1, <2>2
        <3> QED BY <1>7, <3>1
    <2>4. \A x \in N : L(0, Left)[x] = K[x] /\ Q(0, Left)[x] = P[x]
        <3> SUFFICES ASSUME NEW x \in N PROVE L(0, Left)[x] = K[x] /\ Q(0, Left)[x] = P[x]
            OBVIOUS
        <3>1. x \in M
            BY <1>10
        <3>2. L(0, Left)[x] = g(0, Left)[x].kid /\ Q(0, Left)[x] = g(0, Left)[x].parent
            BY <1>9, <3>1
        <3>3. K[x] = node[x].kid /\ P[x] = node[x].parent
            BY <1>3
        <3> QED BY <2>1, <3>2, <3>3
    <2>5. Q(0, Left)[n] = 0 /\ L(0, Left)[n][Left] = 0 /\ L(0, Left)[n][Right] = 0
        BY <1>4, <1>9, <1>10, <2>2
    <2>6. RootAdded(N, K, P, Roots, n, L(0, Left), Q(0, Left), A)
        BY <1>1, <1>2, <1>11, <2>4, <2>5 DEF RootAdded, RootsWith, N
    <2>7. NewNode(g(0, Left), n, start, end)
        BY <1>4, <2>1, <2>2, <2>3 DEF NewNode, SameCode, M, N
    <2> QED BY <2>6, <2>7
<1>12. ASSUME NEW m \in N, NEW s \in Sides, node[m].kid[s] = 0
       PROVE  NewNode(g(m, s), n, start, end)
              /\ LeafAdded(N, K, P, Roots, n, L(m, s), Q(m, s), m, s)
    <2>1. m \in Nat /\ m \in M /\ m # n
        BY <1>1, <1>2, <1>10
    <2>2. \A x \in N : x # m => g(m, s)[x] = node[x]
        <3> SUFFICES ASSUME NEW x \in N, x # m PROVE g(m, s)[x] = node[x]
            OBVIOUS
        <3>1. x \in M /\ x # n
            BY <1>2, <1>10
        <3> QED BY <1>6a, <3>1
    <2>3. g(m, s)[n] = leaf(m) /\ g(m, s)[m] = [node[m] EXCEPT !.kid[s] = n]
        BY <1>6, <1>10, <2>1
    <2>4. /\ g(m, s)[m] \in TreeNode /\ g(m, s)[m].parent = node[m].parent
          /\ SameCode(g(m, s)[m], node[m])
          /\ \A y \in Sides : g(m, s)[m].kid[y] = IF y = s THEN n ELSE node[m].kid[y]
        <3>1. node[m] \in TreeNode /\ n \in Nat
            BY <1>1
        <3> QED BY <2>3, <3>1 DEF TreeNode, SameCode
    <2>5. g(m, s) \in [M -> TreeNode]
        <3>1. \A x \in M : g(m, s)[x] \in TreeNode
            <4> SUFFICES ASSUME NEW x \in M PROVE g(m, s)[x] \in TreeNode
                OBVIOUS
            <4>1. CASE x = n
                BY <1>4, <2>1, <2>3, <4>1
            <4>2. CASE x = m
                BY <2>4, <4>2
            <4>3. CASE x # n /\ x # m
                BY <1>1, <1>10, <2>2, <4>3
            <4> QED BY <4>1, <4>2, <4>3
        <3> QED BY <1>7, <3>1
    <2>6. \A x \in N : Q(m, s)[x] = P[x]
        <3> SUFFICES ASSUME NEW x \in N PROVE Q(m, s)[x] = P[x]
            OBVIOUS
        <3>1. x \in M
            BY <1>10
        <3>2. Q(m, s)[x] = g(m, s)[x].parent
            BY <1>9, <3>1
        <3>3. P[x] = node[x].parent
            BY <1>3
        <3> QED BY <2>2, <2>4, <3>2, <3>3
    <2>7. \A x \in N : \A y \in Sides : L(m, s)[x][y] = IF x = m /\ y = s THEN n ELSE K[x][y]
        <3> SUFFICES ASSUME NEW x \in N, NEW y \in Sides
                     PROVE  L(m, s)[x][y] = IF x = m /\ y = s THEN n ELSE K[x][y]
            OBVIOUS
        <3>1. x \in M
            BY <1>10
        <3>2. L(m, s)[x] = g(m, s)[x].kid
            BY <1>9, <3>1
        <3>3. K[x] = node[x].kid
            BY <1>3
        <3> QED BY <2>2, <2>4, <3>2, <3>3
    <2>8. Q(m, s)[n] = m /\ L(m, s)[n][Left] = 0 /\ L(m, s)[n][Right] = 0
        BY <1>4, <1>9, <1>10, <2>1, <2>3
    <2>9. K[m][s] = 0
        BY <1>3, <1>12
    <2>10. LeafAdded(N, K, P, Roots, n, L(m, s), Q(m, s), m, s)
        BY <1>1, <1>2, <2>6, <2>7, <2>8, <2>9 DEF LeafAdded
    <2>11. \A x \in N : SameCode(g(m, s)[x], node[x])
        BY <2>2, <2>4 DEF SameCode
    <2>12. NewNode(g(m, s), n, start, end)
        BY <1>4, <2>1, <2>3, <2>5, <2>11 DEF NewNode, M, N
    <2> QED BY <2>10, <2>12
<1> QED BY <1>8, <1>8a, <1>11, <1>12 DEF g, N

(* The new node is linked in. *)
LEMMA GrownLinked ==
    ASSUME TreeInv, NEW n \in Nat \ {0}, n \notin DOMAIN node, NEW start \in Int, NEW end \in Int
    PROVE  /\ \A A : RootsWith(n, A) => Linked(Grown(n, 0, Left, start, end), A)
           /\ \A m \in DOMAIN node, s \in Sides :
                 node[m].kid[s] = 0 => Linked(Grown(n, m, s, start, end), Roots)
<1> DEFINE N == DOMAIN node
           M == N \cup {n}
<1>1. M \subseteq Nat \ {0} /\ IsFiniteSet(M)
    BY FS_AddElement DEF TreeInv, Linked
<1>2. ASSUME NEW g, NEW A, NewNode(g, n, start, end), Hangs(M, Kids(g), Parents(g), A)
      PROVE  Linked(g, A)
    <2>1. g \in [M -> TreeNode] /\ DOMAIN g = M
        BY <1>2 DEF NewNode
    <2> QED BY <1>1, <1>2, <2>1 DEF Linked, Kids, Parents
<1>3. ASSUME NEW A, RootsWith(n, A) PROVE Linked(Grown(n, 0, Left, start, end), A)
    <2> DEFINE g == Grown(n, 0, Left, start, end)
    <2>1. NewNode(g, n, start, end) /\ RootAdded(N, Kids(node), Parents(node), Roots, n, Kids(g), Parents(g), A)
        BY <1>3, GrownAdds
    <2> HIDE DEF g
    <2>2. Hangs(M, Kids(g), Parents(g), A)
        BY <2>1, HangsRoot
    <2>3. Linked(g, A)
        BY <1>2, <2>1, <2>2
    <2> QED BY <2>3 DEF g
<1>4. ASSUME NEW m \in N, NEW s \in Sides, node[m].kid[s] = 0
      PROVE  Linked(Grown(n, m, s, start, end), Roots)
    <2> DEFINE g == Grown(n, m, s, start, end)
    <2>1. NewNode(g, n, start, end) /\ LeafAdded(N, Kids(node), Parents(node), Roots, n, Kids(g), Parents(g), m, s)
        BY <1>4, GrownAdds
    <2> HIDE DEF g
    <2>2. Hangs(M, Kids(g), Parents(g), Roots)
        BY <2>1, HangsLeaf
    <2>3. Linked(g, Roots)
        BY <1>2, <2>1, <2>2
    <2> QED BY <2>3 DEF g
<1> QED BY <1>3, <1>4

(* Insertion and the balancing that follows it. *)
LEMMA InsertLinked ==
    ASSUME TreeInv, NEW start \in Int, NEW end \in Int, kz_treeInsert(start, end)
    PROVE  TreeInv'
<1>0. CASE Refused(start, end)
    BY <1>0 DEF kz_treeInsert, VcTreeVars, TreeInv, Roots
<1> SUFFICES ASSUME ~Refused(start, end) PROVE TreeInv'
    BY <1>0
<1> DEFINE tree == Tree(start, end)
           n == Taken(start)
           at == IF root[tree] = 0 THEN <<0, Left>> ELSE LeafFor(root[tree], start)
           A == {root'.code, root'.other, root'.kz}
<1>1. tree \in {"code", "other", "kz"}
    BY DEF Tree
<1>2. n \in Nat \ {0} /\ n \notin DOMAIN node
    BY TakenIsFree
<1>3. /\ root' = IF root[tree] = 0 THEN [root EXCEPT ![tree] = n] ELSE root
      /\ node' = kz_treeBalance(Grown(n, at[1], at[2], start, end), root')
    BY DEF kz_treeInsert
<1>4. root \in [{"code", "other", "kz"} -> Nat] /\ Linked(node, Roots)
      /\ Roots = {root["code"], root["other"], root["kz"]}
    BY DEF TreeInv, Roots
<1> HIDE DEF tree, n
<1>5. root' \in [{"code", "other", "kz"} -> Nat] /\ A = {root'["code"], root'["other"], root'["kz"]}
    BY <1>1, <1>2, <1>3, <1>4
<1>6. Linked(Grown(n, at[1], at[2], start, end), A)
    <2>1. CASE root[tree] = 0
        <3>1. at[1] = 0 /\ at[2] = Left
            BY <2>1
        <3>2. \A x \in A : x = n \/ x = 0 \/ x \in Roots
            BY <1>1, <1>3, <1>4, <1>5, <2>1
        <3>3. n \in A
            BY <1>1, <1>3, <1>4, <1>5, <2>1
        <3>4. \A x \in DOMAIN node : x \in Roots => x \in A
            <4>1. 0 \notin DOMAIN node
                BY <1>4 DEF Linked
            <4> QED BY <1>1, <1>3, <1>4, <1>5, <2>1, <4>1
        <3>5. RootsWith(n, A)
            BY <3>2, <3>3, <3>4 DEF RootsWith
        <3> HIDE DEF A, at
        <3> QED BY <1>2, <3>1, <3>5, GrownLinked
    <2>2. CASE root[tree] # 0
        <3>1. A = Roots /\ root[tree] \in Roots
            BY <1>1, <1>3, <1>4, <1>5, <2>2
        <3>2. at[1] \in DOMAIN node /\ at[2] \in Sides /\ node[at[1]].kid[at[2]] = 0
            BY <2>2, <3>1, LeafWay
        <3> HIDE DEF A, at
        <3> QED BY <1>2, <3>1, <3>2, GrownLinked
    <2> QED BY <2>1, <2>2
<1> HIDE DEF at
<1>7. Linked(node', A)
    BY <1>3, <1>6, BothBalanced
<1> QED BY <1>5, <1>7 DEF TreeInv, Roots

LEMMA TreeInitInv == VcTreeInit => TreeInv
<1> SUFFICES ASSUME VcTreeInit PROVE TreeInv
    OBVIOUS
<1>1. DOMAIN node = {} /\ node \in [{} -> TreeNode] /\ Roots = {0}
    BY DEF VcTreeInit, Roots
<1>2. IsFiniteSet({})
    BY FS_EmptySet
<1>3. root \in [{"code", "other", "kz"} -> Nat]
    BY DEF VcTreeInit
<1>4. Linked(node, Roots)
    BY <1>1, <1>2 DEF Linked, Hangs
<1> QED BY <1>3, <1>4 DEF TreeInv

(* Whatever functions are inserted, in whatever order, and however often   *)
(* long spines are rehung, a node of the three trees hangs from its parent,*)
(* and only the roots have none.                                           *)
THEOREM VcParentsAgree == VcTreeSpec => []ParentsAgree
<1>1. TreeInv /\ [VcTreeNext]_VcTreeVars => TreeInv'
    <2> SUFFICES ASSUME TreeInv, [VcTreeNext]_VcTreeVars PROVE TreeInv'
        OBVIOUS
    <2>1. CASE VcTreeNext
        <3>1. PICK f \in Funcs : kz_treeInsert(f[1], f[2])
            BY <2>1 DEF VcTreeNext, Execute
        <3>2. f[1] \in Int /\ f[2] \in Int
            BY VcTreeAssumption
        <3> QED BY <3>1, <3>2, InsertLinked
    <2>2. CASE UNCHANGED VcTreeVars
        BY <2>2 DEF VcTreeVars, TreeInv, Roots
    <2> QED BY <2>1, <2>2
<1>2. TreeInv => ParentsAgree
    <2> SUFFICES ASSUME TreeInv PROVE ParentsAgree
        OBVIOUS
    <2>1. \A n \in DOMAIN node :
              IF node[n].parent = 0 THEN n \in Roots
              ELSE node[n].parent \in DOMAIN node /\ \E s \in Sides : node[node[n].parent].kid[s] = n
        BY LinkedFacts DEF TreeInv
    <2> QED BY <2>1 DEF ParentsAgree, Roots, Sides
<1> QED BY <1>1, <1>2, TreeInitInv, PTL DEF VcTreeSpec

-----------------------------------------------------------------------------
(* The order of the trees.  A tree's nodes are labelled with the addresses *)
(* of their subtrees, and a search follows the label.                      *)

(* On side s of e lies b. *)
Beside(s, b, e) == IF s = Left THEN b < e ELSE b > e
(* The addresses below a node on side s. *)
Under(K, S, x, s) == IF K[x][s] = 0 THEN {} ELSE S[K[x][s]]

(* S are the addresses of each node's subtree, E those of the node itself; *)
(* a side's addresses lie on that side of the node's own.                  *)
Ordered(N, K, E, S) ==
    /\ S \in [N -> SUBSET Int]
    /\ \A x \in N : S[x] = E[x] \cup Under(K, S, x, Left) \cup Under(K, S, x, Right)
    /\ \A x \in N, s \in Sides : \A b \in Under(K, S, x, s), e \in E[x] : Beside(s, b, e)

Extents(N, E) == \A x \in N : E[x] # {} /\ E[x] \subseteq Int

LEMMA BesideFacts ==
    ASSUME NEW s \in Sides, NEW o \in Sides, s # o
    PROVE  /\ \A a, b, c \in Int : Beside(s, a, b) /\ Beside(s, b, c) => Beside(s, a, c)
           /\ \A a, b \in Int : Beside(s, a, b) <=> Beside(o, b, a)
           /\ \A a \in Int : ~Beside(s, a, a)
BY DEF Beside, Sides, Left, Right

(* The sides of a node in either order. *)
LEMMA OrderedOn ==
    ASSUME NEW N, NEW K, NEW E, NEW S, NEW s \in Sides, NEW o \in Sides, s # o
    PROVE  Ordered(N, K, E, S) <=>
             /\ S \in [N -> SUBSET Int]
             /\ \A x \in N : S[x] = E[x] \cup Under(K, S, x, s) \cup Under(K, S, x, o)
             /\ \A x \in N : \A b \in Under(K, S, x, s), e \in E[x] : Beside(s, b, e)
             /\ \A x \in N : \A b \in Under(K, S, x, o), e \in E[x] : Beside(o, b, e)
<1>1. (s = Left /\ o = Right) \/ (s = Right /\ o = Left)
    BY DEF Sides, Left, Right
<1>2. \A x \in N : Under(K, S, x, Left) \cup Under(K, S, x, Right)
                   = Under(K, S, x, Right) \cup Under(K, S, x, Left)
    OBVIOUS
<1>3. CASE s = Left /\ o = Right
    BY <1>3 DEF Ordered, Sides
<1>4. CASE s = Right /\ o = Left
    BY <1>4 DEF Ordered, Sides
<1> QED BY <1>1, <1>3, <1>4

(* A are the nodes of the spine above the middle, C those of the chain. *)
SpineAndChain(N, K, P, s, o, start, mid, second, above, bottom, A, C) ==
    /\ A \subseteq N /\ C \subseteq N
    /\ second \in A /\ above \in A /\ mid \in C /\ bottom \in C
    /\ \A x \in A : K[x][s] = mid \/ K[x][s] \in A
    /\ \A y \in A : (P[y] = start \/ P[y] \in A) /\ K[P[y]][s] = y
    /\ \A x \in C : x = bottom \/ K[x][o] \in C
    /\ \A y \in C : y = mid \/ (P[y] \in C /\ K[P[y]][o] = y)

Near(S, mid, o) == {a \in Int : \A b \in S[mid] : Beside(o, a, b)}
Labelled(N, K, S, s, o, mid, second, A, C) ==
    /\ \A x \in A : S[mid] \subseteq S[K[x][s]]
    /\ S[mid] \subseteq S[second] /\ S[second] \subseteq S[mid] \cup Near(S, mid, o)
    /\ \A x \in C : S[x] \subseteq S[mid]

(* Moving the middle up keeps the order: what goes down to the end of the  *)
(* chain lies beside all that is below the middle.                         *)
LEMMA MovedOrdered ==
    ASSUME NEW N, NEW R, NEW K, NEW P, NEW L, NEW Q, NEW E, NEW S, NEW s, NEW o,
           NEW start, NEW mid, NEW second, NEW above, NEW bottom, NEW A, NEW C,
           Moves(N, K, P, R, s, o, start, mid, second, above, bottom),
           MovedTo(N, K, P, L, Q, s, o, start, mid, second, above, bottom),
           SpineAndChain(N, K, P, s, o, start, mid, second, above, bottom, A, C),
           Labelled(N, K, S, s, o, mid, second, A, C),
           Extents(N, E), Ordered(N, K, E, S)
    PROVE  \E T : Ordered(N, L, E, T) /\ \A r \in N : P[r] = 0 => T[r] = S[r]
<1> DEFINE D == Near(S, mid, o)
           T == [x \in N |-> IF x \in A THEN S[x] \cap D
                             ELSE IF x \in C THEN S[x] \cup (S[second] \cap D) ELSE S[x]]
<1>0. s \in Sides /\ o \in Sides /\ s # o /\ 0 \notin N /\ start \in N /\ mid \in N
      /\ second \in N /\ above \in N /\ bottom \in N
    BY DEF Moves
<1>1. /\ S \in [N -> SUBSET Int]
      /\ \A x \in N : S[x] = E[x] \cup Under(K, S, x, s) \cup Under(K, S, x, o)
      /\ \A x \in N : \A b \in Under(K, S, x, s), e \in E[x] : Beside(s, b, e)
      /\ \A x \in N : \A b \in Under(K, S, x, o), e \in E[x] : Beside(o, b, e)
    BY <1>0, OrderedOn
<1>2. \A n \in N, x \in Sides : K[n][x] # 0 => K[n][x] \in N /\ P[K[n][x]] = n
    BY DEF Moves, Hangs
<1>3. \A n \in N : K[n][s] = K[n][o] => K[n][s] = 0
    <2>1. (s = Left /\ o = Right) \/ (s = Right /\ o = Left)
        BY <1>0 DEF Sides
    <2> QED BY <2>1 DEF Moves, Hangs
<1>4. /\ P[start] = 0 /\ P[mid] = above /\ P[second] = start /\ K[start][s] = second
      /\ K[above][s] = mid /\ K[bottom][o] = 0
    <2>1. start \in R /\ K[start][s] = second /\ K[above][s] = mid /\ K[bottom][o] = 0
        BY DEF Moves
    <2>2. P[start] = 0
        BY <1>0, <2>1 DEF Moves, Hangs
    <2> QED BY <1>0, <1>2, <2>1, <2>2
<1>5. A \subseteq N /\ C \subseteq N /\ second \in A /\ above \in A /\ mid \in C /\ bottom \in C
      /\ (\A x \in A : K[x][s] = mid \/ K[x][s] \in A)
      /\ (\A y \in A : (P[y] = start \/ P[y] \in A) /\ K[P[y]][s] = y)
      /\ (\A x \in C : x = bottom \/ K[x][o] \in C)
      /\ (\A y \in C : y = mid \/ (P[y] \in C /\ K[P[y]][o] = y))
    BY DEF SpineAndChain
<1>6. /\ \A n \in N, x \in Sides :
            L[n][x] = IF n = bottom /\ x = o THEN second
                      ELSE IF n = start /\ x = s THEN mid
                      ELSE IF n = above /\ x = s THEN 0 ELSE K[n][x]
    BY DEF MovedTo
<1>7. /\ \A x \in A : S[mid] \subseteq S[K[x][s]]
      /\ S[mid] \subseteq S[second] /\ S[second] \subseteq S[mid] \cup D
      /\ \A x \in C : S[x] \subseteq S[mid]
    BY DEF Labelled
<1>8. /\ \A a, b, c \in Int : Beside(o, a, b) /\ Beside(o, b, c) => Beside(o, a, c)
      /\ \A a, b \in Int : Beside(s, a, b) <=> Beside(o, b, a)
      /\ \A a \in Int : ~Beside(o, a, a)
    BY <1>0, BesideFacts
<1>9. \A x \in N : E[x] # {} /\ E[x] \subseteq Int /\ E[x] \subseteq S[x]
    BY <1>1 DEF Extents
<1>10. D \subseteq Int /\ \A a \in D, b \in S[mid] : Beside(o, a, b)
    BY DEF Near
<1>11. S[mid] \cap D = {}
    BY <1>0, <1>1, <1>8, <1>10
<1>12. ASSUME NEW x \in A PROVE E[x] \subseteq D /\ Under(K, S, x, o) \subseteq D /\ K[x][s] # 0
    <2>1. K[x][s] \in N /\ x \in N
        BY <1>0, <1>5
    <2>2. \A b \in S[mid], e \in E[x] : Beside(s, b, e)
        BY <1>0, <1>1, <1>7, <2>1 DEF Under
    <2>3. E[x] \subseteq D
        BY <1>0, <1>1, <1>8, <1>9, <2>1, <2>2 DEF Near
    <2>4. Under(K, S, x, o) \subseteq D
        <3>1. PICK e \in E[x] : TRUE
            BY <1>9, <2>1
        <3>2. \A a \in Under(K, S, x, o) : a \in Int /\ Beside(o, a, e)
            BY <1>1, <1>9, <2>1
        <3>3. e \in Int /\ e \in D /\ \A b \in S[mid] : b \in Int /\ Beside(o, e, b)
            BY <1>0, <1>1, <1>9, <1>10, <2>1, <2>3
        <3>4. \A a \in Under(K, S, x, o), b \in S[mid] : a \in Int /\ Beside(o, a, b)
            BY <1>8, <3>2, <3>3
        <3> QED BY <3>2, <3>4 DEF Near
    <2> QED BY <1>0, <2>1, <2>3, <2>4
<1> HIDE DEF D
<1>13. A \cap C = {}
    <2> SUFFICES ASSUME NEW x \in A, x \in C PROVE FALSE
        OBVIOUS
    <2>1. x \in N
        BY <1>5
    <2>2. PICK e \in E[x] : TRUE
        BY <1>9, <2>1
    <2>3. e \in D /\ e \in S[mid]
        BY <1>7, <1>9, <1>12, <2>1
    <2> QED BY <1>11, <2>3
<1>14. start \notin A /\ start \notin C
    BY <1>0, <1>4, <1>5
<1>15. /\ \A x \in A : T[x] = S[x] \cap D
       /\ \A x \in C : T[x] = S[x] \cup (S[second] \cap D)
       /\ \A x \in N : x \notin A /\ x \notin C => T[x] = S[x]
       /\ T \in [N -> SUBSET Int]
    BY <1>0, <1>1, <1>5, <1>13
<1> HIDE DEF T
(* Off the spine and the chain a child stays where it was. *)
<1>16. ASSUME NEW x \in N, NEW y \in Sides, K[x][y] # 0, x \in A \/ x = start => y = o, x \in C => y = s
       PROVE  K[x][y] \in N /\ K[x][y] \notin A /\ K[x][y] \notin C
    <2>1. K[x][y] \in N /\ P[K[x][y]] = x
        BY <1>2, <1>16
    <2>2. K[x][y] \notin A
        BY <1>0, <1>3, <1>5, <1>16, <2>1
    <2>3. K[x][y] \notin C
        BY <1>0, <1>3, <1>4, <1>5, <1>13, <1>16, <2>1
    <2> QED BY <2>1, <2>2, <2>3
<1>17. ASSUME NEW x \in N, NEW y \in Sides, x \in A \/ x = start => y = o, x \in C => y = s
       PROVE  /\ x = bottom => Under(L, T, x, s) = Under(K, S, x, s)
              /\ x # bottom => Under(L, T, x, y) = Under(K, S, x, y)
    <2>1. L[x][y] = K[x][y] \/ (x = bottom /\ y = o)
        BY <1>0, <1>5, <1>6, <1>17
    <2>2. x = bottom => y = s
        BY <1>5, <1>17
    <2>3. L[x][y] = K[x][y]
        BY <1>0, <2>1, <2>2
    <2>4. Under(L, T, x, y) = Under(K, S, x, y)
        BY <1>15, <1>16, <1>17, <2>3 DEF Under
    <2> QED BY <2>2, <2>4
<1>18. \A x \in N : /\ T[x] = E[x] \cup Under(L, T, x, s) \cup Under(L, T, x, o)
                    /\ \A b \in Under(L, T, x, s), e \in E[x] : Beside(s, b, e)
                    /\ \A b \in Under(L, T, x, o), e \in E[x] : Beside(o, b, e)
    <2> SUFFICES ASSUME NEW x \in N
                 PROVE  /\ T[x] = E[x] \cup Under(L, T, x, s) \cup Under(L, T, x, o)
                        /\ \A b \in Under(L, T, x, s), e \in E[x] : Beside(s, b, e)
                        /\ \A b \in Under(L, T, x, o), e \in E[x] : Beside(o, b, e)
        OBVIOUS
    <2>1. CASE x = start
        <3>1. Under(L, T, x, o) = Under(K, S, x, o)
            BY <1>0, <1>5, <1>14, <1>17, <2>1
        <3>2. L[x][s] = mid
            BY <1>0, <1>6, <2>1
        <3>3. T[mid] = S[second]
            <4>1. T[mid] = S[mid] \cup (S[second] \cap D)
                BY <1>5, <1>15
            <4> QED BY <1>7, <4>1
        <3>4. Under(K, S, x, s) = S[second] /\ Under(L, T, x, s) = S[second]
            BY <1>0, <1>4, <2>1, <3>2, <3>3 DEF Under
        <3>5. T[x] = S[x]
            BY <1>14, <1>15, <2>1
        <3> QED BY <1>1, <3>1, <3>4, <3>5
    <2>2. CASE x \in A
        <3>1. Under(L, T, x, o) = Under(K, S, x, o)
            BY <1>0, <1>5, <1>13, <1>17, <2>2
        <3>2. Under(L, T, x, s) = Under(K, S, x, s) \cap D
            <4>1. CASE x = above
                <5>1. L[x][s] = 0 /\ Under(K, S, x, s) = S[mid]
                    BY <1>0, <1>4, <1>5, <1>6, <1>13, <1>14, <4>1 DEF Under
                <5> QED BY <1>11, <5>1 DEF Under
            <4>2. CASE x # above
                <5>1. L[x][s] = K[x][s]
                    BY <1>0, <1>5, <1>6, <1>14, <2>2, <4>2
                <5>2. K[x][s] \in A
                    BY <1>0, <1>2, <1>4, <1>5, <2>2, <4>2
                <5>3. K[x][s] # 0
                    BY <1>12, <2>2
                <5> QED BY <1>15, <5>1, <5>2, <5>3 DEF Under
            <4> QED BY <4>1, <4>2
        <3>3. T[x] = S[x] \cap D /\ E[x] \subseteq D /\ Under(K, S, x, o) \subseteq D
            BY <1>12, <1>15, <2>2
        <3> QED BY <1>1, <3>1, <3>2, <3>3
    <2>3. CASE x \in C
        <3>1. Under(L, T, x, s) = Under(K, S, x, s)
            BY <1>0, <1>5, <1>13, <1>14, <1>17, <2>3
        <3>2. Under(L, T, x, o) = Under(K, S, x, o) \cup (S[second] \cap D)
            <4>1. CASE x = bottom
                <5>1. L[x][o] = second /\ Under(K, S, x, o) = {}
                    BY <1>0, <1>4, <1>6, <4>1 DEF Under
                <5> QED BY <1>0, <1>5, <1>15, <5>1 DEF Under
            <4>2. CASE x # bottom
                <5>1. L[x][o] = K[x][o]
                    BY <1>0, <1>6, <4>2
                <5>2. K[x][o] \in C /\ K[x][o] # 0
                    BY <1>0, <1>5, <2>3, <4>2
                <5> QED BY <1>15, <5>1, <5>2 DEF Under
            <4> QED BY <4>1, <4>2
        <3>3. T[x] = S[x] \cup (S[second] \cap D) /\ E[x] \subseteq S[mid]
            BY <1>7, <1>9, <1>15, <2>3
        <3>4. \A b \in S[second] \cap D, e \in E[x] : Beside(o, b, e)
            BY <1>10, <3>3
        <3> QED BY <1>1, <3>1, <3>2, <3>3, <3>4
    <2>4. CASE x # start /\ x \notin A /\ x \notin C
        <3>1. Under(L, T, x, s) = Under(K, S, x, s) /\ Under(L, T, x, o) = Under(K, S, x, o)
            BY <1>0, <1>5, <1>17, <2>4
        <3>2. T[x] = S[x]
            BY <1>15, <2>4
        <3> QED BY <1>1, <3>1, <3>2
    <2> QED BY <2>1, <2>2, <2>3, <2>4
<1>19. Ordered(N, L, E, T)
    BY <1>0, <1>15, <1>18, OrderedOn
<1>20. \A r \in N : P[r] = 0 => T[r] = S[r]
    BY <1>0, <1>4, <1>5, <1>15
<1> QED BY <1>19, <1>20
(* On a way down, each node's child is the next node. *)
LEMMA DownFacts ==
    ASSUME NEW N, NEW K, NEW P, NEW R, NEW s \in Sides, NEW from, NEW way,
           0 \notin N, Hangs(N, K, P, R), Down(N, K, s, from, way)
    PROVE  /\ \A k \in 1..Len(way) : way[k] \in N
           /\ \A k \in 2..Len(way) : /\ way[k] = K[way[k - 1]][s] /\ way[k] # 0
                                     /\ P[way[k]] = way[k - 1]
           /\ Len(way) \in Nat \ {0} /\ way[1] = from
<1>1. /\ way \in Seq(N) /\ Len(way) \in Nat \ {0} /\ way[1] = from
      /\ \A k \in 1..(Len(way) - 1) : way[k + 1] = K[way[k]][s]
    BY DEF Down
<1>2. \A k \in 1..Len(way) : way[k] \in N
    BY <1>1, ElementOfSeq
<1>3. ASSUME NEW k \in 2..Len(way)
      PROVE  way[k] = K[way[k - 1]][s] /\ way[k] # 0 /\ P[way[k]] = way[k - 1]
    <2>1. k - 1 \in 1..(Len(way) - 1) /\ k - 1 \in 1..Len(way) /\ k \in 1..Len(way) /\ (k - 1) + 1 = k
        BY <1>1
    <2>2. way[k] = K[way[k - 1]][s] /\ way[k] # 0 /\ way[k - 1] \in N
        BY <1>1, <1>2, <2>1
    <2> QED BY <2>2 DEF Hangs
<1> QED BY <1>1, <1>2, <1>3

(* What is on the spine above the middle holds all that is below it, and   *)
(* else only what lies beside that; the chain holds nothing else.          *)
LEMMA SpineLabels ==
    ASSUME NEW N, NEW R, NEW K, NEW P, NEW E, NEW S, NEW s, NEW o,
           NEW start, NEW mid, NEW second, NEW above, NEW bottom,
           Moves(N, K, P, R, s, o, start, mid, second, above, bottom),
           NEW spine, Down(N, K, s, start, spine), NEW chain, Down(N, K, o, mid, chain),
           NEW i \in 3..Len(spine), mid = spine[i], second = spine[2], above = spine[i - 1],
           bottom = chain[Len(chain)], Extents(N, E), Ordered(N, K, E, S)
    PROVE  \E A, C : /\ SpineAndChain(N, K, P, s, o, start, mid, second, above, bottom, A, C)
                     /\ Labelled(N, K, S, s, o, mid, second, A, C)
<1> DEFINE A == {spine[k] : k \in 2..(i - 1)}
           C == {chain[k] : k \in 1..Len(chain)}
           D == Near(S, mid, o)
<1>0. s \in Sides /\ o \in Sides /\ s # o /\ 0 \notin N /\ start \in N /\ mid \in N
      /\ second \in N /\ above \in N /\ bottom \in N /\ Hangs(N, K, P, R)
    BY DEF Moves
<1>1. /\ S \in [N -> SUBSET Int]
      /\ \A x \in N : S[x] = E[x] \cup Under(K, S, x, s) \cup Under(K, S, x, o)
      /\ \A x \in N : \A b \in Under(K, S, x, s), e \in E[x] : Beside(s, b, e)
      /\ \A x \in N : \A b \in Under(K, S, x, o), e \in E[x] : Beside(o, b, e)
    BY <1>0, OrderedOn
<1>2. /\ \A k \in 1..Len(spine) : spine[k] \in N
      /\ \A k \in 2..Len(spine) : /\ spine[k] = K[spine[k - 1]][s] /\ spine[k] # 0
                                  /\ P[spine[k]] = spine[k - 1]
      /\ Len(spine) \in Nat \ {0} /\ spine[1] = start
    BY <1>0, DownFacts
<1>3. /\ \A k \in 1..Len(chain) : chain[k] \in N
      /\ \A k \in 2..Len(chain) : /\ chain[k] = K[chain[k - 1]][o] /\ chain[k] # 0
                                  /\ P[chain[k]] = chain[k - 1]
      /\ Len(chain) \in Nat \ {0} /\ chain[1] = mid
    BY <1>0, DownFacts
<1>4. /\ \A a, b, c \in Int : Beside(o, a, b) /\ Beside(o, b, c) => Beside(o, a, c)
      /\ \A a, b \in Int : Beside(s, a, b) <=> Beside(o, b, a)
    BY <1>0, BesideFacts
<1>5. \A x \in N : E[x] # {} /\ E[x] \subseteq Int /\ E[x] \subseteq S[x] /\ S[x] \subseteq Int
    BY <1>1 DEF Extents
(* From the middle up. *)
<1>6. ASSUME NEW x \in N, K[x][s] \in N, S[mid] \subseteq S[K[x][s]], S[K[x][s]] \subseteq S[mid] \cup D
      PROVE  S[mid] \subseteq S[x] /\ S[x] \subseteq S[mid] \cup D
    <2>1. Under(K, S, x, s) = S[K[x][s]]
        BY <1>0, <1>6 DEF Under
    <2>2. S[mid] \subseteq S[x]
        BY <1>1, <1>6, <2>1
    <2>3. \A e \in E[x], b \in S[mid] : e \in Int /\ b \in Int /\ Beside(o, e, b)
        BY <1>0, <1>1, <1>4, <1>5, <1>6, <2>1
    <2>4. E[x] \subseteq D
        BY <2>3, <1>5 DEF Near
    <2>5. Under(K, S, x, o) \subseteq D
        <3>1. PICK e \in E[x] : TRUE
            BY <1>5
        <3>2. \A a \in Under(K, S, x, o) : a \in Int /\ Beside(o, a, e)
            BY <1>1, <1>5
        <3>3. \A a \in Under(K, S, x, o), b \in S[mid] : a \in Int /\ Beside(o, a, b)
            BY <1>4, <2>3, <3>2
        <3> QED BY <3>2, <3>3 DEF Near
    <2> QED BY <1>1, <1>6, <2>1, <2>2, <2>4, <2>5
<1> HIDE DEF D
<1>7. ASSUME NEW k \in 2..i PROVE S[mid] \subseteq S[spine[k]] /\ S[spine[k]] \subseteq S[mid] \cup D
    <2> DEFINE Holds(n) == S[mid] \subseteq S[spine[n]] /\ S[spine[n]] \subseteq S[mid] \cup D
               bad == {j \in 0..(i - 2) : ~Holds(i - j)}
    <2>1. Holds(i)
        OBVIOUS
    <2>2. \A n \in 2..(i - 1) : Holds(n + 1) => Holds(n)
        <3> SUFFICES ASSUME NEW n \in 2..(i - 1), Holds(n + 1) PROVE Holds(n)
            OBVIOUS
        <3>1. n \in 1..Len(spine) /\ n + 1 \in 2..Len(spine) /\ n + 1 \in 1..Len(spine) /\ (n + 1) - 1 = n
            BY <1>2
        <3>2. spine[n] \in N /\ K[spine[n]][s] = spine[n + 1] /\ spine[n + 1] \in N
            BY <1>2, <3>1
        <3> QED BY <1>6, <3>2
    <2> HIDE DEF Holds
    <2>3. bad = {}
        <3> SUFFICES ASSUME bad # {} PROVE FALSE
            OBVIOUS
        <3>1. bad \in SUBSET Nat
            OBVIOUS
        <3>2. PICK j \in bad : \A n \in bad : j <= n
            BY <3>1, LeastNatural
        <3>3. j \in 0..(i - 2) /\ ~Holds(i - j)
            OBVIOUS
        <3>4. j # 0
            BY <2>1, <3>3
        <3>5. i - j \in 2..(i - 1) /\ j - 1 \in 0..(i - 2) /\ (i - j) + 1 = i - (j - 1) /\ ~(j <= j - 1)
            BY <3>3, <3>4
        <3>6. ~Holds(i - (j - 1))
            BY <2>2, <3>3, <3>5
        <3> QED BY <3>2, <3>5, <3>6
    <2>4. i - k \in 0..(i - 2) /\ i - (i - k) = k
        OBVIOUS
    <2>5. Holds(k)
        BY <2>3, <2>4
    <2> QED BY <2>5 DEF Holds
(* From the middle down. *)
<1>8. ASSUME NEW k \in 1..Len(chain) PROVE S[chain[k]] \subseteq S[mid]
    <2> DEFINE bad == {n \in 1..Len(chain) : ~(S[chain[n]] \subseteq S[mid])}
    <2>1. bad = {}
        <3> SUFFICES ASSUME bad # {} PROVE FALSE
            OBVIOUS
        <3>1. bad \in SUBSET Nat
            OBVIOUS
        <3>2. PICK n \in bad : \A m \in bad : n <= m
            BY <3>1, LeastNatural
        <3>3. n \in 1..Len(chain) /\ ~(S[chain[n]] \subseteq S[mid]) /\ n # 1
            BY <1>3
        <3>4. n \in 2..Len(chain) /\ n - 1 \in 1..Len(chain) /\ ~(n <= n - 1)
            BY <1>3, <3>3
        <3>5. S[chain[n - 1]] \subseteq S[mid]
            BY <3>2, <3>4
        <3>6. Under(K, S, chain[n - 1], o) = S[chain[n]] /\ chain[n - 1] \in N
            BY <1>3, <3>4 DEF Under
        <3>7. S[chain[n]] \subseteq S[chain[n - 1]]
            BY <1>1, <3>6
        <3> QED BY <3>3, <3>5, <3>7
    <2> QED BY <2>1
<1>9. /\ \A k \in 2..(i - 1) : k \in 2..Len(spine) /\ k \in 1..Len(spine) /\ k \in 2..i
                              /\ k + 1 \in 2..Len(spine) /\ k + 1 \in 2..i /\ (k + 1) - 1 = k
                              /\ (k + 1 = i \/ k + 1 \in 2..(i - 1)) /\ (k - 1 = 1 \/ k - 1 \in 2..(i - 1))
      /\ 2 \in 2..(i - 1) /\ i - 1 \in 2..(i - 1) /\ 2 \in 2..i
    BY <1>2
<1>10. SpineAndChain(N, K, P, s, o, start, mid, second, above, bottom, A, C)
    <2>1. A \subseteq N /\ second \in A /\ above \in A
        BY <1>2, <1>9
    <2>2. ASSUME NEW x \in A PROVE K[x][s] = mid \/ K[x][s] \in A
        <3>1. PICK k \in 2..(i - 1) : x = spine[k]
            OBVIOUS
        <3>2. K[x][s] = spine[k + 1]
            BY <1>2, <1>9, <3>1
        <3> QED BY <1>9, <3>2
    <2>3. ASSUME NEW y \in A PROVE (P[y] = start \/ P[y] \in A) /\ K[P[y]][s] = y
        <3>1. PICK k \in 2..(i - 1) : y = spine[k]
            OBVIOUS
        <3>2. P[y] = spine[k - 1] /\ K[P[y]][s] = y
            BY <1>2, <1>9, <3>1
        <3> QED BY <1>2, <1>9, <3>2
    <2>4. C \subseteq N /\ mid \in C /\ bottom \in C
        <3>1. 1 \in 1..Len(chain) /\ Len(chain) \in 1..Len(chain)
            BY <1>3
        <3> QED BY <1>3, <3>1
    <2>5. ASSUME NEW x \in C PROVE x = bottom \/ K[x][o] \in C
        <3>1. PICK k \in 1..Len(chain) : x = chain[k]
            OBVIOUS
        <3>2. CASE k = Len(chain)
            BY <3>1, <3>2
        <3>3. CASE k # Len(chain)
            <4>1. k + 1 \in 2..Len(chain) /\ k + 1 \in 1..Len(chain) /\ (k + 1) - 1 = k
                BY <1>3, <3>3
            <4> QED BY <1>3, <3>1, <4>1
        <3> QED BY <3>2, <3>3
    <2>6. ASSUME NEW y \in C PROVE y = mid \/ (P[y] \in C /\ K[P[y]][o] = y)
        <3>1. PICK k \in 1..Len(chain) : y = chain[k]
            OBVIOUS
        <3>2. CASE k = 1
            BY <1>3, <3>1, <3>2
        <3>3. CASE k # 1
            <4>1. k \in 2..Len(chain) /\ k - 1 \in 1..Len(chain)
                BY <1>3, <3>3
            <4> QED BY <1>3, <3>1, <4>1
        <3> QED BY <3>2, <3>3
    <2> HIDE DEF A, C
    <2> QED BY <2>1, <2>2, <2>3, <2>4, <2>5, <2>6 DEF SpineAndChain
<1>11. Labelled(N, K, S, s, o, mid, second, A, C)
    <2>1. \A x \in A : S[mid] \subseteq S[K[x][s]]
        <3> SUFFICES ASSUME NEW k \in 2..(i - 1) PROVE S[mid] \subseteq S[K[spine[k]][s]]
            OBVIOUS
        <3>1. K[spine[k]][s] = spine[k + 1]
            BY <1>2, <1>9
        <3> QED BY <1>7, <1>9, <3>1
    <2>2. S[mid] \subseteq S[second] /\ S[second] \subseteq S[mid] \cup D
        BY <1>7, <1>9
    <2>3. \A x \in C : S[x] \subseteq S[mid]
        BY <1>8
    <2> QED BY <2>1, <2>2, <2>3 DEF Labelled, D
<1> QED BY <1>10, <1>11

(* F are the addresses with those of n, which lie where the way turns.     *)
LiesOnWay(N, E, F, W, Z, n) ==
    /\ F[n] \subseteq Int /\ \A x \in N : F[x] = E[x]
    /\ \A x \in W : \A b \in F[n], e \in E[x] : Beside(Z[x], b, e)

(* There are labels then that grow along the way. *)
OrderedWith(N, P, L, F, S, r, n) ==
    \E T : /\ Ordered(N \cup {n}, L, F, T) /\ T[r] = S[r] \cup F[n]
           /\ \A x \in N : P[x] = 0 /\ x # r => T[x] = S[x]

(* A new leaf adds its addresses to those of the nodes on the way to it.   *)
LEMMA LeafOrdered ==
    ASSUME NEW N, NEW K, NEW P, NEW R, NEW n, NEW L, NEW Q, NEW m, NEW s, NEW r, NEW W, NEW Z,
           NEW E, NEW F, NEW S,
           LeafAdded(N, K, P, R, n, L, Q, m, s), WayDown(N, K, P, W, Z, r, m, s),
           Extents(N, E), Ordered(N, K, E, S),
           LiesOnWay(N, E, F, W, Z, n)
    PROVE  OrderedWith(N, P, L, F, S, r, n)
<1> DEFINE T == [x \in N \cup {n} |-> IF x = n THEN F[n] ELSE IF x \in W THEN S[x] \cup F[n] ELSE S[x]]
<1> USE DEF LiesOnWay
<1>1. /\ Hangs(N, K, P, R) /\ 0 \notin N /\ n \notin N /\ n # 0 /\ m \in N /\ s \in Sides /\ K[m][s] = 0
      /\ \A x \in N, y \in Sides : L[x][y] = IF x = m /\ y = s THEN n ELSE K[x][y]
      /\ L[n][Left] = 0 /\ L[n][Right] = 0
    BY DEF LeafAdded
<1>2. /\ W \subseteq N /\ r \in W /\ m \in W /\ P[r] = 0 /\ Z[m] = s
      /\ \A x \in N : Z[x] \in Sides
      /\ \A x \in W : x = m \/ K[x][Z[x]] \in W
      /\ \A y \in W : y = r \/ (P[y] \in W /\ K[P[y]][Z[P[y]]] = y)
    BY DEF WayDown
<1>3. \A x \in N, y \in Sides : K[x][y] # 0 => K[x][y] \in N /\ P[K[x][y]] = x
    BY <1>1 DEF Hangs
<1>4. \A x \in N : K[x][Left] = K[x][Right] => K[x][Left] = 0
    BY <1>1 DEF Hangs
<1>5. /\ S \in [N -> SUBSET Int]
      /\ \A x \in N : S[x] = E[x] \cup Under(K, S, x, Left) \cup Under(K, S, x, Right)
      /\ \A x \in N, y \in Sides : \A b \in Under(K, S, x, y), e \in E[x] : Beside(y, b, e)
    BY DEF Ordered
<1>6. /\ T[n] = F[n] /\ \A x \in N : T[x] = IF x \in W THEN S[x] \cup F[n] ELSE S[x]
      /\ T \in [N \cup {n} -> SUBSET Int]
    BY <1>1, <1>2, <1>5
<1> HIDE DEF T
<1>7. ASSUME NEW x \in N, NEW y \in Sides
      PROVE  Under(L, T, x, y) = Under(K, S, x, y) \cup (IF x \in W /\ y = Z[x] THEN F[n] ELSE {})
    <2>1. CASE x = m /\ y = s
        <3>1. L[x][y] = n
            BY <1>1, <2>1
        <3> QED BY <1>1, <1>2, <1>6, <2>1, <3>1 DEF Under
    <2>2. CASE ~(x = m /\ y = s)
        <3>1. L[x][y] = K[x][y]
            BY <1>1, <2>2
        <3>2. CASE K[x][y] = 0
            <4>1. ~(x \in W /\ y = Z[x])
                BY <1>1, <1>2, <2>2, <3>2
            <4> QED BY <3>1, <3>2, <4>1 DEF Under
        <3>3. CASE K[x][y] # 0
            <4>1. K[x][y] \in N /\ P[K[x][y]] = x
                BY <1>3, <3>3
            <4>2. K[x][y] \in W <=> x \in W /\ y = Z[x]
                <5>1. ASSUME K[x][y] \in W PROVE x \in W /\ y = Z[x]
                    <6>1. x \in W /\ K[x][Z[x]] = K[x][y]
                        BY <1>1, <1>2, <4>1, <5>1
                    <6>2. Z[x] \in Sides /\ (Z[x] # y => K[x][Left] = K[x][Right])
                        BY <1>2, <6>1 DEF Sides
                    <6>3. K[x][Left] # K[x][Right]
                        BY <1>4, <3>3, <6>1 DEF Sides
                    <6> QED BY <6>1, <6>2, <6>3
                <5>2. ASSUME x \in W, y = Z[x] PROVE K[x][y] \in W
                    BY <1>2, <2>2, <5>2
                <5> QED BY <5>1, <5>2
            <4> QED BY <1>6, <3>1, <3>3, <4>1, <4>2 DEF Under
        <3> QED BY <3>2, <3>3
    <2> QED BY <2>1, <2>2
<1>8. Left \in Sides /\ Right \in Sides /\ Sides = {Left, Right}
    BY DEF Sides
<1>9. ASSUME NEW x \in N \cup {n}
      PROVE  /\ T[x] = F[x] \cup Under(L, T, x, Left) \cup Under(L, T, x, Right)
             /\ \A y \in Sides : \A b \in Under(L, T, x, y), e \in F[x] : Beside(y, b, e)
    <2>1. CASE x = n
        <3>1. \A y \in Sides : Under(L, T, x, y) = {}
            BY <1>1, <1>8, <2>1 DEF Under
        <3> QED BY <1>6, <1>8, <2>1, <3>1
    <2>2. CASE x \in N
        <3>1. F[x] = E[x]
            BY <2>2
        <3>2. T[x] = F[x] \cup Under(L, T, x, Left) \cup Under(L, T, x, Right)
            <4>1. S[x] = E[x] \cup Under(K, S, x, Left) \cup Under(K, S, x, Right)
                BY <1>5, <2>2
            <4>2. CASE x \in W
                <5>1. Z[x] = Left \/ Z[x] = Right
                    BY <1>2, <1>8, <2>2
                <5>2. Under(L, T, x, Left) \cup Under(L, T, x, Right)
                      = Under(K, S, x, Left) \cup Under(K, S, x, Right) \cup F[n]
                    BY <1>7, <1>8, <2>2, <4>2, <5>1
                <5>3. T[x] = S[x] \cup F[n]
                    BY <1>6, <2>2, <4>2
                <5> QED BY <3>1, <4>1, <5>2, <5>3
            <4>3. CASE x \notin W
                <5>1. /\ Under(L, T, x, Left) = Under(K, S, x, Left)
                      /\ Under(L, T, x, Right) = Under(K, S, x, Right)
                    BY <1>7, <1>8, <2>2, <4>3, ZenonT(30)
                <5>2. T[x] = S[x]
                    BY <1>6, <2>2, <4>3
                <5> QED BY <3>1, <4>1, <5>1, <5>2
            <4> QED BY <4>2, <4>3
        <3>3. ASSUME NEW y \in Sides, NEW b \in Under(L, T, x, y), NEW e \in F[x] PROVE Beside(y, b, e)
            <4>1. b \in Under(K, S, x, y) \/ (x \in W /\ y = Z[x] /\ b \in F[n])
                BY <1>7, <2>2
            <4> QED BY <1>5, <2>2, <3>1, <4>1
        <3> QED BY <3>2, <3>3
    <2> QED BY <2>1, <2>2
<1>10. Ordered(N \cup {n}, L, F, T)
    BY <1>6, <1>9 DEF Ordered
<1>11. \A x \in N : P[x] = 0 /\ x # r => x \notin W
    BY <1>1, <1>2
<1> QED BY <1>2, <1>6, <1>10, <1>11 DEF OrderedWith

OrderedAlone(N, L, F, S, n) ==
    \E T : Ordered(N \cup {n}, L, F, T) /\ T[n] = F[n] /\ \A x \in N : T[x] = S[x]

(* A new root stands by itself. *)
LEMMA RootOrdered ==
    ASSUME NEW N, NEW K, NEW P, NEW R, NEW n, NEW L, NEW Q, NEW A, NEW E, NEW F, NEW S,
           RootAdded(N, K, P, R, n, L, Q, A), Ordered(N, K, E, S),
           F[n] \subseteq Int, \A x \in N : F[x] = E[x]
    PROVE  OrderedAlone(N, L, F, S, n)
<1> DEFINE T == [x \in N \cup {n} |-> IF x = n THEN F[n] ELSE S[x]]
<1>1. /\ Hangs(N, K, P, R) /\ 0 \notin N /\ n \notin N /\ n # 0
      /\ \A x \in N : L[x] = K[x]
      /\ L[n][Left] = 0 /\ L[n][Right] = 0
    BY DEF RootAdded
<1>2. \A x \in N, y \in Sides : K[x][y] # 0 => K[x][y] \in N
    BY <1>1 DEF Hangs
<1>3. /\ S \in [N -> SUBSET Int]
      /\ \A x \in N : S[x] = E[x] \cup Under(K, S, x, Left) \cup Under(K, S, x, Right)
      /\ \A x \in N, y \in Sides : \A b \in Under(K, S, x, y), e \in E[x] : Beside(y, b, e)
    BY DEF Ordered
<1>4. T[n] = F[n] /\ (\A x \in N : T[x] = S[x]) /\ T \in [N \cup {n} -> SUBSET Int]
    BY <1>1, <1>3
<1> HIDE DEF T
<1>5. Left \in Sides /\ Right \in Sides /\ Sides = {Left, Right}
    BY DEF Sides
<1>6. \A x \in N, y \in Sides : Under(L, T, x, y) = Under(K, S, x, y)
    BY <1>1, <1>2, <1>4 DEF Under
<1>7. \A y \in Sides : Under(L, T, n, y) = {}
    BY <1>1, <1>5 DEF Under
<1>8. ASSUME NEW x \in N \cup {n}
      PROVE  /\ T[x] = F[x] \cup Under(L, T, x, Left) \cup Under(L, T, x, Right)
             /\ \A y \in Sides : \A b \in Under(L, T, x, y), e \in F[x] : Beside(y, b, e)
    <2>1. CASE x = n
        BY <1>4, <1>5, <1>7, <2>1
    <2>2. CASE x \in N
        BY <1>3, <1>4, <1>5, <1>6, <2>2
    <2> QED BY <2>1, <2>2
<1>9. Ordered(N \cup {n}, L, F, T)
    BY <1>4, <1>8 DEF Ordered
<1> QED BY <1>4, <1>9 DEF OrderedAlone

CodeOf(t) == [n \in DOMAIN t |-> t[n].n64_start .. (t[n].n64_end - 1)]
FuncOf(t, n) == <<t[n].n64_start, t[n].n64_end>>
TreeOf(t, n) == Tree(t[n].n64_start, t[n].n64_end)

(* Every node is a function's, and no two are the same one's. *)
Compiled(t) ==
    /\ \A n \in DOMAIN t : FuncOf(t, n) \in Funcs
    /\ \A m, n \in DOMAIN t : FuncOf(t, m) = FuncOf(t, n) => m = n

(* Every node's addresses are below the root of the function's tree. *)
Rooted(t, r, S) ==
    \A n \in DOMAIN t : r[TreeOf(t, n)] # 0 /\ CodeOf(t)[n] \subseteq S[r[TreeOf(t, n)]]

InOrder(t, r) == \E S : Ordered(DOMAIN t, Kids(t), CodeOf(t), S) /\ Rooted(t, r, S)

RootsAre(r, R) == \A tree \in {"code", "other", "kz"} : r[tree] \in R

LEMMA CompiledFacts ==
    ASSUME NEW t, Compiled(t), t \in [DOMAIN t -> TreeNode]
    PROVE  /\ \A n \in DOMAIN t : /\ t[n].n64_start \in Int /\ t[n].n64_end \in Int
                                  /\ t[n].n64_start < t[n].n64_end
                                  /\ CodeOf(t)[n] = t[n].n64_start .. (t[n].n64_end - 1)
           /\ Extents(DOMAIN t, CodeOf(t))
           /\ \A m, n \in DOMAIN t : \A a \in CodeOf(t)[m] : a \in CodeOf(t)[n] => m = n
<1> DEFINE N == DOMAIN t
<1>1. ASSUME NEW n \in N
      PROVE  /\ t[n].n64_start \in Int /\ t[n].n64_end \in Int /\ t[n].n64_start < t[n].n64_end
             /\ CodeOf(t)[n] = t[n].n64_start .. (t[n].n64_end - 1)
    <2>1. t[n] \in TreeNode /\ FuncOf(t, n) \in Funcs
        BY DEF Compiled
    <2>2. FuncOf(t, n)[1] < FuncOf(t, n)[2]
        BY <2>1, VcTreeAssumption
    <2> QED BY <2>1, <2>2 DEF FuncOf, TreeNode, CodeOf
<1>2. Extents(N, CodeOf(t))
    <2> SUFFICES ASSUME NEW n \in N PROVE CodeOf(t)[n] # {} /\ CodeOf(t)[n] \subseteq Int
        BY DEF Extents
    <2>1. t[n].n64_start \in CodeOf(t)[n]
        BY <1>1
    <2> QED BY <1>1, <2>1
<1>3. ASSUME NEW m \in N, NEW n \in N, NEW a \in CodeOf(t)[m], a \in CodeOf(t)[n] PROVE m = n
    <2>1. FuncOf(t, m) \in Funcs /\ FuncOf(t, n) \in Funcs
        BY DEF Compiled
    <2>2. FuncOf(t, m) = FuncOf(t, n) \/ t[m].n64_end <= t[n].n64_start \/ t[n].n64_end <= t[m].n64_start
        <3>1. \A f, g \in Funcs : f = g \/ f[2] <= g[1] \/ g[2] <= f[1]
            BY VcTreeAssumption
        <3> QED BY <2>1, <3>1 DEF FuncOf
    <2>3. FuncOf(t, m) = FuncOf(t, n)
        BY <1>1, <1>3, <2>2
    <2> QED BY <2>3 DEF Compiled
<1> QED BY <1>1, <1>2, <1>3

(* Balancing one side keeps the order. *)
LEMMA BalancedInOrder ==
    ASSUME NEW t, NEW r, NEW R, Linked(t, R), RootsAre(r, R), InOrder(t, r), Compiled(t),
           NEW start \in R, NEW side \in Sides
    PROVE  LET u == Balanced(t, start, side) IN InOrder(u, r) /\ Compiled(u)
<1> DEFINE N == DOMAIN t
           spine == Spine(t, start, side)
           o == Opposite(side)
           mid == Middle(spine)
           second == spine[2]
           above == t[mid].parent
           chain == Spine(t, mid, o)
           bottom == Bottom(t, mid, o)
           i == 1 + (Len(spine) - 1) \div 2
           u == Balancing(t, start, side)
           K == Kids(t)
           P == Parents(t)
           E == CodeOf(t)
<1>1. SUFFICES ASSUME Found(t, R, start, side), Balanced(t, start, side) = u
               PROVE  InOrder(u, r) /\ Compiled(u)
    BY BalancedOrNot
<1>2. /\ Moves(N, K, P, R, side, o, start, mid, second, above, bottom)
      /\ Down(N, K, side, start, spine) /\ Down(N, K, o, mid, chain)
      /\ i \in 3..Len(spine) /\ mid = spine[i] /\ above = spine[i - 1] /\ bottom = chain[Len(chain)]
    BY <1>1 DEF Found
<1>3. N \subseteq Nat \ {0} /\ t \in [N -> TreeNode]
    BY DEF Linked
<1>4. u = Rehung(t, start, side, mid, second, bottom)
    BY DEF Balancing
<1> HIDE DEF spine, mid, second, above, chain, bottom, i, u
<1>5. start \in N /\ mid \in N /\ second \in N /\ above \in N /\ bottom \in N
    BY <1>2 DEF Moves
<1>6. /\ u \in [N -> TreeNode] /\ \A n \in N : SameCode(u[n], t[n])
      /\ MovedTo(N, K, P, Kids(u), Parents(u), side, o, start, mid, second, above, bottom)
    BY <1>3, <1>4, <1>5, RehungWrites DEF above
<1>7. DOMAIN u = N /\ CodeOf(u) = E /\ \A n \in N : FuncOf(u, n) = FuncOf(t, n) /\ TreeOf(u, n) = TreeOf(t, n)
    BY <1>6 DEF CodeOf, FuncOf, TreeOf, SameCode
<1>8. PICK S : Ordered(N, K, E, S) /\ Rooted(t, r, S)
    BY DEF InOrder
<1>9. Extents(N, E)
    BY <1>3, CompiledFacts
<1>10. PICK A, C : /\ SpineAndChain(N, K, P, side, o, start, mid, second, above, bottom, A, C)
                   /\ Labelled(N, K, S, side, o, mid, second, A, C)
    <2> HIDE DEF N, K, P, E, o
    <2> QED BY <1>2, <1>8, <1>9, SpineLabels DEF second
<1>11. PICK T : Ordered(N, Kids(u), E, T) /\ \A x \in N : P[x] = 0 => T[x] = S[x]
    <2> HIDE DEF N, K, P, E, o
    <2> QED BY <1>2, <1>6, <1>8, <1>9, <1>10, MovedOrdered
<1>12. Rooted(u, r, T)
    <2> SUFFICES ASSUME NEW n \in N
                 PROVE  r[TreeOf(t, n)] # 0 /\ E[n] \subseteq T[r[TreeOf(t, n)]]
        BY <1>7 DEF Rooted
    <2>1. r[TreeOf(t, n)] # 0 /\ E[n] \subseteq S[r[TreeOf(t, n)]]
        BY <1>8 DEF Rooted
    <2>2. r[TreeOf(t, n)] \in R
        BY DEF RootsAre, TreeOf, Tree
    <2>3. r[TreeOf(t, n)] \in N /\ P[r[TreeOf(t, n)]] = 0
        BY <2>1, <2>2 DEF Linked, Hangs, Parents
    <2> QED BY <1>11, <2>1, <2>3
<1>13. InOrder(u, r)
    BY <1>7, <1>11, <1>12 DEF InOrder
<1>14. Compiled(u)
    BY <1>7 DEF Compiled
<1> QED BY <1>13, <1>14

(* Balancing all trees keeps it. *)
LEMMA AllInOrder ==
    ASSUME NEW t, NEW r, NEW R, Linked(t, R), RootsAre(r, R), InOrder(t, r), Compiled(t)
    PROVE  LET u == kz_treeBalance(t, r) IN InOrder(u, r) /\ Compiled(u) /\ DOMAIN u = DOMAIN t
<1> DEFINE Both(u, start) == Balanced(Balanced(u, start, Right), start, Left)
           Good(u) == Linked(u, R) /\ InOrder(u, r) /\ Compiled(u) /\ DOMAIN u = DOMAIN t
<1>1. ASSUME NEW u, NEW start \in R, Good(u) PROVE Good(Both(u, start))
    <2> DEFINE v == Balanced(u, start, Right)
    <2>1. Left \in Sides /\ Right \in Sides
        BY DEF Sides
    <2>2. Good(v)
        BY <1>1, <2>1, BalancedLinked, BalancedInOrder
    <2> HIDE DEF v
    <2>3. Good(Balanced(v, start, Left))
        BY <2>1, <2>2, BalancedLinked, BalancedInOrder
    <2> QED BY <2>3 DEF v
<1>2. Good(t)
    OBVIOUS
<1> HIDE DEF Both, Good
<1>3. r.code \in R /\ r.other \in R /\ r.kz \in R
    BY DEF RootsAre
<1>4. Good(Both(t, r.code))
    BY <1>1, <1>2, <1>3
<1>5. Good(Both(Both(t, r.code), r.other))
    BY <1>1, <1>3, <1>4
<1>6. Good(Both(Both(Both(t, r.code), r.other), r.kz))
    BY <1>1, <1>3, <1>5
<1> QED BY <1>6 DEF kz_treeBalance, Both, Good

(* A search from a root comes to the node that has the address, if the     *)
(* address is below the root.                                              *)
LEMMA SearchReaches ==
    ASSUME NEW t, NEW R, Linked(t, R), Compiled(t), NEW S, Ordered(DOMAIN t, Kids(t), CodeOf(t), S),
           NEW r \in R, r # 0, NEW a \in Int, a \in S[r]
    PROVE  SearchFrom(t, r, a) \in DOMAIN t /\ a \in CodeOf(t)[SearchFrom(t, r, a)]
<1> DEFINE N == DOMAIN t
           Here(m) == a >= t[m].n64_start /\ a < t[m].n64_end
           Side(m) == IF a < t[m].n64_start THEN Left ELSE Right
           next == [m \in N |-> IF Here(m) \/ a = t[m].n64_start THEN 0 ELSE t[m].kid[Side(m)]]
           seen == Way(r, next)
           last == seen[Len(seen)]
           K == Kids(t)
           E == CodeOf(t)
<1>1. /\ N \subseteq Nat \ {0} /\ IsFiniteSet(N) /\ r \in N /\ t[r].parent = 0
      /\ \A n \in N, s \in Sides : t[n].kid[s] # 0 =>
            t[n].kid[s] \in N /\ t[t[n].kid[s]].parent = n
    BY LinkedFacts
<1>2. \A n \in N : /\ t[n].n64_start \in Int /\ t[n].n64_end \in Int /\ t[n].n64_start < t[n].n64_end
                   /\ E[n] = t[n].n64_start .. (t[n].n64_end - 1)
    BY CompiledFacts DEF Linked
<1>3. SearchFrom(t, r, a) = IF r \in N /\ Here(last) THEN last ELSE 0
    BY DEF SearchFrom
<1>4. \A m \in N : K[m] = t[m].kid
    BY DEF Kids
<1>5. /\ S \in [N -> SUBSET Int]
      /\ \A x \in N : S[x] = E[x] \cup Under(K, S, x, Left) \cup Under(K, S, x, Right)
      /\ \A x \in N, y \in Sides : \A b \in Under(K, S, x, y), e \in E[x] : Beside(y, b, e)
    BY DEF Ordered
<1>6. \A m \in N : Here(m) <=> a \in E[m]
    BY <1>2
<1> HIDE DEF K, E, N
<1>7. Left \in Sides /\ Right \in Sides /\ Left # Right
    BY DEF Sides, Left, Right
<1>8. \A m \in N : next[m] # 0 => next[m] \in N /\ t[next[m]].parent = m
    <2>1. \A m \in N : next[m] = 0 \/ next[m] = t[m].kid[Left] \/ next[m] = t[m].kid[Right]
        OBVIOUS
    <2> HIDE DEF next
    <2> QED BY <1>1, <1>7, <2>1
(* The search goes to the side that has the address. *)
<1>9. ASSUME NEW x \in N, a \in S[x], a \notin E[x] PROVE next[x] # 0 /\ a \in S[next[x]]
    <2>1. a # t[x].n64_start /\ ~Here(x)
        BY <1>2, <1>6, <1>9
    <2>2. next[x] = K[x][Side(x)]
        BY <1>4, <2>1
    <2>3. PICK y \in Sides : a \in Under(K, S, x, y)
        BY <1>5, <1>7, <1>9
    <2>4. t[x].n64_start \in E[x] /\ t[x].n64_end - 1 \in E[x]
        BY <1>2
    <2>5. Beside(y, a, t[x].n64_start)
        BY <1>5, <2>3, <2>4
    <2>6. y = Side(x)
        BY <1>2, <1>7, <2>5 DEF Beside, Sides
    <2> HIDE DEF Side, next, Here
    <2> QED BY <2>2, <2>3, <2>6 DEF Under
<1>10. OneWay(N, next, r)
    <2>1. next \in [N -> N \cup {0}]
        <3>1. next = [m \in N |-> next[m]]
            OBVIOUS
        <3> HIDE DEF next
        <3> QED BY <1>8, <3>1
    <2> HIDE DEF next
    <2>2. \A l, m \in N : next[l] = next[m] => next[l] = 0 \/ l = m
        BY <1>8
    <2>3. \A m \in N : next[m] # r
        BY <1>1, <1>8
    <2> QED BY <1>1, <2>1, <2>2, <2>3 DEF OneWay
<1> HIDE DEF next, Here, Side
<1>11. /\ seen \in Seq(N) /\ Len(seen) \in Nat \ {0} /\ seen[1] = r /\ next[last] = 0
       /\ \A k \in 1..(Len(seen) - 1) : seen[k + 1] = next[seen[k]]
    BY <1>10, WayEnds DEF Leads
<1> HIDE DEF seen
<1>12. \A k \in 1..Len(seen) : seen[k] \in N
    BY <1>11, ElementOfSeq
<1>13. \A k \in 1..Len(seen) : a \in S[seen[k]]
    <2> DEFINE bad == {k \in 1..Len(seen) : a \notin S[seen[k]]}
    <2> SUFFICES ASSUME bad # {} PROVE FALSE
        OBVIOUS
    <2>1. bad \in SUBSET Nat
        OBVIOUS
    <2>2. PICK k \in bad : \A j \in bad : k <= j
        BY <2>1, LeastNatural
    <2>3. k \in 1..Len(seen) /\ a \notin S[seen[k]] /\ k # 1
        BY <1>11
    <2>4. k - 1 \in 1..(Len(seen) - 1) /\ k - 1 \in 1..Len(seen) /\ (k - 1) + 1 = k /\ ~(k <= k - 1)
        BY <1>11, <2>3
    <2>5. a \in S[seen[k - 1]]
        BY <2>2, <2>4
    <2>6. seen[k] = next[seen[k - 1]] /\ seen[k] \in N /\ seen[k - 1] \in N
        BY <1>11, <1>12, <2>3, <2>4
    <2>7. a \notin E[seen[k - 1]]
        <3>1. seen[k] # 0
            BY <1>1, <2>6
        <3>2. ASSUME a \in E[seen[k - 1]] PROVE next[seen[k - 1]] = 0
            BY <1>6, <2>6, <3>2 DEF next
        <3> QED BY <2>6, <3>1, <3>2
    <2> QED BY <1>9, <2>3, <2>5, <2>6, <2>7
<1>14. last \in N /\ a \in S[last]
    <2>1. Len(seen) \in 1..Len(seen)
        BY <1>11
    <2> QED BY <1>12, <1>13, <2>1
<1>15. a \in E[last]
    BY <1>9, <1>11, <1>14
<1>16. SearchFrom(t, r, a) = last
    BY <1>1, <1>3, <1>6, <1>14, <1>15
<1> HIDE DEF last
<1> QED BY <1>14, <1>15, <1>16 DEF N, E

(* kz's tree, if there is one, begins at the pool's first node, since the  *)
(* pool's nodes are kz's alone.                                            *)
PoolIsKz ==
    /\ root.kz \in {0, 1}
    /\ root.kz = 0 => \A n \in DOMAIN node : n \notin 1..POOL

SearchInv == TreeInv /\ InOrder(node, root) /\ Compiled(node) /\ PoolIsKz

(* Where the emulator looks is where kz_treeInsert has put it. *)
LEMMA LookupFromRoot ==
    ASSUME SearchInv, NEW f \in Funcs, root[Tree(f[1], f[2])] # 0, NEW a \in f[1] .. (f[2] - 1)
    PROVE  Lookup(a) = SearchFrom(node, root[Tree(f[1], f[2])], a)
<1>1. f[1] \in Int /\ f[2] \in Int /\ KZ_LO \in Int /\ KZ_HI \in Int /\ CODE_END \in Int
    BY VcTreeAssumption
<1>2. /\ f[1] < f[2]
      /\ f[1] < CODE_END => f[2] <= CODE_END
      /\ f[1] > KZ_LO /\ f[1] < KZ_HI => f[2] < KZ_HI
      /\ f[1] <= KZ_LO => f[2] <= KZ_LO + 1
    BY VcTreeAssumption
<1>3. Tree(f[1], f[2]) = "kz" <=> InKz(a)
    BY <1>1, <1>2 DEF Tree, InKz
<1>4. Tree(f[1], f[2]) # "kz" => Tree(f[1], f[2]) = IF a < CODE_END THEN "code" ELSE "other"
    BY <1>1, <1>2 DEF Tree
<1> DEFINE from == IF a < CODE_END THEN root.code ELSE root.other
<1>5. Lookup(a) = SearchFrom(node, IF from \in {root.code, root.other} /\ InKz(a) THEN 1 ELSE from, a)
    BY DEF Lookup, kz_treeSearchNode
<1>6. from \in {root.code, root.other}
    OBVIOUS
<1>7. CASE InKz(a)
    <2>1. root.kz = 1
        BY <1>3, <1>7 DEF SearchInv, PoolIsKz
    <2> HIDE DEF from
    <2> QED BY <1>3, <1>5, <1>6, <1>7, <2>1
<1>8. CASE ~InKz(a)
    <2>1. from = root[Tree(f[1], f[2])]
        BY <1>3, <1>4, <1>8
    <2> HIDE DEF from
    <2> QED BY <1>5, <1>8, <2>1
<1> QED BY <1>7, <1>8

LEMMA InvFinds ==
    ASSUME SearchInv
    PROVE  RecompiledIsFound
<1> SUFFICES ASSUME NEW n \in DOMAIN node, NEW a \in node[n].n64_start .. (node[n].n64_end - 1)
             PROVE  Lookup(a) = n
    BY DEF RecompiledIsFound
<1> DEFINE f == FuncOf(node, n)
           r == root[TreeOf(node, n)]
<1>1. Linked(node, Roots) /\ Compiled(node) /\ node \in [DOMAIN node -> TreeNode]
    BY DEF SearchInv, TreeInv, Linked
<1>2. f \in Funcs /\ f[1] = node[n].n64_start /\ f[2] = node[n].n64_end
      /\ TreeOf(node, n) = Tree(f[1], f[2])
    BY <1>1 DEF Compiled, FuncOf, TreeOf
<1>3. PICK S : Ordered(DOMAIN node, Kids(node), CodeOf(node), S) /\ Rooted(node, root, S)
    BY DEF SearchInv, InOrder
<1>4. /\ node[n].n64_start \in Int /\ node[n].n64_end \in Int
      /\ CodeOf(node)[n] = node[n].n64_start .. (node[n].n64_end - 1)
      /\ \A m \in DOMAIN node : \A b \in CodeOf(node)[m] : b \in CodeOf(node)[n] => m = n
    BY <1>1, CompiledFacts
<1>5. r # 0 /\ CodeOf(node)[n] \subseteq S[r]
    BY <1>3 DEF Rooted
<1>6. r \in Roots
    BY DEF TreeOf, Tree, Roots
<1>7. a \in Int /\ a \in CodeOf(node)[n] /\ a \in S[r]
    BY <1>4, <1>5
<1>8. SearchFrom(node, r, a) \in DOMAIN node /\ a \in CodeOf(node)[SearchFrom(node, r, a)]
    BY <1>1, <1>3, <1>5, <1>6, <1>7, SearchReaches
<1>9. SearchFrom(node, r, a) = n
    BY <1>4, <1>7, <1>8
<1>10. Lookup(a) = SearchFrom(node, r, a)
    BY <1>2, <1>5, LookupFromRoot
<1> QED BY <1>9, <1>10

(* A function that is not found has no node. *)
LEMMA LookedUpIsNew ==
    ASSUME SearchInv, NEW f \in Funcs, Lookup(f[1]) = 0
    PROVE  \A n \in DOMAIN node : FuncOf(node, n) # f
<1> SUFFICES ASSUME NEW n \in DOMAIN node, FuncOf(node, n) = f PROVE FALSE
    OBVIOUS
<1>1. f[1] \in Int /\ f[2] \in Int /\ f[1] < f[2]
    BY VcTreeAssumption
<1>2. f[1] \in node[n].n64_start .. (node[n].n64_end - 1)
    BY <1>1 DEF FuncOf
<1>3. Lookup(f[1]) = n
    BY <1>2, InvFinds DEF RecompiledIsFound
<1> QED BY <1>3 DEF SearchInv, TreeInv, Linked

(* The new node among the others. *)
LEMMA NewCompiled ==
    ASSUME SearchInv, NEW f \in Funcs, \A m \in DOMAIN node : FuncOf(node, m) # f,
           NEW n, n \notin DOMAIN node, NEW g, NewNode(g, n, f[1], f[2])
    PROVE  /\ Compiled(g) /\ CodeOf(g)[n] = f[1] .. (f[2] - 1) /\ TreeOf(g, n) = Tree(f[1], f[2])
           /\ \A m \in DOMAIN node : CodeOf(g)[m] = CodeOf(node)[m] /\ TreeOf(g, m) = TreeOf(node, m)
           /\ DOMAIN g = DOMAIN node \cup {n}
<1>1. DOMAIN g = DOMAIN node \cup {n} /\ g[n].n64_start = f[1] /\ g[n].n64_end = f[2]
      /\ \A m \in DOMAIN node : SameCode(g[m], node[m])
    BY DEF NewNode
<1>2. f = <<f[1], f[2]>>
    BY VcTreeAssumption
<1>3. FuncOf(g, n) = f /\ \A m \in DOMAIN node : FuncOf(g, m) = FuncOf(node, m)
    BY <1>1, <1>2 DEF FuncOf, SameCode
<1>4. Compiled(node)
    BY DEF SearchInv
<1>5. Compiled(g)
    BY <1>1, <1>3, <1>4 DEF Compiled
<1>6. CodeOf(g)[n] = f[1] .. (f[2] - 1) /\ TreeOf(g, n) = Tree(f[1], f[2])
    BY <1>1 DEF CodeOf, TreeOf
<1>7. \A m \in DOMAIN node : CodeOf(g)[m] = CodeOf(node)[m] /\ TreeOf(g, m) = TreeOf(node, m)
    BY <1>1 DEF CodeOf, TreeOf, SameCode
<1> QED BY <1>1, <1>5, <1>6, <1>7

(* Its addresses lie beside those of a node it passes. *)
LEMMA NewLiesBeside ==
    ASSUME SearchInv, NEW f \in Funcs, NEW x \in DOMAIN node, FuncOf(node, x) # f,
           NEW b \in f[1] .. (f[2] - 1), NEW e \in CodeOf(node)[x]
    PROVE  Beside(Turns(f[1])[x], b, e)
<1> DEFINE h == FuncOf(node, x)
<1>1. h \in Funcs /\ h[1] = node[x].n64_start /\ h[2] = node[x].n64_end
    BY DEF SearchInv, Compiled, FuncOf
<1>2. CodeOf(node)[x] = h[1] .. (h[2] - 1) /\ Turns(f[1])[x] = IF f[1] < h[1] THEN Left ELSE Right
    BY <1>1 DEF CodeOf, Turns
<1>3. /\ f[1] \in Int /\ f[2] \in Int /\ h[1] \in Int /\ h[2] \in Int /\ f[1] < f[2] /\ h[1] < h[2]
      /\ f[2] <= h[1] \/ h[2] <= f[1]
    BY <1>1, VcTreeAssumption
<1> HIDE DEF h
<1> QED BY <1>2, <1>3 DEF Beside, Left, Right

LEMMA LeafInOrder ==
    ASSUME SearchInv, NEW f \in Funcs, \A m \in DOMAIN node : FuncOf(node, m) # f,
           NEW n \in Nat \ {0}, n \notin DOMAIN node, root[Tree(f[1], f[2])] # 0
    PROVE  LET at == LeafFor(root[Tree(f[1], f[2])], f[1])
               g  == Grown(n, at[1], at[2], f[1], f[2])
           IN InOrder(g, root) /\ Compiled(g)
<1> DEFINE tree == Tree(f[1], f[2])
           r == root[tree]
           at == LeafFor(r, f[1])
           g == Grown(n, at[1], at[2], f[1], f[2])
           N == DOMAIN node
           E == CodeOf(node)
           F == CodeOf(g)
<1>1. TreeInv /\ Linked(node, Roots) /\ Compiled(node) /\ node \in [N -> TreeNode]
      /\ f[1] \in Int /\ f[2] \in Int
    BY VcTreeAssumption DEF SearchInv, TreeInv, Linked
<1>2. r \in Roots /\ r # 0
    BY DEF Tree, Roots
<1> HIDE DEF at
<1>3. /\ at[1] \in N /\ at[2] \in Sides /\ node[at[1]].kid[at[2]] = 0
      /\ \E W : WayDown(N, Kids(node), Parents(node), W, Turns(f[1]), r, at[1], at[2])
    BY <1>1, <1>2, LeafWay DEF at
<1>4. PICK W : WayDown(N, Kids(node), Parents(node), W, Turns(f[1]), r, at[1], at[2])
    BY <1>3
<1> HIDE DEF tree, r
<1>5. /\ NewNode(g, n, f[1], f[2])
      /\ LeafAdded(N, Kids(node), Parents(node), Roots, n, Kids(g), Parents(g), at[1], at[2])
    BY <1>1, <1>3, GrownAdds
<1> HIDE DEF g
<1>6. /\ Compiled(g) /\ F[n] = f[1] .. (f[2] - 1) /\ TreeOf(g, n) = tree
      /\ \A m \in N : F[m] = E[m] /\ TreeOf(g, m) = TreeOf(node, m)
      /\ DOMAIN g = N \cup {n}
    BY <1>5, NewCompiled DEF tree
<1>7. PICK S : Ordered(N, Kids(node), E, S) /\ Rooted(node, root, S)
    BY DEF SearchInv, InOrder
<1>8. Extents(N, E)
    BY <1>1, CompiledFacts
<1>9. F[n] \subseteq Int /\ \A x \in W : \A b \in F[n], e \in E[x] : Beside(Turns(f[1])[x], b, e)
    <2>1. W \subseteq N
        BY <1>4 DEF WayDown
    <2> QED BY <1>1, <1>6, <2>1, NewLiesBeside
<1>10. PICK T : /\ Ordered(N \cup {n}, Kids(g), F, T) /\ T[r] = S[r] \cup F[n]
                /\ \A x \in N : Parents(node)[x] = 0 /\ x # r => T[x] = S[x]
    <2>1. \A x \in N : F[x] = E[x]
        BY <1>6
    <2>2. Ordered(N, Kids(node), E, S) /\ Extents(N, E)
        BY <1>7, <1>8
    <2>3. LeafAdded(N, Kids(node), Parents(node), Roots, n, Kids(g), Parents(g), at[1], at[2])
        BY <1>5
    <2>4. LiesOnWay(N, E, F, W, Turns(f[1]), n)
        BY <1>9, <2>1 DEF LiesOnWay
    <2> HIDE DEF N, E, F
    <2>5. OrderedWith(N, Parents(node), Kids(g), F, S, r, n)
        BY <1>4, <2>2, <2>3, <2>4, LeafOrdered
    <2> QED BY <2>5 DEF OrderedWith
<1>11. Rooted(g, root, T)
    <2> SUFFICES ASSUME NEW m \in N \cup {n}
                 PROVE  root[TreeOf(g, m)] # 0 /\ F[m] \subseteq T[root[TreeOf(g, m)]]
        BY <1>6 DEF Rooted
    <2>1. CASE m = n
        BY <1>2, <1>6, <1>10, <2>1 DEF r
    <2>2. CASE m \in N
        <3> DEFINE a == root[TreeOf(node, m)]
        <3>1. a # 0 /\ E[m] \subseteq S[a]
            BY <1>7, <2>2 DEF Rooted
        <3>2. a \in Roots
            BY DEF TreeOf, Tree, Roots
        <3>3. a \in N /\ Parents(node)[a] = 0
            BY <1>1, <3>1, <3>2 DEF Linked, Hangs, Parents
        <3> HIDE DEF a
        <3>4. E[m] \subseteq T[a]
            BY <1>10, <3>1, <3>3
        <3> QED BY <1>6, <2>2, <3>1, <3>4 DEF a
    <2> QED BY <2>1, <2>2
<1>12. InOrder(g, root)
    BY <1>6, <1>10, <1>11 DEF InOrder
<1> QED BY <1>6, <1>12 DEF g, at, r, tree

LEMMA RootInOrder ==
    ASSUME SearchInv, NEW f \in Funcs, \A m \in DOMAIN node : FuncOf(node, m) # f,
           NEW n \in Nat \ {0}, n \notin DOMAIN node, root[Tree(f[1], f[2])] = 0,
           NEW A, RootsWith(n, A)
    PROVE  LET g == Grown(n, 0, Left, f[1], f[2])
           IN InOrder(g, [root EXCEPT ![Tree(f[1], f[2])] = n]) /\ Compiled(g)
<1> DEFINE tree == Tree(f[1], f[2])
           r == [root EXCEPT ![tree] = n]
           g == Grown(n, 0, Left, f[1], f[2])
           N == DOMAIN node
           E == CodeOf(node)
           F == CodeOf(g)
<1>1. TreeInv /\ Linked(node, Roots) /\ root \in [{"code", "other", "kz"} -> Nat]
      /\ f[1] \in Int /\ f[2] \in Int
    BY VcTreeAssumption DEF SearchInv, TreeInv
<1>2. tree \in {"code", "other", "kz"} /\ root[tree] = 0
    BY DEF Tree
<1>3. r[tree] = n /\ \A x \in {"code", "other", "kz"} : x # tree => r[x] = root[x]
    BY <1>1, <1>2
<1> HIDE DEF tree, r
<1>4. /\ NewNode(g, n, f[1], f[2])
      /\ RootAdded(N, Kids(node), Parents(node), Roots, n, Kids(g), Parents(g), A)
    BY <1>1, GrownAdds
<1> HIDE DEF g
<1>5. /\ Compiled(g) /\ F[n] = f[1] .. (f[2] - 1) /\ TreeOf(g, n) = tree
      /\ \A m \in N : F[m] = E[m] /\ TreeOf(g, m) = TreeOf(node, m)
      /\ DOMAIN g = N \cup {n}
    BY <1>4, NewCompiled DEF tree
<1>6. PICK S : Ordered(N, Kids(node), E, S) /\ Rooted(node, root, S)
    BY DEF SearchInv, InOrder
<1>7. OrderedAlone(N, Kids(g), F, S, n)
    <2>1. F[n] \subseteq Int /\ \A x \in N : F[x] = E[x]
        BY <1>1, <1>5
    <2> HIDE DEF N, E, F
    <2> QED BY <1>4, <1>6, <2>1, RootOrdered
<1>8. PICK T : Ordered(N \cup {n}, Kids(g), F, T) /\ T[n] = F[n] /\ \A x \in N : T[x] = S[x]
    BY <1>7 DEF OrderedAlone
<1>9. Rooted(g, r, T)
    <2> SUFFICES ASSUME NEW m \in N \cup {n}
                 PROVE  r[TreeOf(g, m)] # 0 /\ F[m] \subseteq T[r[TreeOf(g, m)]]
        BY <1>5 DEF Rooted
    <2>1. CASE m = n
        BY <1>3, <1>5, <1>8, <2>1
    <2>2. CASE m \in N
        <3> DEFINE a == root[TreeOf(node, m)]
        <3>1. a # 0 /\ E[m] \subseteq S[a]
            BY <1>6, <2>2 DEF Rooted
        <3>2. a \in Roots /\ TreeOf(node, m) \in {"code", "other", "kz"}
            BY DEF TreeOf, Tree, Roots
        <3>3. a \in N
            BY <1>1, <3>1, <3>2 DEF Linked, Hangs
        <3>4. r[TreeOf(node, m)] = a
            BY <1>2, <1>3, <3>1, <3>2
        <3> HIDE DEF a
        <3> QED BY <1>5, <1>8, <2>2, <3>1, <3>3, <3>4
    <2> QED BY <2>1, <2>2
<1>10. InOrder(g, r)
    BY <1>5, <1>8, <1>9 DEF InOrder
<1> QED BY <1>5, <1>10 DEF g, r, tree

(* Which pool a node is taken from. *)
LEMMA TakenFrom ==
    ASSUME SearchInv, NEW f \in Funcs
    PROVE  LET n == Taken(f[1]) IN
           /\ Tree(f[1], f[2]) = "kz" /\ root.kz = 0 => n = 1
           /\ Tree(f[1], f[2]) # "kz" => n \notin 1..POOL
<1> DEFINE N == DOMAIN node
           c == Cardinality(N)
           over == (POOL + 1 .. POOL + 1 + c) \ N
           free == IF InKz(f[1]) /\ \E n \in 1..POOL : n \notin N THEN (1..POOL) \ N ELSE over
           n == Taken(f[1])
<1>1. /\ f[1] \in Int /\ f[2] \in Int /\ KZ_LO \in Int /\ KZ_HI \in Int /\ f[1] < f[2]
      /\ f[1] > KZ_LO /\ f[1] < KZ_HI => f[2] < KZ_HI
    BY VcTreeAssumption
<1>2. Tree(f[1], f[2]) = "kz" <=> InKz(f[1])
    BY <1>1 DEF Tree, InKz
<1>3. POOL \in Nat \ {0} /\ c \in Nat
    BY FS_CardinalityType, VcTreeAssumption DEF SearchInv, TreeInv, Linked
<1>4. n = CHOOSE k \in free : \A m \in free : k <= m
    BY DEF Taken
<1>5. CASE Tree(f[1], f[2]) = "kz" /\ root.kz = 0
    <2>1. \A k \in N : k \notin 1..POOL
        BY <1>5 DEF SearchInv, PoolIsKz
    <2>2. 1 \in 1..POOL
        BY <1>3
    <2>3. free = 1..POOL
        BY <1>2, <1>5, <2>1, <2>2
    <2>4. \A k \in 1..POOL : (\A m \in 1..POOL : k <= m) <=> k = 1
        BY <1>3, <2>2
    <2> HIDE DEF free, n
    <2> QED BY <1>4, <1>5, <2>2, <2>3, <2>4 DEF n
<1>6. CASE Tree(f[1], f[2]) # "kz"
    <2>1. free = over
        BY <1>2, <1>6
    <2>2. over \in SUBSET Nat /\ over # {}
        <3> DEFINE I == POOL + 1 .. POOL + 1 + c
        <3> SUFFICES ASSUME I \subseteq N PROVE FALSE
            BY <1>3
        <3>1. IsFiniteSet(I) /\ Cardinality(I) = c + 1
            BY <1>3, FS_Interval
        <3>2. IsFiniteSet(N)
            BY DEF SearchInv, TreeInv, Linked
        <3> HIDE DEF I
        <3>3. Cardinality(I) <= c
            BY <3>2, FS_Subset
        <3> QED BY <1>3, <3>1, <3>3
    <2>3. \A k \in over : k \notin 1..POOL
        BY <1>3
    <2> HIDE DEF over, free, n
    <2>4. \E k \in over : \A m \in over : k <= m
        BY <2>2, LeastNatural
    <2>5. n \in over
        BY <1>4, <2>1, <2>4
    <2> QED BY <1>6, <2>3, <2>5 DEF n
<1> QED BY <1>5, <1>6

(* An insertion of a function that is not found keeps all of it. *)
LEMMA InsertSearchable ==
    ASSUME SearchInv, NEW f \in Funcs, Lookup(f[1]) = 0, kz_treeInsert(f[1], f[2])
    PROVE  SearchInv'
<1>0. CASE Refused(f[1], f[2])
    BY <1>0 DEF kz_treeInsert, VcTreeVars, SearchInv, TreeInv, Roots, InOrder, Compiled, PoolIsKz
<1> SUFFICES ASSUME ~Refused(f[1], f[2]) PROVE SearchInv'
    BY <1>0
<1> DEFINE tree == Tree(f[1], f[2])
           n == Taken(f[1])
           at == IF root[tree] = 0 THEN <<0, Left>> ELSE LeafFor(root[tree], f[1])
           g == Grown(n, at[1], at[2], f[1], f[2])
           A == {root'.code, root'.other, root'.kz}
<1>1. TreeInv /\ f[1] \in Int /\ f[2] \in Int
    BY VcTreeAssumption DEF SearchInv
<1>2. tree \in {"code", "other", "kz"} /\ root \in [{"code", "other", "kz"} -> Nat]
    BY <1>1 DEF Tree, TreeInv
<1>3. n \in Nat \ {0} /\ n \notin DOMAIN node
    BY <1>1, TakenIsFree
<1>4. /\ root' = IF root[tree] = 0 THEN [root EXCEPT ![tree] = n] ELSE root
      /\ node' = kz_treeBalance(g, root')
    BY DEF kz_treeInsert
<1>5. \A m \in DOMAIN node : FuncOf(node, m) # f
    BY LookedUpIsNew
<1>6. TreeInv'
    BY <1>1, InsertLinked
<1>7. Linked(g, A) /\ InOrder(g, root') /\ Compiled(g) /\ DOMAIN g = DOMAIN node \cup {n}
    <2>1. CASE root[tree] = 0
        <3>1. RootsWith(n, A)
            <4>1. A = {root'["code"], root'["other"], root'["kz"]}
                BY <1>2, <1>4, <2>1
            <4>2. 0 \notin DOMAIN node
                BY <1>1 DEF TreeInv, Linked
            <4>3. \A x \in {"code", "other", "kz"} : root'[x] = IF x = tree THEN n ELSE root[x]
                BY <1>2, <1>4, <2>1
            <4>4. Roots = {root["code"], root["other"], root["kz"]}
                BY DEF Roots
            <4> HIDE DEF A, tree, n
            <4> QED BY <1>2, <2>1, <4>1, <4>2, <4>3, <4>4 DEF RootsWith
        <3>2. g = Grown(n, 0, Left, f[1], f[2]) /\ root' = [root EXCEPT ![tree] = n]
            BY <1>4, <2>1
        <3> HIDE DEF g, A, n
        <3>3. Linked(g, A)
            BY <1>1, <1>3, <3>1, <3>2, GrownLinked
        <3>4. InOrder(g, root') /\ Compiled(g)
            BY <1>3, <1>5, <2>1, <3>1, <3>2, RootInOrder
        <3>5. DOMAIN g = DOMAIN node \cup {n}
            BY <3>2 DEF Grown
        <3> QED BY <3>3, <3>4, <3>5
    <2>2. CASE root[tree] # 0
        <3>1. A = Roots /\ root' = root /\ root[tree] \in Roots
            BY <1>2, <1>4, <2>2 DEF Roots
        <3>2. at = LeafFor(root[tree], f[1])
            BY <2>2
        <3>3. at[1] \in DOMAIN node /\ at[2] \in Sides /\ node[at[1]].kid[at[2]] = 0
            <4> HIDE DEF at, tree
            <4> QED BY <1>1, <2>2, <3>1, <3>2, LeafWay
        <3> HIDE DEF at, n, A
        <3>4. Linked(g, A)
            BY <1>1, <1>3, <3>1, <3>3, GrownLinked
        <3>5. InOrder(g, root') /\ Compiled(g)
            BY <1>3, <1>5, <2>2, <3>1, <3>2, LeafInOrder
        <3>6. DOMAIN g = DOMAIN node \cup {n}
            BY DEF Grown
        <3> QED BY <3>4, <3>5, <3>6
    <2> QED BY <2>1, <2>2
<1>8. RootsAre(root', A)
    BY DEF RootsAre
<1>9. InOrder(node', root') /\ Compiled(node') /\ DOMAIN node' = DOMAIN node \cup {n}
    <2> HIDE DEF g, A, n
    <2> QED BY <1>4, <1>7, <1>8, AllInOrder
<1>10. PoolIsKz'
    <2>1. PoolIsKz
        BY DEF SearchInv
    <2>2. CASE tree = "kz" /\ root.kz = 0
        <3>1. n = 1
            BY <2>2, TakenFrom
        <3>2. root'.kz = 1
            BY <1>2, <1>4, <2>2, <3>1
        <3> QED BY <3>2 DEF PoolIsKz
    <2>3. CASE tree = "kz" /\ root.kz # 0
        <3>1. root'.kz = root.kz
            BY <1>4, <2>3
        <3> QED BY <2>1, <2>3, <3>1 DEF PoolIsKz
    <2>4. CASE tree # "kz"
        <3>1. n \notin 1..POOL
            BY <2>4, TakenFrom
        <3>2. root'.kz = root.kz
            BY <1>2, <1>4, <2>4
        <3> QED BY <1>9, <2>1, <3>1, <3>2 DEF PoolIsKz
    <2> QED BY <2>2, <2>3, <2>4
<1> QED BY <1>6, <1>9, <1>10 DEF SearchInv

(* Whatever functions are inserted, in whatever order, and however often   *)
(* long spines are rehung, the emulator finds every function that has been *)
(* recompiled at each of its addresses: it looks in the tree the function  *)
(* was put in, kz's behind either of its own roots, and every turn of the  *)
(* search leads to the function.                                           *)
THEOREM VcRecompiledIsFound == VcTreeSpec => []RecompiledIsFound
<1>1. VcTreeInit => SearchInv
    <2> SUFFICES ASSUME VcTreeInit PROVE SearchInv
        OBVIOUS
    <2>1. DOMAIN node = {} /\ root.kz = 0
        BY DEF VcTreeInit
    <2>2. TreeInv
        BY TreeInitInv
    <2>3. Compiled(node) /\ PoolIsKz
        BY <2>1 DEF Compiled, PoolIsKz
    <2>4. InOrder(node, root)
        <3> DEFINE S == [x \in {} |-> {}]
        <3>1. S \in [{} -> SUBSET Int]
            OBVIOUS
        <3>2. Ordered(DOMAIN node, Kids(node), CodeOf(node), S) /\ Rooted(node, root, S)
            BY <2>1, <3>1 DEF Ordered, Rooted
        <3> QED BY <3>2 DEF InOrder
    <2> QED BY <2>2, <2>3, <2>4 DEF SearchInv
<1>2. SearchInv /\ [VcTreeNext]_VcTreeVars => SearchInv'
    <2> SUFFICES ASSUME SearchInv, [VcTreeNext]_VcTreeVars PROVE SearchInv'
        OBVIOUS
    <2>1. CASE VcTreeNext
        <3>1. PICK f \in Funcs : Lookup(f[1]) = 0 /\ kz_treeInsert(f[1], f[2])
            BY <2>1 DEF VcTreeNext, Execute
        <3> QED BY <3>1, InsertSearchable
    <2>2. CASE UNCHANGED VcTreeVars
        BY <2>2 DEF VcTreeVars, SearchInv, TreeInv, Roots, InOrder, Compiled, PoolIsKz
    <2> QED BY <2>1, <2>2
<1> QED BY <1>1, <1>2, InvFinds, PTL DEF VcTreeSpec

-----------------------------------------------------------------------------
(* Display lists.  The settled list of a writer is its list as it will be  *)
(* when the commands that room was left for are filled in.  While a batch  *)
(* is open its settled list draws the polygons so far, and stays so when   *)
(* vertices are added: no earlier command needs one of them.               *)

(* What commands of a list can be, and what is drawn by them. *)
Vertices == Nat \X (1..3)
PolyColors == {"none"} \cup {Color(type) : type \in PolyTypes}
VtxCommands == {<<"vtx", v>> : v \in Seq(Vertices)}
ColorCommands == {<<"color", c>> : c \in PolyColors}
TriCommands == {<<"tri", <<i>>>> : i \in Nat} \cup {<<"tri", <<i, i + 3>>>> : i \in Nat}
LineCommands == {<<"line", i, j>> : i \in Nat, j \in Nat}
Commands == VtxCommands \cup ColorCommands \cup TriCommands \cup LineCommands

(* The command needs none but the first n of the loaded vertices. *)
NeedsOf(command, n) ==
    \/ command \in ColorCommands
    \/ \E i \in Nat : i + 3 <= n /\ command = <<"tri", <<i>>>>
    \/ \E i \in Nat : i + 6 <= n /\ command = <<"tri", <<i, i + 3>>>>
    \/ \E i, j \in Nat : i < n /\ j < n /\ command = <<"line", i, j>>

Blank == [loaded |-> <<>>, color |-> "none", tris |-> <<>>, lines |-> {}]
IsRcp(r) == r = [loaded |-> r.loaded, color |-> r.color, tris |-> r.tris, lines |-> r.lines]
Triangle(loaded, i, color) == <<SubSeq(loaded, i + 1, i + 3), color>>

(* What each command does. *)
LEMMA ExecutedVtx ==
    ASSUME NEW r, IsRcp(r), NEW v
    PROVE  Executed(r, <<"vtx", v>>) = [loaded |-> v, color |-> r.color, tris |-> r.tris, lines |-> r.lines]
<1> DEFINE command == <<"vtx", v>>
<1>1. command[1] = "vtx" /\ command[2] = v
    OBVIOUS
<1> HIDE DEF command
<1>2. Executed(r, command) = [r EXCEPT !.loaded = v]
    BY <1>1 DEF Executed
<1> QED BY <1>2 DEF IsRcp, command

LEMMA ExecutedColor ==
    ASSUME NEW r, IsRcp(r), NEW c
    PROVE  Executed(r, <<"color", c>>) = [loaded |-> r.loaded, color |-> c, tris |-> r.tris, lines |-> r.lines]
<1> DEFINE command == <<"color", c>>
<1>1. command[1] = "color" /\ command[2] = c
    OBVIOUS
<1> HIDE DEF command
<1>2. Executed(r, command) = [r EXCEPT !.color = c]
    BY <1>1 DEF Executed
<1> QED BY <1>2 DEF IsRcp, command

LEMMA ExecutedTri ==
    ASSUME NEW r, IsRcp(r), NEW s
    PROVE  Executed(r, <<"tri", s>>) =
             [loaded |-> r.loaded, color |-> r.color, lines |-> r.lines,
              tris |-> r.tris \o [t \in DOMAIN s |-> Triangle(r.loaded, s[t], r.color)]]
<1> DEFINE command == <<"tri", s>>
           more == [t \in DOMAIN s |-> Triangle(r.loaded, s[t], r.color)]
<1>1. command[1] = "tri" /\ command[2] = s
    OBVIOUS
<1> HIDE DEF command
<1>2. Executed(r, command) = [r EXCEPT !.tris = @ \o more]
    BY <1>1 DEF Executed, Triangle
<1> HIDE DEF more
<1>3. Executed(r, command) = [loaded |-> r.loaded, color |-> r.color, lines |-> r.lines, tris |-> r.tris \o more]
    BY <1>2 DEF IsRcp
<1> QED BY <1>3 DEF command, more

LEMMA ExecutedLine ==
    ASSUME NEW r, IsRcp(r), NEW i, NEW j
    PROVE  Executed(r, <<"line", i, j>>) =
             [loaded |-> r.loaded, color |-> r.color, tris |-> r.tris,
              lines |-> r.lines \cup {{r.loaded[i + 1], r.loaded[j + 1]}}]
<1> DEFINE command == <<"line", i, j>>
           line == {{r.loaded[i + 1], r.loaded[j + 1]}}
<1>1. command[1] = "line" /\ command[2] = i /\ command[3] = j
    OBVIOUS
<1> HIDE DEF command
<1>2. Executed(r, command) = [r EXCEPT !.lines = @ \cup line]
    BY <1>1 DEF Executed
<1> HIDE DEF line
<1>3. Executed(r, command) = [loaded |-> r.loaded, color |-> r.color, tris |-> r.tris, lines |-> r.lines \cup line]
    BY <1>2 DEF IsRcp
<1> QED BY <1>3 DEF command, line

(* A triangle or two. *)
LEMMA ExecutedTris ==
    ASSUME NEW r, IsRcp(r), NEW i
    PROVE  /\ Executed(r, <<"tri", <<i>>>>) =
                [loaded |-> r.loaded, color |-> r.color, lines |-> r.lines,
                 tris |-> r.tris \o <<Triangle(r.loaded, i, r.color)>>]
           /\ Executed(r, <<"tri", <<i, i + 3>>>>) =
                [loaded |-> r.loaded, color |-> r.color, lines |-> r.lines,
                 tris |-> r.tris \o <<Triangle(r.loaded, i, r.color), Triangle(r.loaded, i + 3, r.color)>>]
<1>1. [t \in DOMAIN <<i>> |-> Triangle(r.loaded, <<i>>[t], r.color)] = <<Triangle(r.loaded, i, r.color)>>
    OBVIOUS
<1>2. [t \in DOMAIN <<i, i + 3>> |-> Triangle(r.loaded, <<i, i + 3>>[t], r.color)]
        = <<Triangle(r.loaded, i, r.color), Triangle(r.loaded, i + 3, r.color)>>
    OBVIOUS
<1>3. Executed(r, <<"tri", <<i>>>>) =
                [loaded |-> r.loaded, color |-> r.color, lines |-> r.lines,
                 tris |-> r.tris \o <<Triangle(r.loaded, i, r.color)>>]
    <2> DEFINE s == <<i>>
               triangles == [t \in DOMAIN s |-> Triangle(r.loaded, s[t], r.color)]
    <2>1. Executed(r, <<"tri", s>>) =
             [loaded |-> r.loaded, color |-> r.color, lines |-> r.lines, tris |-> r.tris \o triangles]
        <3> HIDE DEF s
        <3> QED BY ExecutedTri
    <2>2. triangles = <<Triangle(r.loaded, i, r.color)>>
        BY <1>1
    <2> HIDE DEF triangles
    <2> QED BY <2>1, <2>2
<1>4. Executed(r, <<"tri", <<i, i + 3>>>>) =
                [loaded |-> r.loaded, color |-> r.color, lines |-> r.lines,
                 tris |-> r.tris \o <<Triangle(r.loaded, i, r.color), Triangle(r.loaded, i + 3, r.color)>>]
    <2> DEFINE s == <<i, i + 3>>
               triangles == [t \in DOMAIN s |-> Triangle(r.loaded, s[t], r.color)]
    <2>1. Executed(r, <<"tri", s>>) =
             [loaded |-> r.loaded, color |-> r.color, lines |-> r.lines, tris |-> r.tris \o triangles]
        <3> HIDE DEF s
        <3> QED BY ExecutedTri
    <2>2. triangles = <<Triangle(r.loaded, i, r.color), Triangle(r.loaded, i + 3, r.color)>>
        BY <1>2
    <2> HIDE DEF triangles
    <2> QED BY <2>1, <2>2
<1> QED BY <1>3, <1>4

(* A command leaves a state of the RCP.                                  *)
LEMMA ExecutedRcp ==
    ASSUME NEW r, IsRcp(r), NEW command \in Commands
    PROVE  IsRcp(Executed(r, command))
<1>1. CASE command \in VtxCommands
    <2>1. PICK v : command = <<"vtx", v>>
        BY <1>1 DEF VtxCommands
    <2>2. Executed(r, command) = [loaded |-> v, color |-> r.color, tris |-> r.tris, lines |-> r.lines]
        BY <2>1, ExecutedVtx
    <2> QED BY <2>2 DEF IsRcp
<1>2. CASE command \in ColorCommands
    <2>1. PICK c : command = <<"color", c>>
        BY <1>2 DEF ColorCommands
    <2>2. Executed(r, command) = [loaded |-> r.loaded, color |-> c, tris |-> r.tris, lines |-> r.lines]
        BY <2>1, ExecutedColor
    <2> QED BY <2>2 DEF IsRcp
<1>3. CASE command \in TriCommands
    <2>1. PICK s : command = <<"tri", s>>
        BY <1>3 DEF TriCommands
    <2>2. Executed(r, command) =
             [loaded |-> r.loaded, color |-> r.color, lines |-> r.lines,
              tris |-> r.tris \o [t \in DOMAIN s |-> Triangle(r.loaded, s[t], r.color)]]
        BY <2>1, ExecutedTri
    <2> DEFINE q == r.tris \o [t \in DOMAIN s |-> Triangle(r.loaded, s[t], r.color)]
    <2> HIDE DEF q
    <2>3. Executed(r, command) = [loaded |-> r.loaded, color |-> r.color, lines |-> r.lines, tris |-> q]
        BY <2>2 DEF q
    <2> QED BY <2>3 DEF IsRcp
<1>4. CASE command \in LineCommands
    <2>1. PICK i \in Nat, j \in Nat : command = <<"line", i, j>>
        BY <1>4 DEF LineCommands
    <2> DEFINE q == r.lines \cup {{r.loaded[i + 1], r.loaded[j + 1]}}
    <2>2. Executed(r, command) = [loaded |-> r.loaded, color |-> r.color, tris |-> r.tris, lines |-> q]
        BY <2>1, ExecutedLine
    <2> HIDE DEF q
    <2> QED BY <2>2 DEF IsRcp
<1> QED BY <1>1, <1>2, <1>3, <1>4 DEF Commands

(* The states of the RCP between the first n commands of a list. *)
RcpRun(f, list, n) == f = [k \in 0..n |-> IF k = 0 THEN Blank ELSE Executed(f[k - 1], list[k])]

(* There is a run of every list.                                         *)
LEMMA RunFrom ==
    ASSUME NEW n \in Nat, NEW list
    PROVE  \E f : RcpRun(f, list, n)
<1> DEFINE B == {k \in 0..n : \E f : RcpRun(f, list, k)}
<1>1. 0 \in B
    <2> DEFINE f == [k \in 0..0 |-> Blank]
    <2>1. \A k \in 0..0 : f[k] = IF k = 0 THEN Blank ELSE Executed(f[k - 1], list[k])
        OBVIOUS
    <2>2. f = [k \in 0..0 |-> f[k]]
        OBVIOUS
    <2> HIDE DEF f
    <2>3. RcpRun(f, list, 0)
        BY <2>1, <2>2 DEF RcpRun
    <2> QED BY <2>3
<1>2. ASSUME NEW k \in 1..n, k - 1 \in B PROVE k \in B
    <2>1. PICK f : RcpRun(f, list, k - 1)
        BY <1>2
    <2>2. \A j \in 0..(k - 1) : f[j] = IF j = 0 THEN Blank ELSE Executed(f[j - 1], list[j])
        BY <2>1 DEF RcpRun
    <2> DEFINE g == [j \in 0..k |-> IF j = k THEN Executed(f[k - 1], list[k]) ELSE f[j]]
    <2>3. \A j \in 0..k : (j # k => j \in 0..(k - 1)) /\ (j # 0 => j - 1 \in 0..k /\ j - 1 # k)
        OBVIOUS
    <2>4. k # 0 /\ k \in 0..n
        OBVIOUS
    <2>5. \A j \in 0..k : g[j] = IF j = 0 THEN Blank ELSE Executed(g[j - 1], list[j])
        <3> SUFFICES ASSUME NEW j \in 0..k PROVE g[j] = IF j = 0 THEN Blank ELSE Executed(g[j - 1], list[j])
            OBVIOUS
        <3>1. CASE j = k
            BY <2>3, <2>4, <3>1
        <3>2. CASE j # k
            BY <2>2, <2>3, <3>2
        <3> QED BY <3>1, <3>2
    <2>6. g = [j \in 0..k |-> g[j]]
        OBVIOUS
    <2> HIDE DEF g
    <2>7. RcpRun(g, list, k)
        BY <2>5, <2>6 DEF RcpRun
    <2> QED BY <2>4, <2>7
<1> HIDE DEF B
<1>3. \A k \in (0 + 1)..n : k - 1 \in B => k \in B
    BY <1>2
<1>4. n \in 0..n
    OBVIOUS
<1> QED BY <1>1, <1>3, <1>4, EveryPlace DEF B

(* A list shows what its run ends in, and there is no other run. *)
LEMMA ShownByRun ==
    ASSUME NEW list \in Seq(Commands)
    PROVE  /\ \E f : RcpRun(f, list, Len(list))
           /\ \A f : RcpRun(f, list, Len(list)) => Shown(list) = f[Len(list)]
<1> DEFINE n == Len(list)
           R(f) == f = [k \in 0..n |-> IF k = 0 THEN Blank ELSE Executed(f[k - 1], list[k])]
           after == CHOOSE f : R(f)
<1>1. n \in Nat
    BY LenProperties
<1>2. Shown(list) = after[n]
    BY DEF Shown, Blank
<1> HIDE DEF n
<1>3. PICK g : RcpRun(g, list, n)
    BY <1>1, RunFrom
<1>4. \A f : R(f) <=> RcpRun(f, list, n)
    BY DEF RcpRun
<1> HIDE DEF R
<1>5. R(after)
    BY <1>3, <1>4
<1>6. RcpRun(after, list, n)
    BY <1>4, <1>5
<1> HIDE DEF after
<1>7. ASSUME NEW f, RcpRun(f, list, n) PROVE after[n] = f[n]
    <2> DEFINE B == {k \in 0..n : after[k] = f[k]}
    <2>1. /\ \A k \in 0..n : after[k] = IF k = 0 THEN Blank ELSE Executed(after[k - 1], list[k])
          /\ \A k \in 0..n : f[k] = IF k = 0 THEN Blank ELSE Executed(f[k - 1], list[k])
          /\ 0 \in 0..n /\ n \in 0..n
        BY <1>1, <1>6, <1>7 DEF RcpRun
    <2>2. 0 \in B
        BY <2>1
    <2>3. ASSUME NEW k \in 1..n, k - 1 \in B PROVE k \in B
        <3>1. k \in 0..n /\ k # 0
            BY <1>1
        <3> QED BY <2>1, <2>3, <3>1
    <2> HIDE DEF B
    <2>4. \A k \in (0 + 1)..n : k - 1 \in B => k \in B
        BY <2>3
    <2> QED BY <1>1, <2>1, <2>2, <2>4, EveryPlace DEF B
<1> QED BY <1>2, <1>3, <1>7 DEF n

IsRun(f, list, n) ==
    /\ f[0] = Blank
    /\ \A k \in 1..n : f[k] = Executed(f[k - 1], list[k])
    /\ \A k \in 0..n : IsRcp(f[k])
    /\ Shown(list) = f[n]

(* A list of commands has a run, of states of the RCP.                   *)
LEMMA RunsTyped ==
    ASSUME NEW list \in Seq(Commands), NEW n, n = Len(list)
    PROVE  \E f : IsRun(f, list, n)
<1>1. n \in Nat /\ \A k \in 1..n : list[k] \in Commands
    BY LenProperties, ElementOfSeq
<1>2. PICK f : RcpRun(f, list, n) /\ Shown(list) = f[n]
    BY ShownByRun
<1>3. \A k \in 0..n : f[k] = IF k = 0 THEN Blank ELSE Executed(f[k - 1], list[k])
    BY <1>2 DEF RcpRun
<1>4. \A k \in 1..n : k \in 0..n /\ k # 0
    BY <1>1
<1>5. 0 \in 0..n
    BY <1>1
<1>6. \A k \in 1..n : f[k] = Executed(f[k - 1], list[k])
    BY <1>3, <1>4
<1> DEFINE B == {k \in 0..n : IsRcp(f[k])}
<1>7. 0 \in B
    BY <1>3, <1>5 DEF IsRcp, Blank
<1>8. ASSUME NEW k \in 1..n, k - 1 \in B PROVE k \in B
    BY <1>1, <1>4, <1>6, <1>8, ExecutedRcp
<1> HIDE DEF B
<1>9. \A k \in (0 + 1)..n : k - 1 \in B => k \in B
    BY <1>8
<1>10. \A k \in 0..n : k \in B
    BY <1>1, <1>7, <1>9, EveryPlace
<1> QED BY <1>2, <1>3, <1>5, <1>6, <1>10 DEF B, IsRun

(* What a longer list shows is what its last command makes of the rest.  *)
LEMMA ShownOfAppend ==
    ASSUME NEW list \in Seq(Commands), NEW command \in Commands
    PROVE  Shown(Append(list, command)) = Executed(Shown(list), command) /\ IsRcp(Shown(list))
<1> DEFINE n == Len(list)
           longer == Append(list, command)
<1>1. /\ n \in Nat /\ longer \in Seq(Commands) /\ Len(longer) = n + 1
      /\ longer[n + 1] = command /\ \A k \in 1..n : longer[k] = list[k]
    BY AppendProperties, LenProperties
<1> HIDE DEF n, longer
<1>2. PICK g : IsRun(g, longer, n + 1)
    BY <1>1, RunsTyped
<1>3. PICK f : IsRun(f, list, n)
    BY RunsTyped DEF n
<1> DEFINE B == {k \in 0..n : f[k] = g[k]}
<1>4. 0 \in B
    BY <1>1, <1>2, <1>3 DEF IsRun
<1>5. ASSUME NEW k \in 1..n, k - 1 \in B PROVE k \in B
    <2>1. k \in 1..(n + 1) /\ k \in 0..n
        BY <1>1
    <2> QED BY <1>1, <1>2, <1>3, <1>5, <2>1 DEF IsRun
<1> HIDE DEF B
<1>6. \A k \in (0 + 1)..n : k - 1 \in B => k \in B
    BY <1>5
<1>7. n \in 0..n /\ n + 1 \in 1..(n + 1) /\ (n + 1) - 1 = n
    BY <1>1
<1>8. n \in B
    BY <1>1, <1>4, <1>6, <1>7, EveryPlace
<1>9. Shown(longer) = Executed(g[n], command)
    BY <1>1, <1>2, <1>7 DEF IsRun
<1>10. Shown(list) = g[n] /\ IsRcp(f[n])
    BY <1>3, <1>7, <1>8 DEF B, IsRun
<1> QED BY <1>3, <1>9, <1>10 DEF longer, IsRun

Loading(r, v) == [loaded |-> v, color |-> r.color, tris |-> r.tris, lines |-> r.lines]

(* A triangle of vertices that were there before more are loaded. *)
LEMMA TriangleStays ==
    ASSUME NEW v \in Seq(Vertices), NEW u \in Seq(Vertices), NEW i \in Nat, i + 3 <= Len(v), NEW color
    PROVE  Triangle(v \o u, i, color) = Triangle(v, i, color)
<1> DEFINE m == Len(v)
           n == Len(u)
           w == v \o u
<1>1. /\ m \in Nat /\ n \in Nat /\ w \in Seq(Vertices) /\ Len(w) = m + n
      /\ \A k \in 1..m : w[k] = v[k]
    <2>1. \A k \in 1..m : k \in 1..(m + n) /\ k <= m
        BY LenProperties
    <2> QED BY <2>1, LenProperties, ConcatProperties
<1> HIDE DEF w
<1> DEFINE a == SubSeq(w, i + 1, i + 3)
           b == SubSeq(v, i + 1, i + 3)
<1>2. /\ i + 1 \in Int /\ i + 3 \in Int /\ i + 1 <= i + 3 /\ (i + 3) - (i + 1) + 1 = 3
      /\ \A k \in (i + 1)..(i + 3) : k \in 1..m
    BY <1>1
<1>2a. \A k \in (i + 1)..(i + 3) : v[k] \in Vertices /\ w[k] \in Vertices
    BY <1>1, <1>2, ElementOfSeq
<1>3. ASSUME NEW k \in 1..3 PROVE i + 1 + k - 1 \in 1..m
    BY <1>1
<1>4. a \in Seq(Vertices) /\ Len(a) = 3 /\ \A k \in 1..3 : a[k] = w[i + 1 + k - 1]
    BY <1>2, <1>2a, SubSeqProperties
<1>5. b \in Seq(Vertices) /\ Len(b) = 3 /\ \A k \in 1..3 : b[k] = v[i + 1 + k - 1]
    BY <1>2, <1>2a, SubSeqProperties
<1> HIDE DEF a, b
<1>6. \A k \in 1..3 : a[k] = b[k]
    BY <1>1, <1>3, <1>4, <1>5
<1>7. a = b
    BY <1>4, <1>5, <1>6, SeqEqual
<1> QED BY <1>7 DEF Triangle, a, b, w

(* What needs none of the vertices that are loaded in addition draws the   *)
(* same with them.                                                         *)
LEMMA ExecutedWithMore ==
    ASSUME NEW v \in Seq(Vertices), NEW u \in Seq(Vertices), NEW r, IsRcp(r), r.loaded = v,
           NEW command, NeedsOf(command, Len(v))
    PROVE  /\ Executed(r, command).loaded = v
           /\ Executed(Loading(r, v \o u), command) = Loading(Executed(r, command), v \o u)
<1> DEFINE w == v \o u
           q == Loading(r, w)
<1>1. IsRcp(q) /\ q.loaded = w /\ q.color = r.color /\ q.tris = r.tris /\ q.lines = r.lines
    BY DEF Loading, IsRcp
<1>2. \A i \in Nat : i + 3 <= Len(v) => Triangle(w, i, r.color) = Triangle(v, i, r.color)
    BY TriangleStays
<1>3. \A i \in Nat : i < Len(v) => w[i + 1] = v[i + 1]
    <2>1. Len(v) \in Nat /\ Len(u) \in Nat
        BY LenProperties
    <2>2. \A i \in Nat : i < Len(v) => i + 1 \in 1..(Len(v) + Len(u)) /\ i + 1 <= Len(v)
        BY <2>1
    <2> QED BY <2>2, ConcatProperties
<1> HIDE DEF w, q
<1>4. CASE command \in ColorCommands
    <2>1. PICK c : command = <<"color", c>>
        BY <1>4 DEF ColorCommands
    <2>2. Executed(r, command) = [loaded |-> r.loaded, color |-> c, tris |-> r.tris, lines |-> r.lines]
        BY <2>1, ExecutedColor
    <2>3. Executed(q, command) = [loaded |-> q.loaded, color |-> c, tris |-> q.tris, lines |-> q.lines]
        BY <1>1, <2>1, ExecutedColor
    <2> QED BY <1>1, <2>2, <2>3 DEF Loading, q, w
<1>5. ASSUME NEW i \in Nat, i + 3 <= Len(v), command = <<"tri", <<i>>>>
      PROVE  Executed(r, command).loaded = v /\ Executed(q, command) = Loading(Executed(r, command), w)
    <2>1. Executed(r, command) = [loaded |-> r.loaded, color |-> r.color, lines |-> r.lines,
                                  tris |-> r.tris \o <<Triangle(v, i, r.color)>>]
        BY <1>5, ExecutedTris
    <2>2. Executed(q, command) = [loaded |-> q.loaded, color |-> q.color, lines |-> q.lines,
                                  tris |-> q.tris \o <<Triangle(w, i, q.color)>>]
        BY <1>1, <1>5, ExecutedTris
    <2> DEFINE triangles == r.tris \o <<Triangle(v, i, r.color)>>
    <2>3. Executed(r, command) = [loaded |-> r.loaded, color |-> r.color, lines |-> r.lines, tris |-> triangles]
        BY <2>1
    <2>4. Executed(q, command) = [loaded |-> w, color |-> r.color, lines |-> r.lines, tris |-> triangles]
        BY <1>1, <1>2, <1>5, <2>2
    <2> HIDE DEF triangles
    <2>5. Executed(r, command).loaded = v
        BY <2>3
    <2> QED BY <2>3, <2>4, <2>5 DEF Loading
<1>6. ASSUME NEW i \in Nat, i + 6 <= Len(v), command = <<"tri", <<i, i + 3>>>>
      PROVE  Executed(r, command).loaded = v /\ Executed(q, command) = Loading(Executed(r, command), w)
    <2>1. Executed(r, command) = [loaded |-> r.loaded, color |-> r.color, lines |-> r.lines,
                                  tris |-> r.tris \o <<Triangle(v, i, r.color), Triangle(v, i + 3, r.color)>>]
        BY <1>6, ExecutedTris
    <2>2. Executed(q, command) = [loaded |-> q.loaded, color |-> q.color, lines |-> q.lines,
                                  tris |-> q.tris \o <<Triangle(w, i, q.color), Triangle(w, i + 3, q.color)>>]
        BY <1>1, <1>6, ExecutedTris
    <2>3. i + 3 <= Len(v) /\ i + 3 \in Nat /\ (i + 3) + 3 <= Len(v)
        BY <1>6, LenProperties
    <2>4. Triangle(w, i, r.color) = Triangle(v, i, r.color) /\ Triangle(w, i + 3, r.color) = Triangle(v, i + 3, r.color)
        BY <1>2, <2>3
    <2> DEFINE triangles == r.tris \o <<Triangle(v, i, r.color), Triangle(v, i + 3, r.color)>>
    <2>5. Executed(r, command) = [loaded |-> r.loaded, color |-> r.color, lines |-> r.lines, tris |-> triangles]
        BY <2>1
    <2>6. Executed(q, command) = [loaded |-> w, color |-> r.color, lines |-> r.lines, tris |-> triangles]
        BY <1>1, <2>2, <2>4
    <2> HIDE DEF triangles
    <2>7. Executed(r, command).loaded = v
        BY <2>5
    <2> QED BY <2>5, <2>6, <2>7 DEF Loading
<1>7. ASSUME NEW i \in Nat, NEW j \in Nat, i < Len(v), j < Len(v), command = <<"line", i, j>>
      PROVE  Executed(r, command).loaded = v /\ Executed(q, command) = Loading(Executed(r, command), w)
    <2>1. Executed(r, command) = [loaded |-> r.loaded, color |-> r.color, tris |-> r.tris,
                                  lines |-> r.lines \cup {{v[i + 1], v[j + 1]}}]
        BY <1>7, ExecutedLine
    <2>2. Executed(q, command) = [loaded |-> q.loaded, color |-> q.color, tris |-> q.tris,
                                  lines |-> q.lines \cup {{w[i + 1], w[j + 1]}}]
        BY <1>1, <1>7, ExecutedLine
    <2>3. w[i + 1] = v[i + 1] /\ w[j + 1] = v[j + 1]
        BY <1>3, <1>7
    <2> QED BY <1>1, <2>1, <2>2, <2>3 DEF Loading
<1> QED BY <1>4, <1>5, <1>6, <1>7 DEF NeedsOf, q, w

(* The last vertices are loaded at c. *)
LoadedAt(list, c, v) ==
    /\ list \in Seq(Commands) /\ c \in 1..Len(list) /\ list[c] = <<"vtx", v>>
    /\ \A k \in (c + 1)..Len(list) : NeedsOf(list[k], Len(v))

(* A list whose last load has more vertices draws what it drew.          *)
LEMMA ShownWithMore ==
    ASSUME NEW v \in Seq(Vertices), NEW u \in Seq(Vertices), NEW list, NEW c, LoadedAt(list, c, v)
    PROVE  /\ Shown(list).loaded = v /\ IsRcp(Shown(list))
           /\ Shown([list EXCEPT ![c] = <<"vtx", v \o u>>]) = Loading(Shown(list), v \o u)
           /\ [list EXCEPT ![c] = <<"vtx", v \o u>>] \in Seq(Commands)
<1> DEFINE n == Len(list)
           w == v \o u
           more == [list EXCEPT ![c] = <<"vtx", w>>]
<1>1. n \in Nat /\ c \in 1..n /\ w \in Seq(Vertices) /\ DOMAIN list = 1..n /\ list \in Seq(Commands)
      /\ \A k \in 1..n : list[k] \in Commands
    BY LenProperties, ElementOfSeq, ConcatProperties DEF LoadedAt
<1> HIDE DEF w
<1>2. <<"vtx", w>> \in Commands
    BY <1>1 DEF Commands, VtxCommands
<1>3. /\ more \in Seq(Commands) /\ Len(more) = n
      /\ \A k \in 1..n : more[k] = IF k = c THEN <<"vtx", w>> ELSE list[k]
    BY <1>1, <1>2, ExceptSeq
<1> HIDE DEF more
<1>4. PICK f : IsRun(f, list, n)
    BY <1>1, RunsTyped
<1>5. PICK g : IsRun(g, more, n)
    BY <1>3, RunsTyped
<1> HIDE DEF n
<1>6. f[c - 1] = g[c - 1]
    <2> DEFINE m == c - 1
               B == {k \in 0..m : f[k] = g[k]}
    <2>1. m \in Nat /\ \A k \in 1..m : k \in 1..n /\ k # c /\ k \in 0..m
        BY <1>1
    <2>2. 0 \in B
        BY <1>4, <1>5, <2>1 DEF IsRun
    <2>3. ASSUME NEW k \in 1..m, k - 1 \in B PROVE k \in B
        BY <1>3, <1>4, <1>5, <2>1, <2>3 DEF IsRun
    <2> HIDE DEF B, m
    <2>4. \A k \in (0 + 1)..m : k - 1 \in B => k \in B
        BY <2>3
    <2>5. m \in 0..m
        BY <2>1
    <2>6. m \in B
        BY <2>1, <2>2, <2>4, <2>5, EveryPlace
    <2> QED BY <2>6 DEF B, m
<1> DEFINE B == {k \in c..n : f[k].loaded = v /\ g[k] = Loading(f[k], w)}
<1>7. c \in B
    <2>1. c \in 1..n /\ c - 1 \in 0..n /\ c \in c..n
        BY <1>1
    <2>2. f[c] = Executed(f[c - 1], <<"vtx", v>>) /\ g[c] = Executed(f[c - 1], <<"vtx", w>>) /\ IsRcp(f[c - 1])
        BY <1>3, <1>4, <1>5, <1>6, <2>1 DEF IsRun, LoadedAt
    <2> DEFINE r == f[c - 1]
    <2>3. IsRcp(r) /\ f[c] = Executed(r, <<"vtx", v>>) /\ g[c] = Executed(r, <<"vtx", w>>)
        BY <2>2
    <2> HIDE DEF r, B
    <2>4. f[c] = Loading(r, v) /\ g[c] = Loading(r, w)
        BY <2>3, ExecutedVtx DEF Loading
    <2>5. f[c].loaded = v /\ g[c] = Loading(f[c], w)
        BY <2>4 DEF Loading
    <2> QED BY <2>1, <2>5 DEF B
<1>8. ASSUME NEW k \in (c + 1)..n, k - 1 \in B PROVE k \in B
    <2>1. k \in 1..n /\ k # c /\ k \in c..n /\ k - 1 \in 0..n
        BY <1>1
    <2>2. NeedsOf(list[k], Len(v))
        BY DEF LoadedAt, n
    <2>3. f[k - 1].loaded = v /\ g[k - 1] = Loading(f[k - 1], w) /\ IsRcp(f[k - 1])
        BY <1>4, <1>8, <2>1 DEF IsRun
    <2>4. f[k] = Executed(f[k - 1], list[k]) /\ g[k] = Executed(Loading(f[k - 1], w), list[k])
        BY <1>3, <1>4, <1>5, <2>1, <2>3 DEF IsRun
    <2> HIDE DEF B
    <2>5. f[k].loaded = v /\ g[k] = Loading(f[k], w)
        BY <2>2, <2>3, <2>4, ExecutedWithMore DEF w
    <2> QED BY <2>1, <2>5 DEF B
<1> HIDE DEF B
<1>9. c \in Nat /\ n \in c..n /\ n \in 0..n
    BY <1>1
<1>10. n \in B
    BY <1>1, <1>7, <1>8, <1>9, EveryPlace
<1> QED BY <1>3, <1>4, <1>5, <1>9, <1>10 DEF B, IsRun, more, w

(* ... and has those vertices loaded,                                    *)
LEMMA LoadedWithMore ==
    ASSUME NEW v \in Seq(Vertices), NEW u \in Seq(Vertices), NEW list, NEW c, LoadedAt(list, c, v)
    PROVE  LoadedAt([list EXCEPT ![c] = <<"vtx", v \o u>>], c, v \o u)
<1> DEFINE n == Len(list)
           w == v \o u
           more == [list EXCEPT ![c] = <<"vtx", w>>]
<1>1. /\ n \in Nat /\ c \in 1..n /\ w \in Seq(Vertices) /\ list \in Seq(Commands)
      /\ Len(v) \in Nat /\ Len(w) \in Nat /\ Len(v) <= Len(w)
    BY LenProperties, ConcatProperties DEF LoadedAt
<1> HIDE DEF w
<1>2. <<"vtx", w>> \in Commands
    BY <1>1 DEF Commands, VtxCommands
<1>3. /\ more \in Seq(Commands) /\ Len(more) = n
      /\ \A k \in 1..n : more[k] = IF k = c THEN <<"vtx", w>> ELSE list[k]
    BY <1>1, <1>2, ExceptSeq
<1> HIDE DEF more
<1>4. ASSUME NEW k \in (c + 1)..n PROVE NeedsOf(more[k], Len(w))
    <2>1. k \in 1..n /\ k # c
        BY <1>1
    <2>2. more[k] = list[k] /\ NeedsOf(list[k], Len(v))
        BY <1>3, <2>1 DEF LoadedAt, n
    <2> DEFINE command == list[k]
               m == Len(v)
    <2>3. NeedsOf(command, m) => NeedsOf(command, Len(w))
        <3>1. /\ \A i \in Nat : i + 3 <= m => i + 3 <= Len(w)
              /\ \A i \in Nat : i + 6 <= m => i + 6 <= Len(w)
              /\ \A i \in Nat : i < m => i < Len(w)
            BY <1>1
        <3> HIDE DEF command, m
        <3> QED BY <3>1 DEF NeedsOf
    <2> QED BY <2>2, <2>3
<1> QED BY <1>1, <1>3, <1>4 DEF LoadedAt, more, w, n

(* as it has after a command that needs no others.                       *)
LEMMA LoadedAndAppended ==
    ASSUME NEW v, NEW list, NEW c, LoadedAt(list, c, v), NEW command \in Commands, NeedsOf(command, Len(v))
    PROVE  LoadedAt(Append(list, command), c, v)
<1> DEFINE n == Len(list)
           longer == Append(list, command)
<1>1. /\ n \in Nat /\ longer \in Seq(Commands) /\ Len(longer) = n + 1
      /\ longer[n + 1] = command /\ \A k \in 1..n : longer[k] = list[k]
    BY AppendProperties, LenProperties DEF LoadedAt
<1> HIDE DEF longer
<1>2. c \in 1..n /\ list[c] = <<"vtx", v>> /\ \A k \in (c + 1)..n : NeedsOf(list[k], Len(v))
    BY DEF LoadedAt
<1> HIDE DEF n
<1>3. ASSUME NEW k \in (c + 1)..(n + 1) PROVE NeedsOf(longer[k], Len(v))
    <2>1. k = n + 1 \/ (k \in (c + 1)..n /\ k \in 1..n)
        BY <1>1, <1>2
    <2> QED BY <1>1, <1>2, <2>1
<1>4. c \in 1..(n + 1)
    BY <1>1, <1>2
<1> QED BY <1>1, <1>2, <1>3, <1>4 DEF LoadedAt, longer

Corners(poly) == [k \in 1..3 |-> <<poly, k>>]

(* A polygon has three corners.                                          *)
LEMMA CornersOfPoly ==
    ASSUME NEW poly \in Nat
    PROVE  /\ Corners(poly) \in Seq(Vertices) /\ Len(Corners(poly)) = 3
           /\ \A k \in 1..3 : Corners(poly)[k] = <<poly, k>>
<1> DEFINE u == Corners(poly)
           m == 3
<1>1. u = [k \in 1..m |-> u[k]] /\ \A k \in 1..m : u[k] = <<poly, k>> /\ u[k] \in Vertices
    BY DEF Corners, Vertices
<1>2. m \in Nat
    OBVIOUS
<1> HIDE DEF u, m
<1>3. u \in Seq(Vertices) /\ Len(u) = m
    BY <1>1, <1>2, IsASeq
<1> QED BY <1>1, <1>3 DEF u, m

(* The places of three more vertices.                                    *)
LEMMA ThreeMore ==
    ASSUME NEW v \in Seq(Vertices), NEW u \in Seq(Vertices), Len(u) = 3
    PROVE  /\ v \o u \in Seq(Vertices) /\ Len(v) \in Nat /\ Len(v \o u) = Len(v) + 3
           /\ \A k \in 1..3 : (v \o u)[Len(v) + k] = u[k]
<1>1. Len(v) \in Nat /\ \A k \in 1..3 : Len(v) + k \in 1..(Len(v) + 3) /\ ~(Len(v) + k <= Len(v)) /\ (Len(v) + k) - Len(v) = k
    BY LenProperties
<1> DEFINE w == v \o u
           m == Len(v)
<1>2. /\ w \in Seq(Vertices) /\ Len(w) = m + Len(u)
      /\ \A i \in 1..(m + Len(u)) : w[i] = IF i <= m THEN v[i] ELSE u[i - m]
    BY ConcatProperties
<1> HIDE DEF w, m
<1>3. Len(w) = m + 3 /\ \A i \in 1..(m + 3) : w[i] = IF i <= m THEN v[i] ELSE u[i - m]
    BY <1>2
<1>4. m \in Nat /\ \A k \in 1..3 : m + k \in 1..(m + 3) /\ ~(m + k <= m) /\ (m + k) - m = k
    BY <1>1 DEF m
<1>5. \A k \in 1..3 : w[m + k] = u[k]
    BY <1>3, <1>4
<1> QED BY <1>2, <1>3, <1>4, <1>5 DEF w, m

(* A triangle of the last three vertices. *)
LEMMA LastTriangle ==
    ASSUME NEW v \in Seq(Vertices), NEW poly \in Nat, NEW color
    PROVE  Triangle(v \o Corners(poly), Len(v), color) = <<Corners(poly), color>>
<1> DEFINE m == Len(v)
           u == Corners(poly)
           w == v \o u
<1>1. /\ m \in Nat /\ u \in Seq(Vertices) /\ Len(u) = 3 /\ w \in Seq(Vertices) /\ Len(w) = m + 3
      /\ \A k \in 1..3 : w[m + k] = u[k]
    <2>1. u \in Seq(Vertices) /\ Len(u) = 3
        BY CornersOfPoly
    <2> HIDE DEF u
    <2> QED BY <2>1, ThreeMore
<1> HIDE DEF w, u
<1> DEFINE a == SubSeq(w, m + 1, m + 3)
<1>2. /\ m + 1 \in Int /\ m + 3 \in Int /\ m + 1 <= m + 3 /\ (m + 3) - (m + 1) + 1 = 3
      /\ \A k \in (m + 1)..(m + 3) : k \in 1..(m + 3)
      /\ \A k \in 1..3 : m + 1 + k - 1 = m + k
    BY <1>1
<1>3. \A k \in (m + 1)..(m + 3) : w[k] \in Vertices
    BY <1>1, <1>2, ElementOfSeq
<1>4. a \in Seq(Vertices) /\ Len(a) = 3 /\ \A k \in 1..3 : a[k] = w[m + k]
    BY <1>2, <1>3, SubSeqProperties
<1> HIDE DEF a
<1>5. a = u
    BY <1>1, <1>4, SeqEqual
<1> QED BY <1>5 DEF Triangle, a, w, u

(* A triangle in its colour at the end of the list: the colour is set when *)
(* it is another one.                                                      *)
Coloured(list, old, color) == IF old # color THEN Append(list, <<"color", color>>) ELSE list

Draws(list, tris, color) == Shown(list).tris = tris /\ Shown(list).color = color

(* A list with one more triangle, in its colour, draws one more.         *)
LEMMA TriangleAppended ==
    ASSUME NEW v \in Seq(Vertices), NEW poly \in Nat, NEW color \in PolyColors,
           NEW list, NEW c, NEW w, w = v \o Corners(poly), LoadedAt(list, c, w),
           Shown(list).loaded = w, NEW old, NEW tris, Draws(list, tris, old),
           NEW longer, longer = Append(Coloured(list, old, color), <<"tri", <<Len(v)>>>>)
    PROVE  LoadedAt(longer, c, w) /\ Draws(longer, tris \o <<<<Corners(poly), color>>>>, color)
<1> DEFINE m == Len(v)
           middle == Coloured(list, old, color)
           tri == <<"tri", <<m>>>>
<1>0. longer = Append(middle, tri) /\ Shown(list).color = old /\ Shown(list).tris = tris
    BY DEF Draws
<1>1. m \in Nat /\ w \in Seq(Vertices) /\ Len(w) = m + 3 /\ m + 3 <= Len(w) /\ list \in Seq(Commands)
    <2>1. m \in Nat /\ w \in Seq(Vertices) /\ Len(w) = m + 3
        BY CornersOfPoly, ThreeMore
    <2> QED BY <2>1 DEF LoadedAt
<1>2. Triangle(w, m, color) = <<Corners(poly), color>>
    BY LastTriangle
<1>3. /\ <<"color", color>> \in ColorCommands /\ <<"color", color>> \in Commands
      /\ <<"tri", <<m>>>> \in Commands
    BY <1>1 DEF ColorCommands, TriCommands, Commands
<1>4. NeedsOf(<<"color", color>>, Len(w)) /\ NeedsOf(tri, Len(w))
    BY <1>1, <1>3 DEF NeedsOf
<1> HIDE DEF m
<1>5. LoadedAt(middle, c, w)
    BY <1>3, <1>4, LoadedAndAppended DEF Coloured
<1>6. /\ Shown(middle).loaded = w /\ Shown(middle).color = color /\ Shown(middle).tris = tris
    <2>1. CASE old # color
        <3>1. Shown(Append(list, <<"color", color>>)) = Executed(Shown(list), <<"color", color>>) /\ IsRcp(Shown(list))
            BY <1>1, <1>3, ShownOfAppend
        <3>2. Executed(Shown(list), <<"color", color>>)
                = [loaded |-> Shown(list).loaded, color |-> color, tris |-> Shown(list).tris, lines |-> Shown(list).lines]
            BY <3>1, ExecutedColor
        <3>3. middle = Append(list, <<"color", color>>)
            BY <2>1 DEF Coloured
        <3> DEFINE r == Shown(list)
        <3>4. Shown(middle) = [loaded |-> r.loaded, color |-> color, tris |-> r.tris, lines |-> r.lines]
            BY <3>1, <3>2, <3>3
        <3>5. r.loaded = w /\ r.tris = tris
            BY <1>0
        <3> HIDE DEF r, middle
        <3> QED BY <3>4, <3>5
    <2>2. CASE old = color
        <3>1. middle = list
            BY <2>2 DEF Coloured
        <3> QED BY <1>0, <2>2, <3>1
    <2> QED BY <2>1, <2>2
<1> HIDE DEF middle, tri
<1>7. LoadedAt(longer, c, w)
    BY <1>0, <1>3, <1>4, <1>5, LoadedAndAppended DEF tri
<1>8. Shown(longer) = Executed(Shown(middle), tri) /\ IsRcp(Shown(middle))
    <2>1. middle \in Seq(Commands)
        BY <1>5 DEF LoadedAt
    <2> QED BY <1>0, <1>3, <2>1, ShownOfAppend DEF tri
<1> DEFINE r == Shown(middle)
<1>9. Executed(r, tri) = [loaded |-> r.loaded, color |-> r.color, lines |-> r.lines,
                          tris |-> r.tris \o <<Triangle(r.loaded, m, r.color)>>]
    <2> HIDE DEF r
    <2> QED BY <1>8, ExecutedTris DEF r, tri
<1>10. Shown(longer).color = color /\ Shown(longer).tris = tris \o <<<<Corners(poly), color>>>>
    <2> DEFINE more == r.tris \o <<Triangle(r.loaded, m, r.color)>>
               e == Executed(r, tri)
    <2>1. more = tris \o <<<<Corners(poly), color>>>>
        BY <1>2, <1>6
    <2>2. e = [loaded |-> r.loaded, color |-> r.color, lines |-> r.lines, tris |-> more]
        BY <1>9
    <2>3. Shown(longer) = e /\ r.color = color
        BY <1>6, <1>8
    <2> HIDE DEF more, e, r
    <2>4. Shown(longer).color = color /\ Shown(longer).tris = more
        BY <2>2, <2>3
    <2> QED BY <2>1, <2>4
<1> QED BY <1>7, <1>10 DEF Draws

PolyWriters == [p : Seq(Commands), d : Nat, v : Seq(Vertices), vtx_cmd : Nat, tri_cmd : Nat, prev_color : PolyColors]

(* The list as it will be when what was left room for is filled in. *)
SettledPoly(p, v, vtx_cmd, tri_cmd) ==
    LET loaded == IF vtx_cmd # 0 THEN [p EXCEPT ![vtx_cmd] = <<"vtx", v>>] ELSE p
    IN IF Len(v) % 6 # 0 THEN [loaded EXCEPT ![tri_cmd] = <<"tri", <<Len(v) - 3>>>>] ELSE loaded
Settled(w) == SettledPoly(w.p, w.v, w.vtx_cmd, w.tri_cmd)

(* poly_writer_flush leaves the settled list, and an empty batch.        *)
LEMMA FlushSettles ==
    ASSUME NEW w \in PolyWriters
    PROVE  poly_writer_flush(w) =
              [p |-> Settled(w), d |-> IF w.vtx_cmd # 0 THEN w.d + 2 * Len(w.v) ELSE w.d,
               v |-> <<>>, vtx_cmd |-> 0, tri_cmd |-> 0, prev_color |-> w.prev_color]
<1> DEFINE loaded == IF w.vtx_cmd # 0 THEN Loaded(w) ELSE w
           full == IF w.vtx_cmd # 0 THEN [w.p EXCEPT ![w.vtx_cmd] = <<"vtx", w.v>>] ELSE w.p
           d == IF w.vtx_cmd # 0 THEN w.d + 2 * Len(w.v) ELSE w.d
           n == Len(w.v)
           one == <<"tri", <<n - 3>>>>
           mended == IF n % 6 # 0 THEN At(loaded, w.tri_cmd, one) ELSE loaded
           list == IF n % 6 # 0 THEN [full EXCEPT ![w.tri_cmd] = one] ELSE full
<1>1. w = [p |-> w.p, d |-> w.d, v |-> w.v, vtx_cmd |-> w.vtx_cmd, tri_cmd |-> w.tri_cmd, prev_color |-> w.prev_color]
    BY DEF PolyWriters
<1>2. loaded = [p |-> full, d |-> d, v |-> w.v, vtx_cmd |-> 0, tri_cmd |-> w.tri_cmd, prev_color |-> w.prev_color]
    <2>1. CASE w.vtx_cmd # 0
        <3> DEFINE list1 == [w.p EXCEPT ![w.vtx_cmd] = <<"vtx", w.v>>]
                   d1 == w.d + 2 * Len(w.v)
        <3>1. Loaded(w) = [[w EXCEPT !.p = list1] EXCEPT !.d = d1, !.vtx_cmd = 0]
            BY <1>1 DEF Loaded, At
        <3>2. full = list1 /\ d = d1
            BY <2>1
        <3> HIDE DEF list1, d1
        <3>3. Loaded(w) = [p |-> list1, d |-> d1, v |-> w.v, vtx_cmd |-> 0, tri_cmd |-> w.tri_cmd, prev_color |-> w.prev_color]
            BY <1>1, <3>1
        <3> QED BY <2>1, <3>2, <3>3
    <2>2. CASE w.vtx_cmd = 0
        BY <1>1, <2>2
    <2> QED BY <2>1, <2>2
<1> HIDE DEF loaded, full, d, one, n
<1>3. mended = [p |-> list, d |-> d, v |-> w.v, vtx_cmd |-> 0, tri_cmd |-> w.tri_cmd, prev_color |-> w.prev_color]
    BY <1>2 DEF At
<1>4. poly_writer_flush(w) = [mended EXCEPT !.tri_cmd = 0, !.v = <<>>]
    BY DEF poly_writer_flush, mended, loaded, one, n
<1>5. Settled(w) = list
    BY DEF Settled, SettledPoly, full, one, n
<1> HIDE DEF list, mended
<1>6. poly_writer_flush(w) = [p |-> list, d |-> d, v |-> <<>>, vtx_cmd |-> 0, tri_cmd |-> 0, prev_color |-> w.prev_color]
    BY <1>3, <1>4
<1> QED BY <1>5, <1>6 DEF d

(* A writer in a batch: its vertices are loaded at vtx_cmd, and while a    *)
(* command for two triangles has only one it is the last.                  *)
PolyOpen(w, tris) ==
    /\ w \in PolyWriters
    /\ LoadedAt(Settled(w), w.vtx_cmd, w.v)
    /\ w.vtx_cmd \in 1..Len(w.p) /\ Len(Settled(w)) = Len(w.p)
    /\ Draws(Settled(w), tris, w.prev_color)
    /\ Len(w.v) % 6 \in {0, 3}
    /\ Len(w.v) % 6 = 3 => /\ w.tri_cmd = Len(w.p) /\ w.vtx_cmd < w.tri_cmd
                           /\ w.p[w.tri_cmd] = <<"tri", <<Len(w.v) - 3, Len(w.v)>>>>

PolyEmpty(w, tris) ==
    /\ w \in PolyWriters /\ w.v = <<>> /\ w.vtx_cmd = 0
    /\ Draws(w.p, tris, w.prev_color)

(* The load command that opens a batch draws nothing.                    *)
LEMMA PolyOpens ==
    ASSUME NEW tris, NEW w, PolyEmpty(w, tris)
    PROVE  PolyOpen(Opened(w), tris) /\ Opened(w).v = w.v /\ Opened(w).d = w.d /\ Len(Opened(w).p) = Len(w.p) + 1
           /\ Opened(w).prev_color = w.prev_color
<1> DEFINE m == Len(w.p)
           list == Append(w.p, <<"vtx", <<>>>>)
           o == Opened(w)
<1>1. w \in PolyWriters /\ w.v = <<>> /\ w.vtx_cmd = 0 /\ Draws(w.p, tris, w.prev_color)
    BY DEF PolyEmpty
<1>2. <<"vtx", <<>>>> \in Commands /\ <<>> \in Seq(Vertices)
    <2> DEFINE e == <<>>
    <2>1. e \in Seq(Vertices)
        BY EmptySeq
    <2> HIDE DEF e
    <2>2. <<"vtx", e>> \in Commands
        BY <2>1 DEF Commands, VtxCommands
    <2> QED BY <2>1, <2>2 DEF e
<1>3. /\ m \in Nat /\ list \in Seq(Commands) /\ Len(list) = m + 1 /\ list[m + 1] = <<"vtx", <<>>>>
      /\ w.p \in Seq(Commands)
    <2>1. w.p \in Seq(Commands)
        BY <1>1 DEF PolyWriters
    <2> QED BY <1>2, <2>1, AppendProperties, LenProperties
<1>4. Shown(list) = Executed(Shown(w.p), <<"vtx", <<>>>>) /\ IsRcp(Shown(w.p))
    BY <1>2, <1>3, ShownOfAppend
<1>5. Shown(list) = [loaded |-> <<>>, color |-> Shown(w.p).color, tris |-> Shown(w.p).tris, lines |-> Shown(w.p).lines]
    BY <1>4, ExecutedVtx
<1>6. o = [p |-> list, d |-> w.d, v |-> <<>>, vtx_cmd |-> m + 1, tri_cmd |-> w.tri_cmd, prev_color |-> w.prev_color]
    <2>1. w = [p |-> w.p, d |-> w.d, v |-> w.v, vtx_cmd |-> w.vtx_cmd, tri_cmd |-> w.tri_cmd, prev_color |-> w.prev_color]
        BY <1>1 DEF PolyWriters
    <2>2. o = [[w EXCEPT !.p = list] EXCEPT !.vtx_cmd = m + 1]
        BY <1>1, <2>1 DEF Opened, Emit
    <2> HIDE DEF o, list, m
    <2> QED BY <1>1, <2>1, <2>2
<1> HIDE DEF o, list, m
<1>7. o \in PolyWriters
    BY <1>1, <1>2, <1>3, <1>6 DEF PolyWriters
<1>8. Settled(o) = list
    <2>1. Settled(o) = SettledPoly(list, <<>>, m + 1, w.tri_cmd)
        BY <1>6 DEF Settled
    <2>2. Len(<<>>) % 6 = 0 /\ m + 1 # 0
        BY <1>3
    <2>3. Settled(o) = [list EXCEPT ![m + 1] = <<"vtx", <<>>>>]
        BY <2>1, <2>2 DEF SettledPoly
    <2>4. list = [k \in DOMAIN list |-> list[k]]
        BY <1>3
    <2> QED BY <1>3, <2>3, <2>4
<1>9. LoadedAt(list, m + 1, <<>>)
    <2>1. m + 1 \in 1..(m + 1) /\ (m + 1 + 1)..(m + 1) = {}
        BY <1>3
    <2> QED BY <1>3, <2>1 DEF LoadedAt
<1>10. Draws(list, tris, w.prev_color)
    BY <1>1, <1>5 DEF Draws
<1>11. m + 1 \in 1..(m + 1) /\ Len(<<>>) % 6 = 0
    BY <1>3
<1>12. PolyOpen(o, tris)
    BY <1>3, <1>6, <1>7, <1>8, <1>9, <1>10, <1>11 DEF PolyOpen
<1> QED BY <1>1, <1>3, <1>6, <1>12 DEF o, m

(* What an open writer is before it is looked whether the batch is full. *)
InColor(o, color) == IF o.prev_color # color THEN Recoloured(o, color) ELSE o
DrawnIn(o, color) ==
    IF Len(o.v) % 6 # 0 THEN InColor(o, color)
    ELSE [Emit(InColor(o, color), <<"tri", <<Len(o.v), Len(o.v) + 3>>>>) EXCEPT !.tri_cmd = Len(InColor(o, color).p) + 1]
Filled(o, poly, color) == [DrawnIn(o, color) EXCEPT !.v = @ \o Corners(poly)]

(* poly_writer_append fills the batch, and flushes a full one.           *)
LEMMA AppendIsFilled ==
    ASSUME NEW w, NEW poly, NEW color, Opened(w).v = w.v, Opened(w).prev_color = w.prev_color
    PROVE  poly_writer_append(w, poly, color) =
              LET filled == Filled(Opened(w), poly, color)
              IN IF Len(filled.v) = POLY_VTX THEN poly_writer_flush(filled) ELSE filled
<1> DEFINE pos   == Len(w.v)
           o     == Opened(w)
           right == IF w.prev_color # color THEN Recoloured(o, color) ELSE o
           triangles == IF pos % 6 # 0 THEN right
                    ELSE [Emit(right, <<"tri", <<pos, pos + 3>>>>) EXCEPT !.tri_cmd = Len(right.p) + 1]
           filled == [triangles EXCEPT !.v = @ \o [k \in 1..3 |-> <<poly, k>>]]
<1>1. poly_writer_append(w, poly, color) = IF Len(filled.v) = POLY_VTX THEN poly_writer_flush(filled) ELSE filled
    BY DEF poly_writer_append
<1>2. right = InColor(o, color)
    BY DEF InColor
<1> HIDE DEF right
<1>3. triangles = DrawnIn(o, color)
    BY <1>2 DEF DrawnIn
<1> HIDE DEF triangles
<1>4. filled = Filled(o, poly, color)
    BY <1>3 DEF Filled, Corners
<1> HIDE DEF filled, o
<1> QED BY <1>1, <1>4 DEF o

Fields(p, w, v, tri_cmd, color) ==
    [p |-> p, d |-> w.d, v |-> v, vtx_cmd |-> w.vtx_cmd, tri_cmd |-> tri_cmd, prev_color |-> color]

(* A writer, field by field.                                             *)
LEMMA FieldsChanged ==
    ASSUME NEW w, NEW p, NEW v, NEW t, NEW c, NEW x
    PROVE  LET f == Fields(p, w, v, t, c)
           IN  /\ [f EXCEPT !.p = x] = Fields(x, w, v, t, c)
               /\ [f EXCEPT !.v = x] = Fields(p, w, x, t, c)
               /\ [f EXCEPT !.tri_cmd = x] = Fields(p, w, v, x, c)
               /\ [f EXCEPT !.prev_color = x] = Fields(p, w, v, t, x)
               /\ f.p = p /\ f.v = v /\ f.tri_cmd = t /\ f.prev_color = c
               /\ f.d = w.d /\ f.vtx_cmd = w.vtx_cmd
    BY DEF Fields

(* The commands of an open writer after one more triangle. *)
FilledList(o, color) ==
    IF Len(o.v) % 6 = 0 THEN Append(Coloured(o.p, o.prev_color, color), <<"tri", <<Len(o.v), Len(o.v) + 3>>>>)
    ELSE IF o.prev_color = color THEN o.p
    ELSE Append([Append(o.p, <<"color", color>>) EXCEPT ![o.tri_cmd] = <<"tri", <<Len(o.v) - 3>>>>], <<"tri", <<Len(o.v)>>>>)
FilledTri(o, color) ==
    IF Len(o.v) % 6 = 0 THEN Len(Coloured(o.p, o.prev_color, color)) + 1
    ELSE IF o.prev_color = color THEN o.tri_cmd
    ELSE Len(Append(o.p, <<"color", color>>)) + 1

(* What the three ways to add a triangle leave in each field.            *)
LEMMA FilledFields ==
    ASSUME NEW o \in PolyWriters, NEW poly, NEW color
    PROVE  Filled(o, poly, color) = Fields(FilledList(o, color), o, o.v \o Corners(poly), FilledTri(o, color), color)
<1> DEFINE longer == Append(o.p, <<"color", color>>)
           half == Len(o.v) % 6 # 0
           one == <<"tri", <<Len(o.v) - 3>>>>
           single == <<"tri", <<Len(o.v)>>>>
           two == <<"tri", <<Len(o.v), Len(o.v) + 3>>>>
           set == [Emit(o, <<"color", color>>) EXCEPT !.prev_color = color]
           list == [longer EXCEPT ![o.tri_cmd] = one]
           broken == Append(list, single)
           coloured == Coloured(o.p, o.prev_color, color)
           paired == Append(coloured, two)
           vertices == o.v \o Corners(poly)
           right == InColor(o, color)
           triangles == DrawnIn(o, color)
           F(p, t) == Fields(p, o, o.v, t, color)
<1>1. o = Fields(o.p, o, o.v, o.tri_cmd, o.prev_color)
    BY DEF PolyWriters, Fields
<1>2. set = F(longer, o.tri_cmd)
    <2>1. Emit(o, <<"color", color>>) = [o EXCEPT !.p = longer]
        BY DEF Emit
    <2> HIDE DEF longer
    <2>2. [o EXCEPT !.p = longer] = Fields(longer, o, o.v, o.tri_cmd, o.prev_color)
        BY <1>1, FieldsChanged
    <2> DEFINE e == Emit(o, <<"color", color>>)
               g == Fields(longer, o, o.v, o.tri_cmd, o.prev_color)
    <2>3. e = g
        BY <2>1, <2>2
    <2>4. [g EXCEPT !.prev_color = color] = F(longer, o.tri_cmd)
        BY FieldsChanged
    <2> HIDE DEF e, g
    <2>5. [e EXCEPT !.prev_color = color] = F(longer, o.tri_cmd)
        BY <2>3, <2>4
    <2> QED BY <2>5 DEF e
<1>3. o.prev_color # color => right = Recoloured(o, color)
    BY DEF InColor
<1>4. Recoloured(o, color) = IF ~half THEN set ELSE [Emit(At(set, o.tri_cmd, one), single) EXCEPT !.tri_cmd = Len(set.p) + 1]
    BY DEF Recoloured
<1>5. o.prev_color = color => right = o
    BY DEF InColor
<1>6. triangles = IF half THEN right ELSE [Emit(right, two) EXCEPT !.tri_cmd = Len(right.p) + 1]
    BY DEF DrawnIn
<1>7. Filled(o, poly, color) = [triangles EXCEPT !.v = triangles.v \o Corners(poly)]
    BY DEF Filled
<1>8. ~half => FilledList(o, color) = paired /\ FilledTri(o, color) = Len(coloured) + 1
    BY DEF FilledList, FilledTri
<1>9. half /\ o.prev_color = color => FilledList(o, color) = o.p /\ FilledTri(o, color) = o.tri_cmd
    BY DEF FilledList, FilledTri
<1>10. half /\ o.prev_color # color => FilledList(o, color) = broken
    BY DEF FilledList
<1>11. half /\ o.prev_color # color => FilledTri(o, color) = Len(longer) + 1
    BY DEF FilledTri
<1>12. (o.prev_color # color => coloured = longer) /\ (o.prev_color = color => coloured = o.p)
    BY DEF Coloured
<1> HIDE DEF half, set, right, triangles
<1>13. ASSUME NEW p, NEW t, triangles = F(p, t)
       PROVE  Filled(o, poly, color) = Fields(p, o, vertices, t, color)
    <2>1. triangles.v = o.v
        BY <1>13, FieldsChanged
    <2>2. Filled(o, poly, color) = [triangles EXCEPT !.v = vertices]
        BY <1>7, <2>1
    <2> HIDE DEF vertices
    <2>3. [F(p, t) EXCEPT !.v = vertices] = Fields(p, o, vertices, t, color)
        BY FieldsChanged
    <2> DEFINE f == F(p, t)
    <2>4. triangles = f /\ [f EXCEPT !.v = vertices] = Fields(p, o, vertices, t, color)
        BY <1>13, <2>3
    <2> HIDE DEF f
    <2> QED BY <2>2, <2>4
<1>14. ASSUME NEW p, NEW t, NEW x, NEW w, w = F(p, t)
       PROVE  Emit(w, x) = F(Append(p, x), t) /\ w.p = p
    <2>1. w.p = p
        BY <1>14, FieldsChanged
    <2> DEFINE q == Append(p, x)
    <2>2. Emit(w, x) = [w EXCEPT !.p = q]
        BY <2>1 DEF Emit
    <2> HIDE DEF q
    <2> DEFINE f == F(p, t)
    <2>3. w = f /\ [f EXCEPT !.p = q] = F(q, t)
        BY <1>14, FieldsChanged
    <2> HIDE DEF f
    <2>4. Emit(w, x) = F(q, t)
        BY <2>2, <2>3
    <2> QED BY <2>1, <2>4 DEF q
<1>15. ASSUME NEW p, NEW t, NEW n, NEW w, w = F(p, t)
       PROVE  [w EXCEPT !.tri_cmd = n] = F(p, n)
    <2> DEFINE f == F(p, t)
    <2>1. w = f /\ [f EXCEPT !.tri_cmd = n] = F(p, n)
        BY <1>15, FieldsChanged
    <2> HIDE DEF f
    <2> QED BY <2>1
<1> HIDE DEF longer
<1>16. At(set, o.tri_cmd, one) = F(list, o.tri_cmd)
    <2>1. set.p = longer
        BY <1>2, FieldsChanged
    <2>2. At(set, o.tri_cmd, one) = [set EXCEPT !.p = [set.p EXCEPT ![o.tri_cmd] = one]]
        BY DEF At
    <2>3. At(set, o.tri_cmd, one) = [set EXCEPT !.p = list]
        BY <2>1, <2>2
    <2> HIDE DEF list
    <2> DEFINE f == F(longer, o.tri_cmd)
    <2>4. set = f /\ [f EXCEPT !.p = list] = F(list, o.tri_cmd)
        BY <1>2, FieldsChanged
    <2> HIDE DEF f
    <2> QED BY <2>3, <2>4
<1> HIDE DEF one, single, two, list, broken, coloured, paired, vertices, F
<1>17. CASE ~half
    <2>1. right = F(coloured, o.tri_cmd)
        <3>1. CASE o.prev_color # color
            BY <1>2, <1>3, <1>4, <1>12, <1>17, <3>1
        <3>2. CASE o.prev_color = color
            BY <1>1, <1>5, <1>12, <3>2 DEF F
        <3> QED BY <3>1, <3>2
    <2>2. Emit(right, two) = F(paired, o.tri_cmd) /\ right.p = coloured
        BY <1>14, <2>1 DEF paired
    <2> DEFINE e == Emit(right, two)
    <2>3. triangles = [e EXCEPT !.tri_cmd = Len(coloured) + 1]
        BY <1>6, <1>17, <2>2
    <2>4. e = F(paired, o.tri_cmd)
        BY <2>2
    <2> HIDE DEF e
    <2>5. triangles = F(paired, Len(coloured) + 1)
        BY <1>15, <2>3, <2>4
    <2>6. Filled(o, poly, color) = Fields(paired, o, vertices, Len(coloured) + 1, color)
        BY <1>13, <2>5
    <2> QED BY <1>8, <1>17, <2>6 DEF vertices
<1>18. CASE half /\ o.prev_color = color
    <2>1. triangles = F(o.p, o.tri_cmd)
        BY <1>1, <1>5, <1>6, <1>18 DEF F
    <2>2. Filled(o, poly, color) = Fields(o.p, o, vertices, o.tri_cmd, color)
        BY <1>13, <2>1
    <2> QED BY <1>9, <1>18, <2>2 DEF vertices
<1>19. CASE half /\ o.prev_color # color
    <2>1. Emit(At(set, o.tri_cmd, one), single) = F(broken, o.tri_cmd)
        BY <1>14, <1>16 DEF broken
    <2>2. set.p = longer
        BY <1>2, <1>14
    <2> DEFINE e == Emit(At(set, o.tri_cmd, one), single)
    <2>3. triangles = [e EXCEPT !.tri_cmd = Len(longer) + 1]
        BY <1>3, <1>4, <1>6, <1>19, <2>2
    <2>4. e = F(broken, o.tri_cmd)
        BY <2>1
    <2> HIDE DEF e
    <2>5. triangles = F(broken, Len(longer) + 1)
        BY <1>15, <2>3, <2>4
    <2>6. Filled(o, poly, color) = Fields(broken, o, vertices, Len(longer) + 1, color)
        BY <1>13, <2>5
    <2> QED BY <1>10, <1>11, <1>19, <2>6 DEF vertices
<1> QED BY <1>17, <1>18, <1>19

(* A batch ends in a whole pair of triangles or in half of one.          *)
LEMMA ModSix ==
    ASSUME NEW m \in Nat, m % 6 \in {0, 3}
    PROVE  /\ m % 6 = 0 => (m + 3) % 6 = 3
           /\ m % 6 # 0 => m % 6 = 3 /\ (m + 3) % 6 = 0 /\ m - 3 \in Nat /\ m >= 3
    OBVIOUS

(* The settled list, place by place. *)
OddPlaces(s, p, v, c, t) ==
    /\ s \in Seq(Commands) /\ Len(s) = Len(p)
    /\ \A k \in 1..Len(p) :
          s[k] = IF k = c THEN <<"vtx", v>> ELSE IF k = t THEN <<"tri", <<Len(v) - 3>>>> ELSE p[k]
EvenPlaces(s, p, v, c) ==
    /\ s \in Seq(Commands) /\ Len(s) = Len(p)
    /\ \A k \in 1..Len(p) : s[k] = IF k = c THEN <<"vtx", v>> ELSE p[k]

(* The settled list when half a pair is open,                            *)
LEMMA SettledOdd ==
    ASSUME NEW p \in Seq(Commands), NEW v \in Seq(Vertices), NEW c \in 1..Len(p), NEW t \in 1..Len(p), t # c,
           Len(v) % 6 = 3
    PROVE  OddPlaces(SettledPoly(p, v, c, t), p, v, c, t)
<1> DEFINE n == Len(p)
           m == Len(v)
           load == <<"vtx", v>>
           one == <<"tri", <<m - 3>>>>
           loaded == [p EXCEPT ![c] = load]
           settled == [loaded EXCEPT ![t] = one]
<1>1. n \in Nat /\ m \in Nat /\ c # 0 /\ m % 6 = 3
    BY LenProperties
<1>2. m - 3 \in Nat /\ m % 6 # 0
    <2> HIDE DEF m
    <2> QED BY <1>1, ModSix
<1>3. load \in Commands /\ one \in Commands
    BY <1>2 DEF Commands, VtxCommands, TriCommands
<1>4. SettledPoly(p, v, c, t) = settled
    BY <1>1, <1>2 DEF SettledPoly
<1> HIDE DEF load, one
<1>5. loaded \in Seq(Commands) /\ Len(loaded) = n /\ \A k \in 1..n : loaded[k] = IF k = c THEN load ELSE p[k]
    BY <1>3, ExceptSeq
<1> HIDE DEF loaded
<1>6. settled \in Seq(Commands) /\ Len(settled) = n /\ \A k \in 1..n : settled[k] = IF k = t THEN one ELSE loaded[k]
    <2>1. t \in 1..Len(loaded)
        BY <1>5
    <2> HIDE DEF n
    <2>2. settled \in Seq(Commands) /\ Len(settled) = Len(loaded)
          /\ \A k \in 1..Len(loaded) : settled[k] = IF k = t THEN one ELSE loaded[k]
        BY <1>3, <1>5, <2>1, ExceptSeq
    <2> HIDE DEF settled
    <2> QED BY <1>5, <2>2
<1> HIDE DEF settled
<1> QED BY <1>4, <1>5, <1>6 DEF OddPlaces, load, one

(* and when none is.                                                     *)
LEMMA SettledEven ==
    ASSUME NEW p \in Seq(Commands), NEW v \in Seq(Vertices), NEW c \in 1..Len(p), NEW t,
           Len(v) % 6 = 0
    PROVE  EvenPlaces(SettledPoly(p, v, c, t), p, v, c)
<1> DEFINE load == <<"vtx", v>>
           loaded == [p EXCEPT ![c] = load]
<1>1. SettledPoly(p, v, c, t) = loaded
    BY LenProperties DEF SettledPoly
<1>2. load \in Commands
    BY DEF Commands, VtxCommands
<1> HIDE DEF load
<1>3. loaded \in Seq(Commands) /\ Len(loaded) = Len(p) /\ \A k \in 1..Len(p) : loaded[k] = IF k = c THEN load ELSE p[k]
    BY <1>2, ExceptSeq
<1> HIDE DEF loaded
<1> QED BY <1>1, <1>3 DEF EvenPlaces, load

(* A list with a colour perhaps, and one more command. *)
LEMMA ColouredPlaces ==
    ASSUME NEW list \in Seq(Commands), NEW old, NEW color \in PolyColors
    PROVE  /\ Coloured(list, old, color) \in Seq(Commands)
           /\ Len(Coloured(list, old, color)) = IF old # color THEN Len(list) + 1 ELSE Len(list)
           /\ \A k \in 1..Len(list) : Coloured(list, old, color)[k] = list[k]
           /\ old # color => Coloured(list, old, color)[Len(list) + 1] = <<"color", color>>
<1> DEFINE set == <<"color", color>>
<1>1. set \in Commands
    BY DEF Commands, ColorCommands
<1>2. Coloured(list, old, color) = IF old # color THEN Append(list, set) ELSE list
    BY DEF Coloured
<1> HIDE DEF set
<1>3. Append(list, set) \in Seq(Commands) /\ Len(Append(list, set)) = Len(list) + 1
      /\ Append(list, set)[Len(list) + 1] = set /\ \A k \in 1..Len(list) : Append(list, set)[k] = list[k]
    BY <1>1, AppendProperties
<1> QED BY <1>2, <1>3 DEF set

(* The settled list of an open writer, with three more vertices to load.   *)
IsGrown(G, o, w, tris) ==
    /\ G \in Seq(Commands) /\ Len(G) = Len(o.p) /\ LoadedAt(G, o.vtx_cmd, w)
    /\ Shown(G).loaded = w /\ Draws(G, tris, o.prev_color)
    /\ \A k \in 1..Len(o.p) :
          G[k] = IF k = o.vtx_cmd THEN <<"vtx", w>>
                 ELSE IF Len(o.v) % 6 = 3 /\ k = o.tri_cmd THEN <<"tri", <<Len(o.v) - 3>>>> ELSE o.p[k]
GrownList(o, w) == [Settled(o) EXCEPT ![o.vtx_cmd] = <<"vtx", w>>]

(* Three more vertices of a batch change nothing that its list draws.    *)
LEMMA SettledGrown ==
    ASSUME NEW tris, NEW o, PolyOpen(o, tris), NEW poly \in Nat, NEW w, w = o.v \o Corners(poly),
           NEW G, G = GrownList(o, w)
    PROVE  IsGrown(G, o, w, tris)
<1> DEFINE p == o.p
           v == o.v
           c == o.vtx_cmd
           t == o.tri_cmd
           n == Len(p)
           m == Len(v)
           u == Corners(poly)
           S == Settled(o)
           load == <<"vtx", w>>
           half == m % 6 = 3
           one == <<"tri", <<m - 3>>>>
<1>1. /\ p \in Seq(Commands) /\ v \in Seq(Vertices) /\ LoadedAt(S, c, v) /\ c \in 1..n /\ Len(S) = n
      /\ Draws(S, tris, o.prev_color) /\ m % 6 \in {0, 3} /\ (half => t = n /\ c < t)
    BY DEF PolyOpen, PolyWriters
<1>2. u \in Seq(Vertices) /\ w = v \o u /\ w \in Seq(Vertices)
    BY <1>1, CornersOfPoly, ConcatProperties
<1>3. n \in Nat /\ (half => t \in 1..n /\ t # c)
    <2>1. n \in Nat
        BY <1>1, LenProperties
    <2> HIDE DEF n, half
    <2> QED BY <1>1, <2>1
<1>4. S \in Seq(Commands) /\ \A k \in 1..n : k # c => S[k] = IF half /\ k = t THEN one ELSE p[k]
    <2> DEFINE s == SettledPoly(p, v, c, t)
    <2>1. S = s
        BY DEF Settled
    <2> HIDE DEF S
    <2>2. CASE half
        <3>1. p \in Seq(Commands) /\ v \in Seq(Vertices) /\ c \in 1..Len(p) /\ t \in 1..Len(p) /\ t # c
              /\ Len(v) % 6 = 3
            BY <1>1, <1>3, <2>2
        <3> HIDE DEF p, v, c, t, n, m, half, one
        <3>2. OddPlaces(s, p, v, c, t)
            BY <3>1, SettledOdd
        <3> HIDE DEF s
        <3>3. S = s /\ n = Len(p) /\ one = <<"tri", <<Len(v) - 3>>>>
            BY <2>1 DEF s, n, one, m
        <3> QED BY <2>2, <3>1, <3>2, <3>3 DEF OddPlaces
    <2>3. CASE ~half
        <3>1. p \in Seq(Commands) /\ v \in Seq(Vertices) /\ c \in 1..Len(p) /\ Len(v) % 6 = 0
            BY <1>1, <2>3
        <3> HIDE DEF p, v, c, t, n, m, half, one
        <3>2. EvenPlaces(s, p, v, c)
            BY <3>1, SettledEven
        <3> HIDE DEF s
        <3>3. S = s /\ n = Len(p)
            BY <2>1 DEF s, n
        <3> QED BY <2>3, <3>2, <3>3 DEF EvenPlaces
    <2> QED BY <2>2, <2>3
<1> HIDE DEF S
<1> DEFINE g == [S EXCEPT ![c] = load]
           h == [S EXCEPT ![c] = <<"vtx", v \o u>>]
<1>5. G = g /\ G = h
    BY <1>2 DEF GrownList, S
<1>6. G \in Seq(Commands) /\ Len(G) = n /\ \A k \in 1..n : G[k] = IF k = c THEN load ELSE S[k]
    <2>1. load \in Commands /\ c \in 1..Len(S)
        BY <1>1, <1>2 DEF Commands, VtxCommands
    <2> HIDE DEF load, c
    <2>2. g \in Seq(Commands) /\ Len(g) = Len(S) /\ \A k \in 1..Len(S) : g[k] = IF k = c THEN load ELSE S[k]
        BY <1>4, <2>1, ExceptSeq
    <2> HIDE DEF g, n
    <2> QED BY <1>1, <1>5, <2>2
<1>7. LoadedAt(G, c, w) /\ Shown(G) = Loading(Shown(S), w)
    <2> HIDE DEF u, v, c
    <2>1. LoadedAt(h, c, v \o u) /\ Shown(h) = Loading(Shown(S), v \o u)
        BY <1>1, <1>2, LoadedWithMore, ShownWithMore
    <2> HIDE DEF h
    <2> QED BY <1>2, <1>5, <2>1
<1> HIDE DEF g, h, load
<1>9. Shown(G).loaded = w /\ Draws(G, tris, o.prev_color)
    <2>1. Shown(S).tris = tris /\ Shown(S).color = o.prev_color
        BY <1>1 DEF Draws
    <2> QED BY <1>7, <2>1 DEF Draws, Loading
<1> HIDE DEF n, load, half, one
<1>10. \A k \in 1..n : G[k] = IF k = c THEN load ELSE IF half /\ k = t THEN one ELSE p[k]
    BY <1>4, <1>6
<1> QED BY <1>6, <1>7, <1>9, <1>10 DEF IsGrown, n, load, half, one

(* What is open after three more vertices. *)
FilledOpen(o, poly, color, tris) ==
    /\ PolyOpen(Filled(o, poly, color), tris \o <<<<Corners(poly), color>>>>)
    /\ Filled(o, poly, color).v = o.v \o Corners(poly)
    /\ Filled(o, poly, color).d = o.d
    /\ Len(Filled(o, poly, color).p) <= Len(o.p) + 2

(* The first triangle of a pair is drawn,                                *)
LEMMA EvenFilled ==
    ASSUME NEW tris, NEW o, PolyOpen(o, tris), NEW poly \in Nat, NEW color \in PolyColors, Len(o.v) % 6 = 0
    PROVE  FilledOpen(o, poly, color, tris)
<1> DEFINE p == o.p
           v == o.v
           c == o.vtx_cmd
           m == Len(v)
           n == Len(p)
           u == Corners(poly)
           w == v \o u
           S == Settled(o)
           G == GrownList(o, w)
           middle == Coloured(p, o.prev_color, color)
           h == Len(middle)
           two == <<"tri", <<m, m + 3>>>>
           single == <<"tri", <<m>>>>
           list == Append(middle, two)
           target == Append(Coloured(G, o.prev_color, color), single)
           N == Filled(o, poly, color)
<1>1. /\ o \in PolyWriters /\ p \in Seq(Commands) /\ v \in Seq(Vertices) /\ o.d \in Nat
      /\ LoadedAt(S, c, v) /\ c \in 1..n /\ Len(S) = n /\ Draws(S, tris, o.prev_color)
    BY DEF PolyOpen, PolyWriters
<1>2. u \in Seq(Vertices) /\ Len(u) = 3
    BY CornersOfPoly
<1> HIDE DEF u
<1>3. w \in Seq(Vertices) /\ m \in Nat /\ Len(w) = m + 3
    BY <1>1, <1>2, ThreeMore
<1>4. m % 6 = 0 /\ (m + 3) % 6 = 3 /\ m + 3 - 3 = m /\ m % 6 \in {0, 3} /\ ~(m % 6 = 3)
    <2>1. m \in Nat /\ m % 6 = 0
        BY <1>3
    <2> HIDE DEF m
    <2> QED BY <2>1, ModSix
<1>4a. Len(w) % 6 = 3 /\ Len(w) - 3 = m /\ Len(w) % 6 \in {0, 3}
    <2> HIDE DEF m, w
    <2> QED BY <1>3, <1>4
<1>5. n \in Nat /\ middle \in Seq(Commands) /\ (h = n \/ h = n + 1) /\ h \in Nat
      /\ (o.prev_color # color => h = n + 1 /\ middle[n + 1] = <<"color", color>>)
      /\ (o.prev_color = color => h = n)
      /\ \A k \in 1..n : middle[k] = p[k]
    BY <1>1, ColouredPlaces, LenProperties
<1>6. two \in Commands /\ single \in Commands /\ <<"vtx", w>> \in Commands
    BY <1>3 DEF Commands, TriCommands, VtxCommands
<1>7. N = Fields(FilledList(o, color), o, o.v \o Corners(poly), FilledTri(o, color), color)
    BY <1>1, FilledFields
<1>8. FilledList(o, color) = list /\ FilledTri(o, color) = h + 1
    BY DEF FilledList, FilledTri
<1> HIDE DEF middle, h, two, single
<1>9. /\ list \in Seq(Commands) /\ Len(list) = h + 1 /\ list[h + 1] = two
      /\ \A k \in 1..h : list[k] = middle[k]
    BY <1>5, <1>6, AppendProperties DEF h
<1> HIDE DEF N, list
<1>10. N = [p |-> list, d |-> o.d, v |-> w, vtx_cmd |-> c, tri_cmd |-> h + 1, prev_color |-> color]
    BY <1>7, <1>8 DEF Fields, u
<1> HIDE DEF w
<1>11. N \in PolyWriters
    BY <1>1, <1>3, <1>5, <1>9, <1>10 DEF PolyWriters
<1>12. Settled(N) = SettledPoly(list, w, c, h + 1)
    BY <1>10 DEF Settled
<1> DEFINE settled == SettledPoly(list, w, c, h + 1)
<1>13. c \in 1..(h + 1) /\ h + 1 # c /\ h + 1 \in 1..(h + 1)
    BY <1>1, <1>5
<1>14. /\ settled \in Seq(Commands) /\ Len(settled) = h + 1
       /\ \A k \in 1..(h + 1) : settled[k] = IF k = h + 1 THEN single ELSE IF k = c THEN <<"vtx", w>> ELSE list[k]
    <2> DEFINE t == h + 1
    <2>0. list \in Seq(Commands) /\ w \in Seq(Vertices) /\ c \in 1..Len(list) /\ Len(w) % 6 = 3 /\ t \in 1..Len(list) /\ t # c
        BY <1>3, <1>4a, <1>9, <1>13
    <2> HIDE DEF t, c, n, S, G, target
    <2>1. OddPlaces(SettledPoly(list, w, c, t), list, w, c, t)
        BY <2>0, SettledOdd
    <2>2. Len(list) = h + 1 /\ Len(w) % 6 = 3 /\ Len(w) - 3 = m /\ h + 1 # c
        BY <1>4a, <1>9, <1>13
    <2>3. OddPlaces(settled, list, w, c, h + 1)
        BY <2>1 DEF t
    <2> HIDE DEF settled
    <2> QED BY <2>2, <2>3 DEF OddPlaces, single
<1>15. IsGrown(G, o, w, tris)
    <2>1. w = o.v \o Corners(poly) /\ G = GrownList(o, w)
        BY DEF w, u
    <2> HIDE DEF G, p, v, c, m, n, S
    <2> QED BY <2>1, SettledGrown
<1>16. /\ G \in Seq(Commands) /\ Len(G) = n /\ \A k \in 1..n : G[k] = IF k = c THEN <<"vtx", w>> ELSE p[k]
       /\ LoadedAt(G, c, w) /\ Shown(G).loaded = w /\ Draws(G, tris, o.prev_color)
    <2> HIDE DEF G
    <2> QED BY <1>4, <1>15 DEF IsGrown
<1> HIDE DEF G, settled
<1>18. LoadedAt(target, c, w) /\ Draws(target, tris \o <<<<Corners(poly), color>>>>, color)
    <2> DEFINE old == o.prev_color
    <2>1. LoadedAt(G, c, w) /\ Shown(G).loaded = w /\ Draws(G, tris, old)
        BY <1>16
    <2>2. v \in Seq(Vertices) /\ w = v \o Corners(poly)
        BY <1>1 DEF w, u
    <2>3. target = Append(Coloured(G, old, color), <<"tri", <<Len(v)>>>>)
        BY DEF single
    <2> HIDE DEF old, v, c, target
    <2> QED BY <2>1, <2>2, <2>3, TriangleAppended
<1>19. settled = target
    <2> DEFINE mid == Coloured(G, o.prev_color, color)
    <2>1. mid \in Seq(Commands) /\ Len(mid) = h /\ \A k \in 1..h : mid[k] = IF k = c THEN <<"vtx", w>> ELSE middle[k]
        <3>1. mid \in Seq(Commands) /\ Len(mid) = (IF o.prev_color # color THEN n + 1 ELSE n)
              /\ (\A k \in 1..n : mid[k] = G[k]) /\ (o.prev_color # color => mid[n + 1] = <<"color", color>>)
            BY <1>16, ColouredPlaces
        <3>2. \A k \in 1..h : k \in 1..n \/ (o.prev_color # color /\ k = n + 1 /\ k # c)
            BY <1>1, <1>5
        <3> HIDE DEF mid
        <3>3. Len(mid) = h
            BY <1>5, <3>1
        <3> QED BY <1>5, <1>16, <3>1, <3>2, <3>3
    <2> HIDE DEF mid
    <2>2. target \in Seq(Commands) /\ Len(target) = h + 1 /\ target[h + 1] = single
          /\ \A k \in 1..h : target[k] = mid[k]
        BY <1>6, <2>1, AppendProperties DEF mid
    <2> HIDE DEF target
    <2>3. ASSUME NEW k \in 1..(h + 1) PROVE settled[k] = target[k]
        <3>1. k = h + 1 \/ (k # h + 1 /\ k \in 1..h)
            BY <1>5
        <3> QED BY <1>9, <1>14, <2>1, <2>2, <3>1
    <2> QED BY <1>14, <2>2, <2>3, SeqEqual
<1> HIDE DEF target
<1>20. PolyOpen(N, tris \o <<<<Corners(poly), color>>>>)
    <2> DEFINE T == tris \o <<<<Corners(poly), color>>>>
    <2>1. Draws(target, T, color)
        BY <1>18
    <2> HIDE DEF T
    <2>2. Settled(N) = target
        BY <1>12, <1>19 DEF settled
    <2>3. Len(target) = h + 1
        BY <1>14, <1>19
    <2>4. N.p = list /\ N.v = w /\ N.vtx_cmd = c /\ N.tri_cmd = h + 1 /\ N.prev_color = color
        BY <1>10
    <2>5. c < h + 1
        BY <1>1, <1>5
    <2>6. list[h + 1] = <<"tri", <<Len(w) - 3, Len(w)>>>>
        BY <1>3, <1>4, <1>9 DEF two
    <2> HIDE DEF c
    <2>7. PolyOpen(N, T)
        BY <1>3, <1>4, <1>9, <1>11, <1>13, <1>18, <2>1, <2>2, <2>3, <2>4, <2>5, <2>6 DEF PolyOpen
    <2> QED BY <2>7 DEF T
<1>21. N.v = o.v \o Corners(poly) /\ N.d = o.d /\ Len(N.p) <= Len(o.p) + 2
    <2>1. N.v = w /\ N.d = o.d /\ Len(N.p) = h + 1
        BY <1>9, <1>10
    <2> QED BY <1>5, <2>1 DEF w, u
<1> QED BY <1>20, <1>21 DEF FilledOpen, N

Triangles == {Triangle(v, i, color) : v \in Seq(Vertices), i \in Nat, color \in PolyColors}
DrawnRcp(r) == IsRcp(r) /\ r.loaded \in Seq(Vertices) /\ r.color \in PolyColors /\ r.tris \in Seq(Triangles)

(* Commands draw triangles of vertices.                                  *)
LEMMA ExecutedTypes ==
    ASSUME NEW r, DrawnRcp(r), NEW command \in Commands
    PROVE  DrawnRcp(Executed(r, command))
<1>1. IsRcp(r) /\ r.loaded \in Seq(Vertices) /\ r.color \in PolyColors /\ r.tris \in Seq(Triangles)
    BY DEF DrawnRcp
<1> DEFINE e == Executed(r, command)
<1>2. IsRcp(e)
    BY <1>1, ExecutedRcp
<1>3. CASE command \in VtxCommands
    <2>1. PICK v \in Seq(Vertices) : command = <<"vtx", v>>
        BY <1>3 DEF VtxCommands
    <2>2. e = [loaded |-> v, color |-> r.color, tris |-> r.tris, lines |-> r.lines]
        BY <1>1, <2>1, ExecutedVtx
    <2> HIDE DEF e
    <2> QED BY <1>1, <1>2, <2>2 DEF DrawnRcp, e
<1>4. CASE command \in ColorCommands
    <2>1. PICK c \in PolyColors : command = <<"color", c>>
        BY <1>4 DEF ColorCommands
    <2>2. e = [loaded |-> r.loaded, color |-> c, tris |-> r.tris, lines |-> r.lines]
        BY <1>1, <2>1, ExecutedColor
    <2> HIDE DEF e
    <2> QED BY <1>1, <1>2, <2>2 DEF DrawnRcp, e
<1>5. CASE command \in TriCommands
    <2>0. \A i \in Nat : Triangle(r.loaded, i, r.color) \in Triangles
        BY <1>1 DEF Triangles
    <2>1. \/ \E i \in Nat : command = <<"tri", <<i>>>>
          \/ \E i \in Nat : command = <<"tri", <<i, i + 3>>>>
        BY <1>5 DEF TriCommands
    <2>2. ASSUME NEW i \in Nat, command = <<"tri", <<i>>>> PROVE DrawnRcp(e)
        <3> DEFINE a == <<Triangle(r.loaded, i, r.color)>>
                   more == r.tris \o a
        <3>1. e = [loaded |-> r.loaded, color |-> r.color, lines |-> r.lines, tris |-> more]
            BY <1>1, <2>2, ExecutedTris
        <3>2. a \in Seq(Triangles)
            BY <2>0
        <3> HIDE DEF a
        <3>3. more \in Seq(Triangles)
            BY <1>1, <3>2, ConcatProperties
        <3> HIDE DEF more, e
        <3> QED BY <1>1, <1>2, <3>1, <3>3 DEF DrawnRcp
    <2>3. ASSUME NEW i \in Nat, command = <<"tri", <<i, i + 3>>>> PROVE DrawnRcp(e)
        <3> DEFINE a == <<Triangle(r.loaded, i, r.color), Triangle(r.loaded, i + 3, r.color)>>
                   more == r.tris \o a
        <3>1. e = [loaded |-> r.loaded, color |-> r.color, lines |-> r.lines, tris |-> more]
            BY <1>1, <2>3, ExecutedTris
        <3>2. a \in Seq(Triangles)
            BY <2>0
        <3> HIDE DEF a
        <3>3. more \in Seq(Triangles)
            BY <1>1, <3>2, ConcatProperties
        <3> HIDE DEF more, e
        <3> QED BY <1>1, <1>2, <3>1, <3>3 DEF DrawnRcp
    <2> QED BY <2>1, <2>2, <2>3
<1>6. CASE command \in LineCommands
    <2>1. PICK i \in Nat, j \in Nat : command = <<"line", i, j>>
        BY <1>6 DEF LineCommands
    <2> DEFINE q == r.lines \cup {{r.loaded[i + 1], r.loaded[j + 1]}}
    <2>2. e = [loaded |-> r.loaded, color |-> r.color, tris |-> r.tris, lines |-> q]
        BY <1>1, <2>1, ExecutedLine
    <2> HIDE DEF q, e
    <2> QED BY <1>1, <1>2, <2>2 DEF DrawnRcp, e
<1> QED BY <1>3, <1>4, <1>5, <1>6 DEF Commands

(* A list draws triangles of vertices.                                   *)
LEMMA ShownTypes ==
    ASSUME NEW list \in Seq(Commands)
    PROVE  DrawnRcp(Shown(list))
<1> DEFINE n == Len(list)
<1>1. n \in Nat /\ \A k \in 1..n : list[k] \in Commands
    BY LenProperties, ElementOfSeq
<1>2. PICK f : IsRun(f, list, n)
    BY RunsTyped
<1> HIDE DEF n
<1> DEFINE B == {k \in 0..n : DrawnRcp(f[k])}
<1>3. 0 \in B
    <2>1. DrawnRcp(Blank)
        BY EmptySeq DEF DrawnRcp, Blank, IsRcp, PolyColors
    <2> QED BY <1>1, <1>2, <2>1 DEF IsRun
<1>4. ASSUME NEW k \in 1..n, k - 1 \in B PROVE k \in B
    <2>1. k \in 0..n
        BY <1>1
    <2> QED BY <1>1, <1>2, <1>4, <2>1, ExecutedTypes DEF IsRun
<1> HIDE DEF B
<1>5. \A k \in (0 + 1)..n : k - 1 \in B => k \in B
    BY <1>4
<1>6. n \in 0..n
    BY <1>1
<1>7. n \in B
    BY <1>1, <1>3, <1>5, <1>6, EveryPlace
<1> QED BY <1>2, <1>7 DEF B, IsRun

(* Two lists of one.                                                     *)
LEMMA OneAndOne ==
    ASSUME NEW S, NEW a \in S, NEW b \in S
    PROVE  <<a>> \in Seq(S) /\ <<b>> \in Seq(S) /\ <<a>> \o <<b>> = <<a, b>>
<1> DEFINE s == <<a>>
           t == <<b>>
           u == <<a, b>>
           both == s \o t
<1>1. s \in Seq(S) /\ Len(s) = 1 /\ s[1] = a /\ t \in Seq(S) /\ Len(t) = 1 /\ t[1] = b
    OBVIOUS
<1>2. u \in Seq(S) /\ Len(u) = 2 /\ u[1] = a /\ u[2] = b
    OBVIOUS
<1> HIDE DEF s, t, u
<1>3. both \in Seq(S) /\ Len(both) = Len(s) + Len(t)
      /\ \A i \in 1..(Len(s) + Len(t)) : both[i] = IF i <= Len(s) THEN s[i] ELSE t[i - Len(s)]
    BY <1>1, ConcatProperties
<1> HIDE DEF both
<1>4. Len(both) = 2 /\ both[1] = a /\ both[2] = b
    BY <1>1, <1>3
<1>5. \A i \in 1..2 : i = 1 \/ i = 2
    OBVIOUS
<1>6. both = u
    BY <1>2, <1>3, <1>4, <1>5, SeqEqual
<1> QED BY <1>1, <1>6 DEF both, s, t, u

(* as is one in another colour, which ends a pair that has only one,     *)
LEMMA BrokenFilled ==
    ASSUME NEW tris, NEW o, PolyOpen(o, tris), NEW poly \in Nat, NEW color \in PolyColors,
           Len(o.v) % 6 = 3, o.prev_color # color
    PROVE  FilledOpen(o, poly, color, tris)
<1> DEFINE p == o.p
           v == o.v
           c == o.vtx_cmd
           t == o.tri_cmd
           m == Len(v)
           n == Len(p)
           u == Corners(poly)
           w == v \o u
           G == GrownList(o, w)
           set == <<"color", color>>
           one == <<"tri", <<m - 3>>>>
           single == <<"tri", <<m>>>>
           longer == Append(p, set)
           parted == [longer EXCEPT ![t] = one]
           list == Append(parted, single)
           coloured == Append(G, set)
           target == Append(coloured, single)
           N == Filled(o, poly, color)
<1>1. /\ o \in PolyWriters /\ p \in Seq(Commands) /\ v \in Seq(Vertices) /\ o.d \in Nat
      /\ c \in 1..n /\ t = n /\ c < t
    BY DEF PolyOpen, PolyWriters
<1>2. u \in Seq(Vertices) /\ Len(u) = 3
    BY CornersOfPoly
<1> HIDE DEF u
<1>3. w \in Seq(Vertices) /\ m \in Nat /\ Len(w) = m + 3
    BY <1>1, <1>2, ThreeMore
<1>4. m % 6 = 3 /\ (m + 3) % 6 = 0 /\ m - 3 \in Nat /\ m % 6 # 0
    <2>1. m \in Nat /\ m % 6 = 3
        BY <1>3
    <2> HIDE DEF m
    <2> QED BY <2>1, ModSix
<1>5. Len(w) % 6 = 0
    <2> HIDE DEF m, w
    <2> QED BY <1>3, <1>4
<1>6. set \in Commands /\ one \in Commands /\ single \in Commands
    BY <1>3, <1>4 DEF Commands, TriCommands, ColorCommands
<1>7. N = Fields(FilledList(o, color), o, o.v \o Corners(poly), FilledTri(o, color), color)
    BY <1>1, FilledFields
<1>8. FilledList(o, color) = list /\ FilledTri(o, color) = Len(longer) + 1
    BY <1>4 DEF FilledList, FilledTri
<1>9. IsGrown(G, o, w, tris)
    <2>1. w = o.v \o Corners(poly) /\ G = GrownList(o, w)
        BY DEF w, u
    <2> HIDE DEF G, p, v, c, m, n
    <2> QED BY <2>1, SettledGrown
<1> HIDE DEF set, single, one, G
<1>10. n \in Nat /\ longer \in Seq(Commands) /\ Len(longer) = n + 1 /\ longer[n + 1] = set
       /\ \A k \in 1..n : longer[k] = p[k]
    BY <1>1, <1>6, AppendProperties, LenProperties
<1> HIDE DEF longer
<1>11. parted \in Seq(Commands) /\ Len(parted) = n + 1
       /\ \A k \in 1..(n + 1) : parted[k] = IF k = t THEN one ELSE longer[k]
    <2>1. t \in 1..Len(longer)
        BY <1>1, <1>10
    <2> HIDE DEF t, n
    <2> QED BY <1>6, <1>10, <2>1, ExceptSeq
<1> HIDE DEF parted
<1>12. list \in Seq(Commands) /\ Len(list) = n + 2 /\ list[n + 2] = single /\ \A k \in 1..(n + 1) : list[k] = parted[k]
    <2>1. list \in Seq(Commands) /\ Len(list) = Len(parted) + 1 /\ list[Len(parted) + 1] = single
          /\ \A k \in 1..Len(parted) : list[k] = parted[k]
        BY <1>6, <1>11, AppendProperties
    <2> HIDE DEF list
    <2>2. Len(parted) = n + 1 /\ (n + 1) + 1 = n + 2
        BY <1>10, <1>11
    <2> QED BY <2>1, <2>2
<1> HIDE DEF list, N
<1>13. N = [p |-> list, d |-> o.d, v |-> w, vtx_cmd |-> c, tri_cmd |-> n + 2, prev_color |-> color]
    <2>1. Len(longer) + 1 = n + 2
        BY <1>10
    <2> QED BY <1>7, <1>8, <2>1 DEF Fields, u
<1> HIDE DEF w
<1>14. N \in PolyWriters
    BY <1>1, <1>3, <1>10, <1>12, <1>13 DEF PolyWriters
<1> DEFINE settled == SettledPoly(list, w, c, n + 2)
<1>15. Settled(N) = settled
    BY <1>13 DEF Settled
<1>16. EvenPlaces(settled, list, w, c)
    <2>0. c \in 1..n /\ n \in Nat
        BY <1>1, <1>10
    <2>1. list \in Seq(Commands) /\ w \in Seq(Vertices) /\ c \in 1..Len(list) /\ Len(w) % 6 = 0
        <3> HIDE DEF c, n, settled
        <3>1. c \in 1..(n + 2)
            BY <2>0
        <3> QED BY <1>3, <1>5, <1>12, <3>1
    <2> HIDE DEF c, n
    <2> QED BY <2>1, SettledEven
<1> HIDE DEF settled
<1>17. /\ G \in Seq(Commands) /\ Len(G) = n
       /\ \A k \in 1..n : G[k] = IF k = c THEN <<"vtx", w>> ELSE IF k = t THEN one ELSE p[k]
       /\ LoadedAt(G, c, w) /\ Shown(G).loaded = w /\ Draws(G, tris, o.prev_color)
    BY <1>4, <1>9 DEF IsGrown, one
<1>18. coloured \in Seq(Commands) /\ Len(coloured) = n + 1 /\ coloured[n + 1] = set /\ \A k \in 1..n : coloured[k] = G[k]
    BY <1>6, <1>17, AppendProperties
<1> HIDE DEF coloured
<1>19. target \in Seq(Commands) /\ Len(target) = n + 2 /\ target[n + 2] = single
       /\ \A k \in 1..(n + 1) : target[k] = coloured[k]
    <2>1. target \in Seq(Commands) /\ Len(target) = Len(coloured) + 1 /\ target[Len(coloured) + 1] = single
          /\ \A k \in 1..Len(coloured) : target[k] = coloured[k]
        BY <1>6, <1>18, AppendProperties
    <2> HIDE DEF target
    <2>2. Len(coloured) = n + 1 /\ (n + 1) + 1 = n + 2
        BY <1>10, <1>18
    <2> QED BY <2>1, <2>2
<1> HIDE DEF target
<1>20. LoadedAt(target, c, w) /\ Draws(target, tris \o <<<<Corners(poly), color>>>>, color)
    <2> DEFINE old == o.prev_color
    <2>1. LoadedAt(G, c, w) /\ Shown(G).loaded = w /\ Draws(G, tris, old)
        BY <1>17
    <2>2. v \in Seq(Vertices) /\ w = v \o Corners(poly)
        BY <1>1 DEF w, u
    <2>3. target = Append(Coloured(G, old, color), <<"tri", <<Len(v)>>>>)
        BY DEF target, coloured, single, set, Coloured
    <2> HIDE DEF old, v, c
    <2> QED BY <2>1, <2>2, <2>3, TriangleAppended
<1>21. settled = target
    <2>1. settled \in Seq(Commands) /\ Len(settled) = n + 2
          /\ \A k \in 1..(n + 2) : settled[k] = IF k = c THEN <<"vtx", w>> ELSE list[k]
        BY <1>12, <1>16 DEF EvenPlaces
    <2>2. ASSUME NEW k \in 1..(n + 2) PROVE settled[k] = target[k]
        <3>0. n + 2 # c /\ n + 1 # c /\ n + 1 # t /\ t # c /\ n + 1 \in 1..(n + 1) /\ n + 2 \in 1..(n + 2) /\ n + 1 \in 1..(n + 2)
            BY <1>1, <1>10
        <3>1. CASE k = n + 2
            BY <1>12, <1>19, <2>1, <3>0, <3>1
        <3>2. CASE k = n + 1
            BY <1>10, <1>11, <1>12, <1>18, <1>19, <2>1, <3>0, <3>2
        <3>3. CASE k \in 1..n
            <4>1. k \in 1..(n + 1) /\ k \in 1..(n + 2)
                BY <1>10, <3>3
            <4>2. target[k] = IF k = c THEN <<"vtx", w>> ELSE IF k = t THEN one ELSE p[k]
                BY <1>17, <1>18, <1>19, <3>3, <4>1
            <4>3. settled[k] = IF k = c THEN <<"vtx", w>> ELSE IF k = t THEN one ELSE longer[k]
                BY <1>11, <1>12, <2>1, <4>1
            <4>4. longer[k] = p[k]
                BY <1>10, <3>3
            <4> HIDE DEF c, t, p, n
            <4> QED BY <4>2, <4>3, <4>4
        <3> QED BY <1>10, <3>1, <3>2, <3>3
    <2> QED BY <1>19, <2>1, <2>2, SeqEqual
<1>22. PolyOpen(N, tris \o <<<<Corners(poly), color>>>>)
    <2> DEFINE T == tris \o <<<<Corners(poly), color>>>>
    <2>1. Draws(target, T, color)
        BY <1>20
    <2> HIDE DEF T
    <2>2. Settled(N) = target /\ Len(target) = n + 2 /\ Len(list) = n + 2
        BY <1>12, <1>15, <1>19, <1>21
    <2>3. N.p = list /\ N.v = w /\ N.vtx_cmd = c /\ N.prev_color = color
        BY <1>13
    <2>4. c \in 1..(n + 2) /\ Len(w) % 6 \in {0, 3} /\ ~(Len(w) % 6 = 3)
        BY <1>1, <1>5, <1>10
    <2> HIDE DEF c, n
    <2>5. PolyOpen(N, T)
        BY <1>14, <1>20, <2>1, <2>2, <2>3, <2>4 DEF PolyOpen
    <2> QED BY <2>5 DEF T
<1>23. N.v = o.v \o Corners(poly) /\ N.d = o.d /\ Len(N.p) <= Len(o.p) + 2
    <2>1. N.v = w /\ N.d = o.d /\ Len(N.p) = n + 2
        BY <1>12, <1>13
    <2> QED BY <1>10, <2>1 DEF w, u
<1> QED BY <1>22, <1>23 DEF FilledOpen, N

(* and one that completes the pair, which is drawn by an earlier command. *)
LEMMA PairFilled ==
    ASSUME NEW tris, NEW o, PolyOpen(o, tris), NEW poly \in Nat, NEW color \in PolyColors,
           Len(o.v) % 6 = 3, o.prev_color = color
    PROVE  FilledOpen(o, poly, color, tris)
<1> DEFINE p == o.p
           v == o.v
           c == o.vtx_cmd
           t == o.tri_cmd
           m == Len(v)
           n == Len(p)
           u == Corners(poly)
           w == v \o u
           G == GrownList(o, w)
           one == <<"tri", <<m - 3>>>>
           pair == <<"tri", <<m - 3, m - 3 + 3>>>>
           front == SubSeq(G, 1, n - 1)
           N == Filled(o, poly, color)
<1>1. /\ o \in PolyWriters /\ p \in Seq(Commands) /\ v \in Seq(Vertices) /\ o.d \in Nat /\ t \in Nat
      /\ c \in 1..n /\ t = n /\ c < t /\ p[n] = <<"tri", <<m - 3, m>>>>
    BY DEF PolyOpen, PolyWriters
<1>2. u \in Seq(Vertices) /\ Len(u) = 3
    BY CornersOfPoly
<1> HIDE DEF u
<1>3. w \in Seq(Vertices) /\ m \in Nat /\ Len(w) = m + 3
    BY <1>1, <1>2, ThreeMore
<1>4. m % 6 = 3 /\ (m + 3) % 6 = 0 /\ m - 3 \in Nat /\ m % 6 # 0 /\ m - 3 + 3 = m /\ (m - 3) + 6 <= m + 3
    <2>1. m \in Nat /\ m % 6 = 3
        BY <1>3
    <2> HIDE DEF m
    <2> QED BY <2>1, ModSix
<1>5. Len(w) % 6 = 0
    <2> HIDE DEF m, w
    <2> QED BY <1>3, <1>4
<1>6. one \in Commands /\ pair \in Commands /\ NeedsOf(pair, Len(w)) /\ p[n] = pair
    <2>1. one \in Commands /\ pair \in Commands
        BY <1>4 DEF Commands, TriCommands
    <2>2. NeedsOf(pair, Len(w))
        <3> DEFINE i == m - 3
        <3>1. i \in Nat /\ i + 6 <= Len(w)
            BY <1>3, <1>4
        <3> HIDE DEF i
        <3>2. NeedsOf(<<"tri", <<i, i + 3>>>>, Len(w))
            BY <3>1 DEF NeedsOf
        <3> QED BY <3>2 DEF i
    <2>3. p[n] = pair
        BY <1>1, <1>4
    <2> QED BY <2>1, <2>2, <2>3
<1>7. N = Fields(FilledList(o, color), o, o.v \o Corners(poly), FilledTri(o, color), color)
    BY <1>1, FilledFields
<1>8. FilledList(o, color) = p /\ FilledTri(o, color) = t
    BY <1>4 DEF FilledList, FilledTri
<1>9. IsGrown(G, o, w, tris)
    <2>1. w = o.v \o Corners(poly) /\ G = GrownList(o, w)
        BY DEF w, u
    <2> HIDE DEF G, p, v, c, m, n
    <2> QED BY <2>1, SettledGrown
<1> HIDE DEF one, pair, G, N
<1>13. N = [p |-> p, d |-> o.d, v |-> w, vtx_cmd |-> c, tri_cmd |-> t, prev_color |-> color]
    BY <1>7, <1>8 DEF Fields, u
<1> HIDE DEF w
<1>14. N \in PolyWriters
    BY <1>1, <1>3, <1>13 DEF PolyWriters
<1> DEFINE settled == SettledPoly(p, w, c, t)
<1>15. Settled(N) = settled
    BY <1>13 DEF Settled
<1>16. EvenPlaces(settled, p, w, c)
    <2> HIDE DEF c, p, t
    <2> QED BY <1>1, <1>3, <1>5, SettledEven DEF n
<1> HIDE DEF settled
<1>17. /\ G \in Seq(Commands) /\ Len(G) = n /\ n \in Nat /\ n # c /\ n \in 1..n /\ n - 1 \in Nat /\ G[n] = one
       /\ \A k \in 1..n : k # n => G[k] = IF k = c THEN <<"vtx", w>> ELSE p[k]
       /\ LoadedAt(G, c, w) /\ Draws(G, tris, o.prev_color)
    <2>1. n \in Nat /\ n # c /\ n \in 1..n /\ n - 1 \in Nat
        BY <1>1, LenProperties
    <2>2. /\ G \in Seq(Commands) /\ Len(G) = n
          /\ \A k \in 1..n : G[k] = IF k = c THEN <<"vtx", w>> ELSE IF k = t THEN one ELSE p[k]
          /\ LoadedAt(G, c, w) /\ Draws(G, tris, o.prev_color)
        BY <1>4, <1>9 DEF IsGrown, one
    <2> QED BY <1>1, <2>1, <2>2
<1>18. front \in Seq(Commands) /\ Len(front) = n - 1 /\ \A k \in 1..(n - 1) : front[k] = G[k]
    <2>1. /\ 1 \in Int /\ n - 1 \in Int /\ 1 <= (n - 1) + 1 /\ (n - 1) - 1 + 1 = n - 1
          /\ \A k \in 1..(n - 1) : k \in 1..n /\ 1 + k - 1 = k
        BY <1>17
    <2>2. \A k \in 1..(n - 1) : G[k] \in Commands
        BY <1>17, <2>1, ElementOfSeq
    <2>3. front \in Seq(Commands) /\ Len(front) = (IF 1 <= n - 1 THEN (n - 1) - 1 + 1 ELSE 0)
          /\ \A k \in 1..((n - 1) - 1 + 1) : front[k] = G[1 + k - 1]
        <3> DEFINE last == n - 1
        <3> HIDE DEF last, n, G
        <3>1. SubSeq(G, 1, last) \in Seq(Commands) /\ Len(SubSeq(G, 1, last)) = (IF 1 <= last THEN last - 1 + 1 ELSE 0)
              /\ \A k \in 1..(last - 1 + 1) : SubSeq(G, 1, last)[k] = G[1 + k - 1]
            BY <2>1, <2>2, SubSeqProperties DEF last
        <3> QED BY <3>1 DEF last
    <2> HIDE DEF front
    <2> QED BY <1>1, <1>17, <2>1, <2>3
<1> HIDE DEF front
<1>19. G = Append(front, one)
    <2> DEFINE again == Append(front, one)
    <2>1. again \in Seq(Commands) /\ Len(again) = n /\ again[n] = one /\ \A k \in 1..(n - 1) : again[k] = front[k]
        <3>1. again \in Seq(Commands) /\ Len(again) = Len(front) + 1 /\ again[Len(front) + 1] = one
              /\ \A k \in 1..Len(front) : again[k] = front[k]
            BY <1>6, <1>18, AppendProperties
        <3> HIDE DEF again
        <3> QED BY <1>17, <1>18, <3>1
    <2> HIDE DEF again
    <2>2. ASSUME NEW k \in 1..n PROVE again[k] = G[k]
        <3>1. k = n \/ k \in 1..(n - 1)
            BY <1>17
        <3> QED BY <1>17, <1>18, <2>1, <3>1
    <2> HIDE DEF n
    <2>3. G = again
        BY <1>17, <2>1, <2>2, SeqEqual
    <2> QED BY <2>3 DEF again
<1>20. settled = Append(front, pair)
    <2> DEFINE again == Append(front, pair)
    <2>1. again \in Seq(Commands) /\ Len(again) = n /\ again[n] = pair /\ \A k \in 1..(n - 1) : again[k] = front[k]
        <3>1. again \in Seq(Commands) /\ Len(again) = Len(front) + 1 /\ again[Len(front) + 1] = pair
              /\ \A k \in 1..Len(front) : again[k] = front[k]
            BY <1>6, <1>18, AppendProperties
        <3> HIDE DEF again
        <3> QED BY <1>17, <1>18, <3>1
    <2> HIDE DEF again
    <2>2. ASSUME NEW k \in 1..n PROVE again[k] = settled[k]
        <3>1. k = n \/ (k \in 1..(n - 1) /\ k # n)
            BY <1>17
        <3> QED BY <1>6, <1>16, <1>17, <1>18, <2>1, <3>1, SMTT(20) DEF EvenPlaces
    <2>3. settled \in Seq(Commands) /\ Len(settled) = n
        BY <1>16 DEF EvenPlaces
    <2> HIDE DEF n, settled
    <2>4. settled = again
        BY <2>1, <2>2, <2>3, SeqEqual
    <2> QED BY <2>4 DEF again
<1> DEFINE r == Shown(front)
           i == m - 3
<1>21. Shown(G) = Executed(r, one) /\ Shown(settled) = Executed(r, pair) /\ IsRcp(r)
    BY <1>6, <1>18, <1>19, <1>20, ShownOfAppend
<1>22. LoadedAt(front, c, w)
    <2>1. c \in 1..(n - 1) /\ \A k \in (c + 1)..(n - 1) : k \in 1..(n - 1) /\ k \in (c + 1)..n
        BY <1>1, <1>17
    <2>2. G[c] = <<"vtx", w>> /\ \A k \in (c + 1)..n : NeedsOf(G[k], Len(w))
        BY <1>17 DEF LoadedAt
    <2> QED BY <1>18, <2>1, <2>2 DEF LoadedAt
<1>23. r.loaded = w
    <2> HIDE DEF c
    <2>1. w \o <<>> = w /\ <<>> \in Seq(Vertices)
        BY <1>3
    <2> QED BY <1>3, <1>22, <2>1, ShownWithMore
<1> HIDE DEF r, i
<1> DEFINE a == Triangle(w, i, color)
           b == Triangle(w, i + 3, color)
<1>24. b = <<Corners(poly), color>>
    <2>1. i + 3 = Len(v) /\ w = v \o Corners(poly)
        BY <1>4 DEF i, w, u
    <2> HIDE DEF v, w
    <2>2. Triangle(v \o Corners(poly), Len(v), color) = <<Corners(poly), color>>
        BY <1>1, LastTriangle
    <2> QED BY <2>1, <2>2
<1>25. /\ Executed(r, one) = [loaded |-> r.loaded, color |-> r.color, lines |-> r.lines,
                              tris |-> r.tris \o <<Triangle(r.loaded, i, r.color)>>]
       /\ Executed(r, pair) = [loaded |-> r.loaded, color |-> r.color, lines |-> r.lines,
                               tris |-> r.tris \o <<Triangle(r.loaded, i, r.color), Triangle(r.loaded, i + 3, r.color)>>]
    BY <1>21, ExecutedTris DEF one, pair, i
<1>26. r.color = color /\ tris = r.tris \o <<a>>
    <2> DEFINE more == r.tris \o <<Triangle(r.loaded, i, r.color)>>
    <2>1. Shown(G) = [loaded |-> r.loaded, color |-> r.color, lines |-> r.lines, tris |-> more]
        BY <1>21, <1>25
    <2>2. Shown(G).color = color /\ Shown(G).tris = tris
        BY <1>17 DEF Draws
    <2> HIDE DEF more
    <2>3. r.color = color /\ tris = more
        BY <2>1, <2>2
    <2> QED BY <1>23, <2>3 DEF more
<1> HIDE DEF a, b
<1>27. Draws(settled, r.tris \o <<a, b>>, color)
    <2> DEFINE more == r.tris \o <<Triangle(r.loaded, i, r.color), Triangle(r.loaded, i + 3, r.color)>>
    <2>1. Shown(settled) = [loaded |-> r.loaded, color |-> r.color, lines |-> r.lines, tris |-> more]
        BY <1>21, <1>25
    <2>2. more = r.tris \o <<a, b>>
        BY <1>23, <1>26 DEF a, b
    <2> HIDE DEF more
    <2>3. Shown(settled).color = color /\ Shown(settled).tris = more
        BY <1>26, <2>1
    <2> QED BY <2>2, <2>3 DEF Draws
<1>28. LoadedAt(settled, c, w)
    BY <1>6, <1>20, <1>22, LoadedAndAppended
<1>29. r.tris \o <<a, b>> = tris \o <<b>>
    <2>1. r.tris \in Seq(Triangles)
        BY <1>18, ShownTypes DEF r, DrawnRcp
    <2>2. a \in Triangles /\ b \in Triangles
        <3>1. i \in Nat /\ i + 3 \in Nat
            BY <1>4 DEF i
        <3>2. color \in PolyColors /\ w \in Seq(Vertices)
            BY <1>3
        <3> QED BY <3>1, <3>2 DEF a, b, Triangles
    <2>3. <<a>> \in Seq(Triangles) /\ <<b>> \in Seq(Triangles) /\ <<a>> \o <<b>> = <<a, b>>
        BY <2>2, OneAndOne
    <2>4. (r.tris \o <<a>>) \o <<b>> = r.tris \o (<<a>> \o <<b>>)
        BY <2>1, <2>3, ConcatAssociative
    <2> QED BY <1>26, <2>3, <2>4
<1>30. PolyOpen(N, tris \o <<<<Corners(poly), color>>>>)
    <2> DEFINE T == tris \o <<<<Corners(poly), color>>>>
    <2>1. Draws(settled, T, color)
        BY <1>24, <1>27, <1>29
    <2> HIDE DEF T
    <2>2. Settled(N) = settled /\ Len(settled) = n
        BY <1>15, <1>16 DEF EvenPlaces
    <2>3. N.p = p /\ N.v = w /\ N.vtx_cmd = c /\ N.prev_color = color
        BY <1>13
    <2>4. c \in 1..n /\ Len(w) % 6 \in {0, 3} /\ ~(Len(w) % 6 = 3)
        BY <1>1, <1>5
    <2> HIDE DEF c
    <2>5. PolyOpen(N, T)
        BY <1>14, <1>28, <2>1, <2>2, <2>3, <2>4 DEF PolyOpen
    <2> QED BY <2>5 DEF T
<1>31. N.v = o.v \o Corners(poly) /\ N.d = o.d /\ Len(N.p) <= Len(o.p) + 2
    <2>1. N.v = w /\ N.d = o.d /\ N.p = p
        BY <1>13
    <2>2. Len(p) \in Nat
        BY <1>17
    <2> HIDE DEF p, v
    <2>3. Len(N.p) <= Len(p) + 2
        BY <2>1, <2>2
    <2> QED BY <2>1, <2>3 DEF w, u, v, p
<1> QED BY <1>30, <1>31 DEF FilledOpen, N

PolyReady(w, tris) == PolyEmpty(w, tris) \/ PolyOpen(w, tris)
(* The words of the list that are taken, when the batch is loaded. *)
PolySpace(w) == Len(w.p) + w.d + 2 * Len(w.v)

(* One more triangle of an open batch, whichever it is.                  *)
LEMMA PolyFilled ==
    ASSUME NEW tris, NEW o, PolyOpen(o, tris), NEW poly \in Nat, NEW color \in PolyColors
    PROVE  FilledOpen(o, poly, color, tris)
<1>1. Len(o.v) % 6 = 0 \/ Len(o.v) % 6 = 3
    BY DEF PolyOpen
<1> QED BY <1>1, EvenFilled, BrokenFilled, PairFilled

(* poly_writer_flush changes nothing that is drawn, nor the space taken. *)
LEMMA PolyFlushed ==
    ASSUME NEW tris, NEW w, PolyReady(w, tris)
    PROVE  /\ Draws(poly_writer_flush(w).p, tris, w.prev_color)
           /\ Len(poly_writer_flush(w).p) + poly_writer_flush(w).d = PolySpace(w)
           /\ poly_writer_flush(w).v = <<>>
           /\ PolyEmpty(poly_writer_flush(w), tris)
<1> DEFINE f == poly_writer_flush(w)
           d == IF w.vtx_cmd # 0 THEN w.d + 2 * Len(w.v) ELSE w.d
           S == Settled(w)
<1>1. w \in PolyWriters /\ w.d \in Nat /\ w.v \in Seq(Vertices) /\ w.p \in Seq(Commands)
    BY DEF PolyReady, PolyEmpty, PolyOpen, PolyWriters
<1>2. f = [p |-> S, d |-> d, v |-> <<>>, vtx_cmd |-> 0, tri_cmd |-> 0, prev_color |-> w.prev_color]
    BY <1>1, FlushSettles
<1>3. Draws(S, tris, w.prev_color) /\ Len(S) = Len(w.p) /\ S \in Seq(Commands)
    <2>1. CASE PolyEmpty(w, tris)
        <3>1. w.v = <<>> /\ w.vtx_cmd = 0 /\ Draws(w.p, tris, w.prev_color)
            BY <2>1 DEF PolyEmpty
        <3>2. S = w.p
            BY <3>1 DEF Settled, SettledPoly
        <3> QED BY <1>1, <3>1, <3>2
    <2>2. CASE PolyOpen(w, tris)
        BY <2>2 DEF PolyOpen, LoadedAt
    <2> QED BY <2>1, <2>2 DEF PolyReady
<1>4. d = w.d + 2 * Len(w.v) /\ d \in Nat
    <2>1. Len(w.v) \in Nat
        BY <1>1, LenProperties
    <2>2. CASE PolyEmpty(w, tris)
        <3>1. w.v = <<>> /\ w.vtx_cmd = 0 /\ Len(<<>>) = 0
            BY <2>2 DEF PolyEmpty
        <3> QED BY <1>1, <3>1
    <2>3. CASE PolyOpen(w, tris)
        <3>1. w.vtx_cmd # 0
            <4>1. w.vtx_cmd \in 1..Len(w.p)
                BY <2>3 DEF PolyOpen
            <4> QED BY <4>1
        <3> QED BY <1>1, <2>1, <3>1
    <2> QED BY <2>2, <2>3 DEF PolyReady
<1> HIDE DEF f, d, S
<1>5. f.p = S /\ f.d = d /\ f.v = <<>> /\ f.vtx_cmd = 0 /\ f.prev_color = w.prev_color
    BY <1>2
<1>6. PolyEmpty(f, tris)
    <2>1. w.prev_color \in PolyColors /\ <<>> \in Seq(Vertices)
        BY <1>1, EmptySeq DEF PolyWriters
    <2>2. f \in PolyWriters
        BY <1>2, <1>3, <1>4, <2>1 DEF PolyWriters
    <2> QED BY <1>3, <1>5, <2>2 DEF PolyEmpty
<1>7. Len(f.p) + f.d = PolySpace(w)
    <2>1. Len(w.v) \in Nat /\ Len(w.p) \in Nat
        BY <1>1, LenProperties
    <2> QED BY <1>1, <1>3, <1>4, <1>5, <2>1, SMTT(20) DEF PolySpace
<1> QED BY <1>3, <1>5, <1>6, <1>7 DEF f

(* poly_writer_append draws one more triangle, in nine words at most.    *)
LEMMA PolyAppended ==
    ASSUME NEW tris, NEW w, PolyReady(w, tris), NEW poly \in Nat, NEW color \in PolyColors
    PROVE  /\ PolyReady(poly_writer_append(w, poly, color), tris \o <<<<Corners(poly), color>>>>)
           /\ PolySpace(poly_writer_append(w, poly, color)) <= PolySpace(w) + 9
<1> DEFINE o == Opened(w)
           T == tris \o <<<<Corners(poly), color>>>>
           filled == Filled(o, poly, color)
           a == poly_writer_append(w, poly, color)
           u == Corners(poly)
<1>1. w.p \in Seq(Commands) /\ w.d \in Nat /\ w.v \in Seq(Vertices) /\ Len(w.p) \in Nat
    <2>1. w.p \in Seq(Commands) /\ w.d \in Nat /\ w.v \in Seq(Vertices)
        BY DEF PolyReady, PolyEmpty, PolyOpen, PolyWriters
    <2> QED BY <2>1, LenProperties
<1>2. PolyOpen(o, tris) /\ o.v = w.v /\ o.d = w.d /\ Len(o.p) <= Len(w.p) + 1 /\ o.prev_color = w.prev_color
      /\ Len(o.p) \in Nat
    <2>0. o.p \in Seq(Commands) => Len(o.p) \in Nat
        BY LenProperties
    <2>1. CASE PolyEmpty(w, tris)
        <3>1. PolyOpen(o, tris) /\ o.v = w.v /\ o.d = w.d /\ Len(o.p) = Len(w.p) + 1 /\ o.prev_color = w.prev_color
            BY <2>1, PolyOpens
        <3>2. o.p \in Seq(Commands)
            BY <3>1 DEF PolyOpen, PolyWriters
        <3> QED BY <1>1, <2>0, <3>1, <3>2
    <2>2. CASE PolyOpen(w, tris)
        <3>1. w.vtx_cmd # 0
            <4>1. w.vtx_cmd \in 1..Len(w.p)
                BY <2>2 DEF PolyOpen
            <4> QED BY <4>1
        <3>2. o = w
            BY <3>1 DEF Opened
        <3> QED BY <1>1, <2>2, <3>2
    <2> QED BY <2>1, <2>2 DEF PolyReady
<1>3. a = IF Len(filled.v) = POLY_VTX THEN poly_writer_flush(filled) ELSE filled
    <2> HIDE DEF filled, o
    <2> QED BY <1>2, AppendIsFilled DEF o, filled
<1>4. PolyOpen(filled, T) /\ filled.v = w.v \o u /\ filled.d = w.d /\ Len(filled.p) <= Len(o.p) + 2
    <2> HIDE DEF o
    <2>1. FilledOpen(o, poly, color, tris)
        BY <1>2, PolyFilled
    <2> QED BY <1>2, <2>1 DEF FilledOpen
<1> HIDE DEF T, filled, o, a
<1>5. PolySpace(filled) <= PolySpace(w) + 9 /\ PolySpace(filled) \in Nat
    <2>1. u \in Seq(Vertices) /\ Len(u) = 3
        BY CornersOfPoly
    <2> HIDE DEF u
    <2>2. Len(w.v) \in Nat /\ Len(filled.v) = Len(w.v) + 3
        BY <1>1, <1>4, <2>1, ThreeMore
    <2>3. Len(filled.p) \in Nat
        <3>1. filled.p \in Seq(Commands)
            BY <1>4 DEF PolyOpen, PolyWriters
        <3> QED BY <3>1, LenProperties
    <2> DEFINE np == Len(filled.p)
               nv == Len(filled.v)
               ov == Len(w.v)
               op == Len(w.p)
               d == w.d
    <2>4. np \in Nat /\ ov \in Nat /\ op \in Nat /\ d \in Nat /\ nv = ov + 3
        BY <1>1, <2>2, <2>3
    <2>5. np <= op + 3
        <3> DEFINE mid == Len(o.p)
        <3>1. mid \in Nat /\ mid <= op + 1 /\ np <= mid + 2
            BY <1>2, <1>4
        <3> HIDE DEF mid, op, np
        <3> QED BY <2>4, <3>1
    <2>6. PolySpace(filled) = np + d + 2 * nv /\ PolySpace(w) = op + d + 2 * ov
        BY <1>4 DEF PolySpace
    <2> HIDE DEF np, nv, ov, op, d
    <2> QED BY <2>4, <2>5, <2>6
<1>6. CASE Len(filled.v) = POLY_VTX
    <2>1. a = poly_writer_flush(filled)
        BY <1>3, <1>6
    <2>2. /\ PolyEmpty(poly_writer_flush(filled), T)
          /\ Len(poly_writer_flush(filled).p) + poly_writer_flush(filled).d = PolySpace(filled)
          /\ poly_writer_flush(filled).v = <<>>
        BY <1>4, PolyFlushed DEF PolyReady
    <2>3. PolySpace(a) = PolySpace(filled)
        <3>1. Len(a.p) + a.d = PolySpace(filled) /\ a.v = <<>> /\ Len(<<>>) = 0
            BY <2>1, <2>2
        <3> QED BY <1>5, <3>1 DEF PolySpace
    <2> QED BY <1>5, <2>1, <2>2, <2>3 DEF PolyReady, T, a
<1>7. CASE Len(filled.v) # POLY_VTX
    BY <1>3, <1>4, <1>5, <1>7 DEF PolyReady, T, a
<1> QED BY <1>6, <1>7

LineWriters == [p : Seq(Commands), d : Nat, v : Seq(Vertices), vtx_cmd : Nat]
SettledLines(w) == IF w.vtx_cmd # 0 THEN [w.p EXCEPT ![w.vtx_cmd] = <<"vtx", w.v>>] ELSE w.p

LineOpen(w, lines) ==
    /\ w \in LineWriters /\ w.vtx_cmd \in 1..Len(w.p)
    /\ LoadedAt(SettledLines(w), w.vtx_cmd, w.v) /\ Shown(SettledLines(w)).lines = lines
LineEmpty(w, lines) ==
    /\ w \in LineWriters /\ w.v = <<>> /\ w.vtx_cmd = 0 /\ Shown(w.p).lines = lines
LineReady(w, lines) == LineEmpty(w, lines) \/ LineOpen(w, lines)

(* line_writer_flush changes nothing that is drawn, nor the space taken. *)
LEMMA LineFlushed ==
    ASSUME NEW lines, NEW w, LineReady(w, lines)
    PROVE  /\ LineEmpty(line_writer_flush(w), lines)
           /\ PolySpace(line_writer_flush(w)) = PolySpace(w) /\ PolySpace(w) \in Nat
           /\ Len(line_writer_flush(w).p) + line_writer_flush(w).d = PolySpace(w)
<1> DEFINE f == line_writer_flush(w)
           S == SettledLines(w)
           d == w.d + 2 * Len(w.v)
<1>1. w \in LineWriters /\ w.d \in Nat /\ w.v \in Seq(Vertices) /\ w.p \in Seq(Commands) /\ Len(w.v) \in Nat /\ Len(w.p) \in Nat
    <2>1. w \in LineWriters /\ w.d \in Nat /\ w.v \in Seq(Vertices) /\ w.p \in Seq(Commands)
        BY DEF LineReady, LineEmpty, LineOpen, LineWriters
    <2> QED BY <2>1, LenProperties
<1>2. w = [p |-> w.p, d |-> w.d, v |-> w.v, vtx_cmd |-> w.vtx_cmd]
    BY <1>1 DEF LineWriters
<1>3. f = [p |-> S, d |-> d, v |-> <<>>, vtx_cmd |-> 0] /\ S \in Seq(Commands) /\ Len(S) = Len(w.p) /\ Shown(S).lines = lines
    <2>1. CASE LineEmpty(w, lines)
        <3>1. w.v = <<>> /\ w.vtx_cmd = 0 /\ Shown(w.p).lines = lines /\ Len(<<>>) = 0
            BY <2>1 DEF LineEmpty
        <3>2. S = w.p /\ d = w.d
            BY <1>1, <3>1 DEF SettledLines
        <3>3. f = [w EXCEPT !.v = <<>>]
            BY <3>1 DEF line_writer_flush
        <3> HIDE DEF S, d, f
        <3> QED BY <1>1, <1>2, <3>1, <3>2, <3>3
    <2>2. CASE LineOpen(w, lines)
        <3>1. w.vtx_cmd # 0 /\ Shown(S).lines = lines /\ LoadedAt(S, w.vtx_cmd, w.v)
            <4>1. w.vtx_cmd \in 1..Len(w.p)
                BY <2>2 DEF LineOpen
            <4> QED BY <2>2, <4>1 DEF LineOpen
        <3>2. f = [Loaded(w) EXCEPT !.v = <<>>]
            BY <3>1 DEF line_writer_flush
        <3> DEFINE list == [w.p EXCEPT ![w.vtx_cmd] = <<"vtx", w.v>>]
        <3>3. Loaded(w) = [[w EXCEPT !.p = list] EXCEPT !.d = d, !.vtx_cmd = 0]
            BY <1>2 DEF Loaded, At
        <3>4. S = list
            BY <3>1 DEF SettledLines
        <3>4a. Len(S) = Len(w.p)
            <4>1. <<"vtx", w.v>> \in Commands /\ w.vtx_cmd \in 1..Len(w.p)
                BY <1>1, <2>2 DEF Commands, VtxCommands, LineOpen
            <4> DEFINE load == <<"vtx", w.v>>
            <4> HIDE DEF load
            <4>2. Len([w.p EXCEPT ![w.vtx_cmd] = load]) = Len(w.p)
                BY <1>1, <4>1, ExceptSeq DEF load
            <4> QED BY <3>4, <4>2 DEF load
        <3> HIDE DEF list, d, S, f
        <3>5. Loaded(w) = [p |-> list, d |-> d, v |-> w.v, vtx_cmd |-> 0]
            BY <1>2, <3>3
        <3>6. f = [p |-> list, d |-> d, v |-> <<>>, vtx_cmd |-> 0]
            BY <3>2, <3>5
        <3>7. S \in Seq(Commands)
            BY <3>1 DEF LoadedAt
        <3> QED BY <3>1, <3>4, <3>4a, <3>6, <3>7
    <2> QED BY <2>1, <2>2 DEF LineReady
<1>4. d \in Nat /\ <<>> \in Seq(Vertices) /\ Len(<<>>) = 0
    <2> DEFINE m == Len(w.v)
    <2>1. w.d + 2 * m \in Nat
        <3> HIDE DEF m
        <3> QED BY <1>1 DEF m
    <2>2. <<>> \in Seq(Vertices) /\ Len(<<>>) = 0
        BY EmptySeq
    <2> QED BY <2>1, <2>2
<1> HIDE DEF f, S
<1>5. PolySpace(w) = Len(w.p) + d
    BY <1>1 DEF PolySpace
<1> HIDE DEF d
<1>6. f.p = S /\ f.d = d /\ f.v = <<>> /\ f.vtx_cmd = 0 /\ f \in LineWriters
    BY <1>3, <1>4 DEF LineWriters
<1>7. PolySpace(f) = Len(f.p) + f.d
    BY <1>1, <1>3, <1>4, <1>6 DEF PolySpace
<1>8. LineEmpty(f, lines)
    BY <1>3, <1>6 DEF LineEmpty
<1>9. PolySpace(f) = PolySpace(w) /\ Len(f.p) + f.d = PolySpace(w)
    BY <1>3, <1>5, <1>6, <1>7
<1>10. PolySpace(w) \in Nat
    <2> DEFINE m == Len(w.p)
    <2>1. m \in Nat /\ PolySpace(w) = m + d
        BY <1>1, <1>5
    <2> HIDE DEF m
    <2> QED BY <1>4, <2>1
<1> QED BY <1>8, <1>9, <1>10 DEF f

(* A batch of lines is open with the command that loads its vertices.    *)
LEMMA LineOpens ==
    ASSUME NEW lines, NEW w, LineReady(w, lines)
    PROVE  /\ LineOpen(Opened(w), lines) /\ Opened(w).v = w.v /\ Opened(w).d = w.d
           /\ Len(Opened(w).p) <= Len(w.p) + 1 /\ Len(w.p) \in Nat
<1> DEFINE m == Len(w.p)
           list == Append(w.p, <<"vtx", <<>>>>)
           o == Opened(w)
<1>1. w \in LineWriters /\ w.p \in Seq(Commands) /\ m \in Nat
    <2>1. w \in LineWriters /\ w.p \in Seq(Commands)
        BY DEF LineReady, LineEmpty, LineOpen, LineWriters
    <2> QED BY <2>1, LenProperties
<1>2. CASE LineOpen(w, lines)
    <2>1. w.vtx_cmd # 0
        <3>1. w.vtx_cmd \in 1..Len(w.p)
            BY <1>2 DEF LineOpen
        <3> QED BY <3>1
    <2>2. o = w
        BY <2>1 DEF Opened
    <2> QED BY <1>1, <1>2, <2>2
<1>3. CASE LineEmpty(w, lines)
    <2>1. w.v = <<>> /\ w.vtx_cmd = 0 /\ Shown(w.p).lines = lines
        BY <1>3 DEF LineEmpty
    <2>2. <<"vtx", <<>>>> \in Commands /\ <<>> \in Seq(Vertices)
        <3> DEFINE e == <<>>
        <3>1. e \in Seq(Vertices)
            BY EmptySeq
        <3> HIDE DEF e
        <3>2. <<"vtx", e>> \in Commands
            BY <3>1 DEF Commands, VtxCommands
        <3> QED BY <3>1, <3>2 DEF e
    <2>3. list \in Seq(Commands) /\ Len(list) = m + 1 /\ list[m + 1] = <<"vtx", <<>>>>
        BY <1>1, <2>2, AppendProperties
    <2>4. Shown(list) = Executed(Shown(w.p), <<"vtx", <<>>>>) /\ IsRcp(Shown(w.p))
        BY <1>1, <2>2, ShownOfAppend
    <2>5. Shown(list).lines = lines
        <3> DEFINE r == Shown(w.p)
                   e == <<>>
        <3>1. IsRcp(r) /\ r.lines = lines /\ Shown(list) = Executed(r, <<"vtx", e>>)
            BY <2>1, <2>4
        <3> HIDE DEF r, e, list
        <3>2. Shown(list) = [loaded |-> e, color |-> r.color, tris |-> r.tris, lines |-> r.lines]
            BY <3>1, ExecutedVtx
        <3> QED BY <3>1, <3>2
    <2>6. o = [p |-> list, d |-> w.d, v |-> <<>>, vtx_cmd |-> m + 1]
        <3>1. w = [p |-> w.p, d |-> w.d, v |-> w.v, vtx_cmd |-> w.vtx_cmd]
            BY <1>1 DEF LineWriters
        <3>2. o = [[w EXCEPT !.p = list] EXCEPT !.vtx_cmd = m + 1]
            BY <2>1, <3>1 DEF Opened, Emit
        <3> HIDE DEF o, list, m
        <3> QED BY <2>1, <3>1, <3>2
    <2> HIDE DEF o, list, m
    <2>7. o \in LineWriters
        BY <1>1, <2>2, <2>3, <2>6 DEF LineWriters
    <2>8. SettledLines(o) = list
        <3>1. m + 1 # 0
            BY <1>1
        <3>2. SettledLines(o) = [list EXCEPT ![m + 1] = <<"vtx", <<>>>>]
            BY <2>6, <3>1 DEF SettledLines
        <3>3. list = [k \in DOMAIN list |-> list[k]]
            BY <2>3
        <3> QED BY <2>3, <3>2, <3>3
    <2>9. LoadedAt(list, m + 1, <<>>)
        <3>1. m + 1 \in 1..(m + 1) /\ (m + 1 + 1)..(m + 1) = {}
            BY <1>1
        <3> QED BY <2>3, <3>1 DEF LoadedAt
    <2>10. m + 1 \in 1..(m + 1) /\ m + 1 <= m + 1
        BY <1>1
    <2>11. o.p = list /\ o.d = w.d /\ o.v = <<>> /\ o.vtx_cmd = m + 1
        BY <2>6
    <2>12. LineOpen(o, lines)
        BY <2>3, <2>5, <2>7, <2>8, <2>9, <2>10, <2>11 DEF LineOpen
    <2> QED BY <1>1, <2>1, <2>3, <2>10, <2>11, <2>12 DEF o, m
<1> QED BY <1>2, <1>3 DEF LineReady

LinesOf(w, i, j, k) == {{w[i[x] + 1], w[j[x] + 1]} : x \in 1..k}
LinesIn(i, j, k) == [x \in 1..k |-> <<"line", i[x], j[x]>>]
LinesDrawn(list, c, w, lines) == LoadedAt(list, c, w) /\ Shown(list).loaded = w /\ Shown(list).lines = lines

(* A list with one more line draws one more.                             *)
LEMMA LineDrawn ==
    ASSUME NEW w, NEW list, NEW c, NEW lines, LinesDrawn(list, c, w, lines),
           NEW a \in Nat, NEW b \in Nat, a < Len(w), b < Len(w)
    PROVE  LinesDrawn(Append(list, <<"line", a, b>>), c, w, lines \cup {{w[a + 1], w[b + 1]}})
<1> DEFINE line == <<"line", a, b>>
<1>1. line \in Commands /\ NeedsOf(line, Len(w))
    BY DEF Commands, LineCommands, NeedsOf
<1> HIDE DEF line
<1>2. list \in Seq(Commands) /\ LoadedAt(list, c, w)
    BY DEF LoadedAt, LinesDrawn
<1> DEFINE longer == Append(list, line)
           r == Shown(list)
<1>3. LoadedAt(longer, c, w)
    BY <1>1, <1>2, LoadedAndAppended
<1>4. Shown(longer) = Executed(r, line) /\ IsRcp(r)
    BY <1>1, <1>2, ShownOfAppend
<1>5. r.loaded = w /\ r.lines = lines
    BY DEF LinesDrawn
<1> HIDE DEF r, longer
<1> DEFINE more == r.lines \cup {{r.loaded[a + 1], r.loaded[b + 1]}}
<1>6. Shown(longer) = [loaded |-> r.loaded, color |-> r.color, tris |-> r.tris, lines |-> more]
    BY <1>4, ExecutedLine DEF line
<1> HIDE DEF more
<1>7. Shown(longer).loaded = w /\ Shown(longer).lines = more
    BY <1>5, <1>6
<1> QED BY <1>3, <1>5, <1>7 DEF LinesDrawn, longer, line, more

(* The line commands of two lists of indices.                            *)
LEMMA LinesInType ==
    ASSUME NEW k \in Nat, NEW i, NEW j, \A x \in 1..k : i[x] \in Nat /\ j[x] \in Nat
    PROVE  /\ LinesIn(i, j, k) \in Seq(Commands) /\ Len(LinesIn(i, j, k)) = k
           /\ \A x \in 1..k : LinesIn(i, j, k)[x] = <<"line", i[x], j[x]>>
<1> DEFINE s == LinesIn(i, j, k)
<1>1. s = [x \in 1..k |-> s[x]] /\ \A x \in 1..k : s[x] = <<"line", i[x], j[x]>>
    BY DEF LinesIn
<1>2. \A x \in 1..k : s[x] \in Commands
    <2> SUFFICES ASSUME NEW x \in 1..k PROVE s[x] \in Commands
        OBVIOUS
    <2> DEFINE a == i[x]
               b == j[x]
    <2>1. a \in Nat /\ b \in Nat /\ s[x] = <<"line", a, b>>
        BY <1>1
    <2> HIDE DEF a, b, s
    <2> QED BY <2>1 DEF Commands, LineCommands
<1> HIDE DEF s
<1>3. s \in Seq(Commands) /\ Len(s) = k
    BY <1>1, <1>2, IsASeq
<1> QED BY <1>1, <1>3 DEF s

(* A list with more lines draws each of them, one after the other.       *)
LEMMA LinesDrawnOneByOne ==
    ASSUME NEW w, NEW list, NEW c, NEW lines, LinesDrawn(list, c, w, lines),
           NEW m \in Nat, NEW i, NEW j, \A x \in 1..m : i[x] \in Nat /\ j[x] \in Nat /\ i[x] < Len(w) /\ j[x] < Len(w)
    PROVE  LinesDrawn(list \o LinesIn(i, j, m), c, w, lines \cup LinesOf(w, i, j, m))
<1> DEFINE L(k) == list \o LinesIn(i, j, k)
           B == {k \in 0..m : LinesDrawn(L(k), c, w, lines \cup LinesOf(w, i, j, k))}
           n == Len(list)
<1>1. list \in Seq(Commands) /\ n \in Nat
    BY LenProperties DEF LinesDrawn, LoadedAt
<1>2. ASSUME NEW k \in 0..m
      PROVE  /\ k \in Nat /\ L(k) \in Seq(Commands) /\ Len(L(k)) = n + k
             /\ \A x \in 1..n : L(k)[x] = list[x]
             /\ \A x \in 1..k : L(k)[n + x] = <<"line", i[x], j[x]>>
    <2> DEFINE s == LinesIn(i, j, k)
               t == list \o s
    <2>1. k \in Nat /\ \A x \in 1..k : x \in 1..m
        OBVIOUS
    <2>2. s \in Seq(Commands) /\ Len(s) = k /\ \A x \in 1..k : s[x] = <<"line", i[x], j[x]>>
        BY <2>1, LinesInType
    <2> HIDE DEF s, n
    <2>3. t \in Seq(Commands) /\ Len(t) = n + k
          /\ \A x \in 1..(n + k) : t[x] = IF x <= n THEN list[x] ELSE s[x - n]
        BY <1>1, <2>2, ConcatProperties DEF n
    <2> HIDE DEF t
    <2>4. /\ \A x \in 1..n : x \in 1..(n + k) /\ x <= n
          /\ \A x \in 1..k : n + x \in 1..(n + k) /\ ~(n + x <= n) /\ (n + x) - n = x
        BY <1>1, <2>1
    <2>5. (\A x \in 1..n : t[x] = list[x]) /\ (\A x \in 1..k : t[n + x] = <<"line", i[x], j[x]>>)
        BY <2>2, <2>3, <2>4
    <2> QED BY <2>1, <2>3, <2>5 DEF t, s, n
<1>3. 0 \in B
    <2>1. 0 \in 0..m /\ 1..0 = {} /\ n + 0 = n
        BY <1>1
    <2>2. L(0) \in Seq(Commands) /\ Len(L(0)) = n + 0 /\ \A x \in 1..n : L(0)[x] = list[x]
        BY <1>2, <2>1
    <2> DEFINE t == L(0)
    <2> HIDE DEF t
    <2>3. t = list
        BY <1>1, <2>1, <2>2, SeqEqual DEF t
    <2>4. LinesOf(w, i, j, 0) = {}
        BY <2>1 DEF LinesOf
    <2> QED BY <2>1, <2>3, <2>4 DEF t
<1>4. ASSUME NEW k \in 1..m, k - 1 \in B PROVE k \in B
    <2>1. k \in 0..m /\ k - 1 \in 0..m /\ k \in 1..k /\ n + (k - 1) + 1 = n + k /\ n + k \in Nat /\ n + (k - 1) \in Nat
          /\ (k - 1) + n \in Nat
        BY <1>1
    <2> DEFINE short == L(k - 1)
               long == L(k)
               line == <<"line", i[k], j[k]>>
               again == Append(short, line)
    <2>2. LinesDrawn(short, c, w, lines \cup LinesOf(w, i, j, k - 1))
        BY <1>4
    <2>3. i[k] \in Nat /\ j[k] \in Nat /\ i[k] < Len(w) /\ j[k] < Len(w)
        OBVIOUS
    <2>4. /\ short \in Seq(Commands) /\ Len(short) = n + (k - 1)
          /\ \A x \in 1..n : short[x] = list[x]
          /\ \A x \in 1..(k - 1) : short[n + x] = <<"line", i[x], j[x]>>
        BY <1>2, <2>1
    <2>5. /\ long \in Seq(Commands) /\ Len(long) = n + k
          /\ \A x \in 1..n : long[x] = list[x]
          /\ \A x \in 1..k : long[n + x] = <<"line", i[x], j[x]>>
        BY <1>2, <2>1
    <2> HIDE DEF short, long
    <2>6. line \in Commands
        BY <2>3 DEF Commands, LineCommands
    <2>7. again \in Seq(Commands) /\ Len(again) = n + k /\ again[n + k] = line
          /\ \A x \in 1..(n + (k - 1)) : again[x] = short[x]
        <3> HIDE DEF line
        <3>1. again \in Seq(Commands) /\ Len(again) = Len(short) + 1 /\ again[Len(short) + 1] = line
              /\ \A x \in 1..Len(short) : again[x] = short[x]
            BY <2>4, <2>6, AppendProperties
        <3> HIDE DEF again, n
        <3> QED BY <2>1, <2>4, <3>1
    <2> HIDE DEF again
    <2>8. ASSUME NEW x \in 1..(n + k) PROVE again[x] = long[x]
        <3> HIDE DEF n
        <3>1. \/ x = n + k
              \/ x \in 1..n /\ x \in 1..(n + (k - 1))
              \/ x \in 1..(n + (k - 1)) /\ x - n \in 1..(k - 1) /\ x - n \in 1..k /\ n + (x - n) = x
            BY <1>1
        <3> QED BY <2>1, <2>4, <2>5, <2>7, <3>1, ZenonT(30)
    <2>9. long = again
        <3> HIDE DEF n
        <3> QED BY <2>5, <2>7, <2>8, SeqEqual
    <2>10. LinesDrawn(again, c, w, (lines \cup LinesOf(w, i, j, k - 1)) \cup {{w[i[k] + 1], w[j[k] + 1]}})
        BY <2>2, <2>3, LineDrawn DEF again
    <2>11. (lines \cup LinesOf(w, i, j, k - 1)) \cup {{w[i[k] + 1], w[j[k] + 1]}} = lines \cup LinesOf(w, i, j, k)
        <3>1. 1..k = 1..(k - 1) \cup {k}
            OBVIOUS
        <3> QED BY <3>1 DEF LinesOf
    <2> QED BY <2>1, <2>9, <2>10, <2>11 DEF long
<1> HIDE DEF B, L
<1>5. \A k \in (0 + 1)..m : k - 1 \in B => k \in B
    BY <1>4
<1>6. m \in 0..m
    OBVIOUS
<1>7. m \in B
    BY <1>3, <1>5, <1>6, EveryPlace
<1> QED BY <1>7 DEF B, L

Outline(poly) == {{<<poly, x>>, <<poly, y>>} : x \in 1..3, y \in 1..3}
FirstOf(b) == [k \in 1..9 |-> b + ((k - 1) \div 3)]
SecondOf(b) == [k \in 1..9 |-> b + ((k - 1) % 3)]

(* Nine indices stand for three times three.                             *)
LEMMA NineLines ==
    /\ \A k \in 1..9 : (k - 1) \div 3 \in 0..2 /\ (k - 1) % 3 \in 0..2
    /\ \A x, y \in 0..2 : \E k \in 1..9 : (k - 1) \div 3 = x /\ (k - 1) % 3 = y
<1>1. \A k \in 1..9 : (k - 1) \div 3 \in 0..2 /\ (k - 1) % 3 \in 0..2
    OBVIOUS
<1>2. ASSUME NEW x \in 0..2, NEW y \in 0..2
      PROVE  \E k \in 1..9 : (k - 1) \div 3 = x /\ (k - 1) % 3 = y
    <2> DEFINE k == 3 * x + y + 1
    <2>1. k \in 1..9 /\ k - 1 = 3 * x + y
        OBVIOUS
    <2>2. (3 * x + y) \div 3 = x /\ (3 * x + y) % 3 = y
        OBVIOUS
    <2> HIDE DEF k
    <2>3. (k - 1) \div 3 = x /\ (k - 1) % 3 = y
        BY <2>1, <2>2
    <2> QED BY <2>1, <2>3
<1> QED BY <1>1, <1>2

IsOutline(w, b, poly) ==
    /\ \A k \in 1..9 : /\ FirstOf(b)[k] \in Nat /\ FirstOf(b)[k] < Len(w)
                       /\ SecondOf(b)[k] \in Nat /\ SecondOf(b)[k] < Len(w)
    /\ LinesOf(w, FirstOf(b), SecondOf(b), 9) = Outline(poly)

(* The nine lines of a polygon's corners are its outline. *)
LEMMA OutlineDrawn ==
    ASSUME NEW v \in Seq(Vertices), NEW poly \in Nat, NEW w, w = v \o Corners(poly), NEW b, b = Len(v)
    PROVE  IsOutline(w, b, poly)
<1> DEFINE u == Corners(poly)
           i == FirstOf(b)
           j == SecondOf(b)
<1>1. b \in Nat /\ Len(w) = b + 3 /\ \A k \in 1..3 : w[b + k] = <<poly, k>>
    <2>1. u \in Seq(Vertices) /\ Len(u) = 3 /\ \A k \in 1..3 : u[k] = <<poly, k>>
        BY CornersOfPoly
    <2> HIDE DEF u
    <2>2. w = v \o u
        BY DEF u
    <2>3. Len(v) \in Nat /\ Len(v \o u) = Len(v) + 3 /\ \A k \in 1..3 : (v \o u)[Len(v) + k] = u[k]
        BY <2>1, ThreeMore
    <2> QED BY <2>1, <2>2, <2>3
<1>2. \A x \in 0..2 : x + 1 \in 1..3 /\ b + x \in Nat /\ b + x < b + 3 /\ b + x + 1 = b + (x + 1)
    BY <1>1
<1>3. \A k \in 1..9 : i[k] = b + ((k - 1) \div 3) /\ j[k] = b + ((k - 1) % 3)
    BY DEF FirstOf, SecondOf
<1> HIDE DEF i, j
<1>4. \A k \in 1..9 : i[k] \in Nat /\ i[k] < Len(w) /\ j[k] \in Nat /\ j[k] < Len(w)
    BY <1>1, <1>2, <1>3, NineLines
<1>5. ASSUME NEW k \in 1..9
      PROVE  /\ (k - 1) \div 3 \in 0..2 /\ (k - 1) % 3 \in 0..2
             /\ w[i[k] + 1] = <<poly, ((k - 1) \div 3) + 1>> /\ w[j[k] + 1] = <<poly, ((k - 1) % 3) + 1>>
    <2> DEFINE x == (k - 1) \div 3
               y == (k - 1) % 3
    <2>1. x \in 0..2 /\ y \in 0..2 /\ i[k] = b + x /\ j[k] = b + y
        BY <1>3, NineLines
    <2> HIDE DEF x, y
    <2>2. w[i[k] + 1] = <<poly, x + 1>> /\ w[j[k] + 1] = <<poly, y + 1>>
        BY <1>1, <1>2, <2>1
    <2> QED BY <2>1, <2>2 DEF x, y
<1>6. LinesOf(w, i, j, 9) \subseteq Outline(poly)
    <2> SUFFICES ASSUME NEW k \in 1..9 PROVE {w[i[k] + 1], w[j[k] + 1]} \in Outline(poly)
        BY DEF LinesOf
    <2> DEFINE x == ((k - 1) \div 3) + 1
               y == ((k - 1) % 3) + 1
    <2>1. x \in 1..3 /\ y \in 1..3 /\ w[i[k] + 1] = <<poly, x>> /\ w[j[k] + 1] = <<poly, y>>
        BY <1>2, <1>5
    <2> HIDE DEF x, y
    <2> QED BY <2>1 DEF Outline
<1>7. Outline(poly) \subseteq LinesOf(w, i, j, 9)
    <2> SUFFICES ASSUME NEW line \in Outline(poly) PROVE line \in LinesOf(w, i, j, 9)
        OBVIOUS
    <2>0. PICK x \in 1..3, y \in 1..3 : line = {<<poly, x>>, <<poly, y>>}
        BY DEF Outline
    <2>1. x - 1 \in 0..2 /\ y - 1 \in 0..2 /\ (x - 1) + 1 = x /\ (y - 1) + 1 = y
        OBVIOUS
    <2>2. PICK k \in 1..9 : (k - 1) \div 3 = x - 1 /\ (k - 1) % 3 = y - 1
        BY <2>1, NineLines
    <2>3. w[i[k] + 1] = <<poly, x>> /\ w[j[k] + 1] = <<poly, y>>
        BY <1>5, <2>1, <2>2
    <2>4. {w[i[k] + 1], w[j[k] + 1]} \in LinesOf(w, i, j, 9)
        BY DEF LinesOf
    <2> QED BY <2>0, <2>3, <2>4
<1> QED BY <1>4, <1>6, <1>7 DEF IsOutline, i, j

LineFilled(o, poly) ==
    [p |-> o.p \o LinesIn(FirstOf(Len(o.v)), SecondOf(Len(o.v)), 9), d |-> o.d,
     v |-> o.v \o Corners(poly), vtx_cmd |-> o.vtx_cmd]

(* line_writer_append adds nine lines to an open batch with room.        *)
LEMMA LineAppendIsFilled ==
    ASSUME NEW w, NEW poly \in Nat, NEW room,
           room = (IF Len(w.v) + 3 > LINE_VTX THEN line_writer_flush(w) ELSE w),
           Opened(room) \in LineWriters, Opened(room).v = room.v
    PROVE  line_writer_append(w, Corners(poly)) = LineFilled(Opened(room), poly)
<1> DEFINE u == Corners(poly)
           n == Len(u)
           o == Opened(room)
           b == Len(room.v)
           s == [k \in 1..n * n |-> <<"line", b + ((k - 1) \div n), b + ((k - 1) % n)>>]
           q == LinesIn(FirstOf(b), SecondOf(b), 9)
<1>1. n = 3 /\ n * n = 9
    <2>1. n = 3
        BY CornersOfPoly
    <2> HIDE DEF n
    <2> QED BY <2>1
<1>2. line_writer_append(w, u) = [o EXCEPT !.p = @ \o s, !.v = @ \o u]
    BY <1>1 DEF line_writer_append
<1>3. s = q
    <2>1. \A k \in 1..9 : FirstOf(b)[k] = b + ((k - 1) \div 3) /\ SecondOf(b)[k] = b + ((k - 1) % 3)
        BY DEF FirstOf, SecondOf
    <2>2. s = [k \in 1..9 |-> <<"line", b + ((k - 1) \div 3), b + ((k - 1) % 3)>>]
        BY <1>1
    <2> HIDE DEF s, b
    <2> QED BY <2>1, <2>2 DEF LinesIn
<1> HIDE DEF s, u, q, o
<1>4. o = [p |-> o.p, d |-> o.d, v |-> o.v, vtx_cmd |-> o.vtx_cmd] /\ o.v = room.v
    BY DEF o, LineWriters
<1> DEFINE list == o.p \o q
           vertices == o.v \o u
<1>5. line_writer_append(w, u) = [o EXCEPT !.p = list, !.v = vertices]
    BY <1>2, <1>3
<1> HIDE DEF list, vertices
<1>6. line_writer_append(w, u) = [p |-> list, d |-> o.d, v |-> vertices, vtx_cmd |-> o.vtx_cmd]
    BY <1>4, <1>5
<1>7. LineFilled(o, poly) = [p |-> list, d |-> o.d, v |-> vertices, vtx_cmd |-> o.vtx_cmd]
    BY <1>4 DEF LineFilled, list, vertices, q, u
<1> QED BY <1>6, <1>7 DEF o, u

(* line_writer_append draws one more outline, in sixteen words at most.  *)
LEMMA LineAppended ==
    ASSUME NEW lines, NEW w, LineReady(w, lines), NEW poly \in Nat
    PROVE  /\ LineReady(line_writer_append(w, Corners(poly)), lines \cup Outline(poly))
           /\ PolySpace(line_writer_append(w, Corners(poly))) <= PolySpace(w) + 16
<1> DEFINE room == IF Len(w.v) + 3 > LINE_VTX THEN line_writer_flush(w) ELSE w
           o == Opened(room)
           v == o.v
           p == o.p
           c == o.vtx_cmd
           b == Len(v)
           n == Len(p)
           u == Corners(poly)
           vertices == v \o u
           load == <<"vtx", vertices>>
           S == SettledLines(o)
           G == [S EXCEPT ![c] = load]
           nine == 9
           s == LinesIn(FirstOf(b), SecondOf(b), nine)
           list == p \o s
           settled == [list EXCEPT ![c] = load]
           target == G \o s
           N == LineFilled(o, poly)
<1>1. LineReady(room, lines) /\ PolySpace(room) = PolySpace(w) /\ PolySpace(room) \in Nat
    BY LineFlushed DEF LineReady
<1> HIDE DEF room
<1>2. /\ LineOpen(o, lines) /\ o.v = room.v /\ o.d = room.d
      /\ Len(o.p) <= Len(room.p) + 1 /\ Len(room.p) \in Nat
    BY <1>1, LineOpens
<1>3. /\ o \in LineWriters /\ p \in Seq(Commands) /\ v \in Seq(Vertices) /\ o.d \in Nat /\ c \in 1..n
      /\ LoadedAt(S, c, v) /\ Shown(S).lines = lines
    BY <1>2 DEF LineOpen, LineWriters
<1>4. line_writer_append(w, u) = N
    <2> HIDE DEF N
    <2> QED BY <1>2, <1>3, LineAppendIsFilled DEF N, room
<1>5. b \in Nat /\ n \in Nat /\ u \in Seq(Vertices) /\ Len(u) = 3 /\ vertices \in Seq(Vertices) /\ Len(vertices) = b + 3
    <2>1. u \in Seq(Vertices) /\ Len(u) = 3
        BY CornersOfPoly
    <2> HIDE DEF u
    <2>2. vertices \in Seq(Vertices) /\ b \in Nat /\ Len(vertices) = b + 3
        BY <1>3, <2>1, ThreeMore
    <2> QED BY <1>3, <2>1, <2>2, LenProperties
<1>6. /\ \A k \in 1..nine : /\ FirstOf(b)[k] \in Nat /\ FirstOf(b)[k] < Len(vertices)
                            /\ SecondOf(b)[k] \in Nat /\ SecondOf(b)[k] < Len(vertices)
      /\ LinesOf(vertices, FirstOf(b), SecondOf(b), nine) = Outline(poly)
    <2>1. vertices = v \o Corners(poly) /\ b = Len(v)
        BY DEF vertices, u
    <2> HIDE DEF v, vertices, b
    <2>2. IsOutline(vertices, b, poly)
        BY <1>3, <2>1, OutlineDrawn
    <2> QED BY <2>2 DEF IsOutline, nine
<1>7. nine \in Nat
    OBVIOUS
<1> HIDE DEF nine, u, N, vertices, b
<1>8. s \in Seq(Commands) /\ Len(s) = nine
    BY <1>6, <1>7, LinesInType
<1>9. N = [p |-> list, d |-> o.d, v |-> vertices, vtx_cmd |-> c]
    BY DEF N, LineFilled, b, vertices, u, nine
<1>10. load \in Commands
    BY <1>5 DEF Commands, VtxCommands
<1> HIDE DEF s, load
<1>11. list \in Seq(Commands) /\ Len(list) = n + nine
       /\ \A k \in 1..(n + nine) : list[k] = IF k <= n THEN p[k] ELSE s[k - n]
    BY <1>3, <1>8, ConcatProperties
<1>12. S \in Seq(Commands) /\ Len(S) = n /\ \A k \in 1..n : k # c => S[k] = p[k]
    <2>1. S = [p EXCEPT ![c] = <<"vtx", v>>]
        <3>1. c # 0
            BY <1>3
        <3> QED BY <3>1 DEF SettledLines
    <2> DEFINE old == <<"vtx", v>>
               q == [p EXCEPT ![c] = old]
    <2>2. old \in Commands /\ c \in 1..Len(p) /\ p \in Seq(Commands)
        BY <1>3 DEF Commands, VtxCommands
    <2> HIDE DEF old, p, c, n, S
    <2>3. q \in Seq(Commands) /\ Len(q) = Len(p) /\ \A k \in 1..Len(p) : q[k] = IF k = c THEN old ELSE p[k]
        BY <2>2, ExceptSeq
    <2>4. S = q
        BY <2>1 DEF old
    <2> HIDE DEF q
    <2> QED BY <2>3, <2>4 DEF n
<1> HIDE DEF S, list
<1>13. G \in Seq(Commands) /\ Len(G) = n /\ \A k \in 1..n : G[k] = IF k = c THEN load ELSE p[k]
    <2>1. c \in 1..Len(S)
        BY <1>3, <1>12
    <2> HIDE DEF c
    <2>2. G \in Seq(Commands) /\ Len(G) = Len(S) /\ \A k \in 1..Len(S) : G[k] = IF k = c THEN load ELSE S[k]
        BY <1>10, <1>12, <2>1, ExceptSeq
    <2> HIDE DEF G
    <2> QED BY <1>12, <2>2
<1>14. LinesDrawn(G, c, vertices, lines)
    <2> DEFINE h == [S EXCEPT ![c] = <<"vtx", v \o u>>]
    <2>1. G = h
        BY DEF load, vertices
    <2> HIDE DEF c, v
    <2>2. LoadedAt(h, c, v \o u) /\ Shown(h) = Loading(Shown(S), v \o u)
        BY <1>3, <1>5, LoadedWithMore, ShownWithMore
    <2> HIDE DEF h, G
    <2>3. LoadedAt(G, c, vertices) /\ Shown(G) = Loading(Shown(S), vertices)
        BY <2>1, <2>2 DEF vertices
    <2> QED BY <1>3, <2>3 DEF LinesDrawn, Loading
<1> HIDE DEF G
<1>15. LinesDrawn(target, c, vertices, lines \cup Outline(poly))
    <2> DEFINE i == FirstOf(b)
               j == SecondOf(b)
    <2>1. \A k \in 1..nine : i[k] \in Nat /\ j[k] \in Nat /\ i[k] < Len(vertices) /\ j[k] < Len(vertices)
        BY <1>6
    <2>2. LinesOf(vertices, i, j, nine) = Outline(poly) /\ target = G \o LinesIn(i, j, nine)
        BY <1>6 DEF s
    <2> HIDE DEF i, j, target, c
    <2>3. LinesDrawn(G \o LinesIn(i, j, nine), c, vertices, lines \cup LinesOf(vertices, i, j, nine))
        BY <1>7, <1>14, <2>1, LinesDrawnOneByOne
    <2> QED BY <2>2, <2>3
<1>16. target \in Seq(Commands) /\ Len(target) = n + nine
       /\ \A k \in 1..(n + nine) : target[k] = IF k <= n THEN G[k] ELSE s[k - n]
    <2>1. target \in Seq(Commands) /\ Len(target) = Len(G) + Len(s)
          /\ \A k \in 1..(Len(G) + Len(s)) : target[k] = IF k <= Len(G) THEN G[k] ELSE s[k - Len(G)]
        BY <1>8, <1>13, ConcatProperties, ZenonT(30)
    <2> HIDE DEF target
    <2> QED BY <1>8, <1>13, <2>1
<1> HIDE DEF target
<1>17. c \in 1..(n + nine) /\ n + nine \in Nat /\ c <= n
    <2> HIDE DEF c, n
    <2> QED BY <1>3, <1>5, <1>7
<1>18. settled \in Seq(Commands) /\ Len(settled) = n + nine
       /\ \A k \in 1..(n + nine) : settled[k] = IF k = c THEN load ELSE list[k]
    <2>1. c \in 1..Len(list)
        BY <1>11, <1>17
    <2> HIDE DEF c
    <2>2. settled \in Seq(Commands) /\ Len(settled) = Len(list) /\ \A k \in 1..Len(list) : settled[k] = IF k = c THEN load ELSE list[k]
        BY <1>10, <1>11, <2>1, ExceptSeq
    <2> HIDE DEF settled, n
    <2> QED BY <1>11, <2>2
<1>19. SettledLines(N) = settled
    <2>1. N.p = list /\ N.v = vertices /\ N.vtx_cmd = c /\ c # 0
        BY <1>9, <1>17
    <2> QED BY <2>1 DEF SettledLines, load
<1> HIDE DEF settled
<1>20. settled = target
    <2>1. ASSUME NEW k \in 1..(n + nine) PROVE settled[k] = target[k]
        <3> HIDE DEF n, c, p
        <3>1. k \in 1..n \/ (~(k <= n) /\ k # c)
            BY <1>5, <1>7, <1>17
        <3>2. k \in 1..n => k <= n
            BY <1>5
        <3> QED BY <1>11, <1>13, <1>16, <1>18, <3>1, <3>2
    <2> HIDE DEF n
    <2> QED BY <1>16, <1>18, <2>1, SeqEqual
<1>21. LineOpen(N, lines \cup Outline(poly))
    <2>1. N \in LineWriters
        <3>1. c \in Nat
            BY <1>17
        <3> HIDE DEF c
        <3> QED BY <1>3, <1>5, <1>9, <1>11, <3>1 DEF LineWriters
    <2>2. N.p = list /\ N.v = vertices /\ N.vtx_cmd = c
        BY <1>9
    <2> HIDE DEF c, n
    <2> QED BY <1>11, <1>15, <1>17, <1>19, <1>20, <2>1, <2>2 DEF LineOpen, LinesDrawn
<1>22. PolySpace(N) <= PolySpace(w) + 16
    <2> DEFINE m == Len(room.p)
               d == o.d
    <2>1. N.p = list /\ N.v = vertices /\ N.d = d
        BY <1>9
    <2>2. PolySpace(N) = (n + nine) + d + 2 * (b + 3)
        BY <1>5, <1>11, <2>1 DEF PolySpace
    <2>3. PolySpace(w) = m + d + 2 * b /\ m \in Nat /\ n <= m + 1 /\ d \in Nat
        BY <1>1, <1>2, <1>3 DEF PolySpace, b
    <2> HIDE DEF m, d, n
    <2> QED BY <1>5, <2>2, <2>3 DEF nine
<1> QED BY <1>4, <1>21, <1>22 DEF LineReady, u

(* What the code skips, by a list of types and the setting. *)
SkippedIf(red, type) == red /\ Tests(type) = {}
PartsOf(r, red) == [k \in DOMAIN r |-> IF SkippedIf(red, r[k]) THEN <<>> ELSE <<k>>]
DrawnOf(r, red) == FlattenSeq(PartsOf(r, red))
TrisOf(r, red) == [k \in DOMAIN DrawnOf(r, red) |-> <<Corners(DrawnOf(r, red)[k]), Color(r[DrawnOf(r, red)[k]])>>]
OutlinesOf(r, red) ==
    {{<<poly, a>>, <<poly, b>>} : poly \in Range(DrawnOf(r, red)), a \in 1..3, b \in 1..3}
CountOf(r, red) == IF ~red THEN Len(r) ELSE Cardinality({k \in DOMAIN r : r[k] \cap Featured # {}})

(* calc_poly_cnt counts what do_poly_list has a colour for.              *)
LEMMA FeaturedTests ==
    ASSUME NEW type
    PROVE  Tests(type) = {} <=> type \cap Featured = {}
<1>1. /\ DOMAIN Colors = 1..6
      /\ Colors[1][1] = {"hookshot"} /\ Colors[2][1] = {"interaction"} /\ Colors[3][1] = {"special_c"}
      /\ Colors[4][1] = {"exit", "special_5"} /\ Colors[5][1] = {"behavior", "wall_damage"}
      /\ Colors[6][1] = {"terrain"}
    BY DEF Colors
<1>2. Featured = Colors[1][1] \cup Colors[2][1] \cup Colors[3][1] \cup Colors[4][1] \cup Colors[5][1] \cup Colors[6][1]
    BY <1>1 DEF Featured
<1>3. 1 \in 1..6 /\ 2 \in 1..6 /\ 3 \in 1..6 /\ 4 \in 1..6 /\ 5 \in 1..6 /\ 6 \in 1..6
      /\ \A k \in 1..6 : k = 1 \/ k = 2 \/ k = 3 \/ k = 4 \/ k = 5 \/ k = 6
    OBVIOUS
<1> DEFINE F(k) == Colors[k][1]
<1>4. Tests(type) = {k \in 1..6 : type \cap F(k) # {}}
    BY <1>1 DEF Tests
<1>5. Featured = F(1) \cup F(2) \cup F(3) \cup F(4) \cup F(5) \cup F(6)
    BY <1>2
<1> HIDE DEF F
<1>6. ASSUME Tests(type) = {} PROVE type \cap Featured = {}
    <2>1. \A k \in 1..6 : type \cap F(k) = {}
        BY <1>4, <1>6
    <2> QED BY <1>3, <1>5, <2>1
<1>7. ASSUME type \cap Featured = {} PROVE Tests(type) = {}
    <2>1. \A k \in 1..6 : F(k) \subseteq Featured
        BY <1>3, <1>5
    <2>2. \A k \in 1..6 : type \cap F(k) = {}
        BY <1>7, <2>1
    <2> QED BY <1>4, <2>2
<1> QED BY <1>6, <1>7

(* What each polygon adds to those that are drawn.                       *)
LEMMA PartsType ==
    ASSUME NEW r \in Seq(PolyTypes), NEW red
    PROVE  PartsOf(r, red) \in Seq(Seq(Nat)) /\ Len(PartsOf(r, red)) = Len(r)
           /\ \A k \in 1..Len(r) : PartsOf(r, red)[k] = IF SkippedIf(red, r[k]) THEN <<>> ELSE <<k>>
<1> DEFINE n == Len(r)
           f == PartsOf(r, red)
<1>1. n \in Nat /\ DOMAIN r = 1..n
    BY LenProperties
<1>2. f = [k \in 1..n |-> f[k]] /\ \A k \in 1..n : f[k] = IF SkippedIf(red, r[k]) THEN <<>> ELSE <<k>>
    BY <1>1 DEF PartsOf
<1> HIDE DEF n, f
<1>3. \A k \in 1..n : f[k] \in Seq(Nat)
    <2> SUFFICES ASSUME NEW k \in 1..n PROVE f[k] \in Seq(Nat)
        OBVIOUS
    <2>1. k \in Nat
        BY <1>1
    <2>2. <<>> \in Seq(Nat) /\ <<k>> \in Seq(Nat)
        BY <2>1
    <2> QED BY <1>2, <2>2
<1>4. f \in Seq(Seq(Nat)) /\ Len(f) = n
    BY <1>1, <1>2, <1>3, IsASeq
<1> QED BY <1>2, <1>4 DEF f, n

(* A list of one list, flattened.                                        *)
LEMMA FlattenOne ==
    ASSUME NEW S, NEW s \in Seq(S)
    PROVE  FlattenSeq(<<s>>) = s
<1> DEFINE u == <<s>>
           T == Seq(S)
<1>1. u \in Seq(T) /\ Len(u) = 1 /\ u[1] = s
    OBVIOUS
<1> HIDE DEF u
<1>2. PICK f \in [0..Len(u) -> T] : f[0] = <<>> /\ FlattenSeq(u) = f[Len(u)] /\ \A k \in 1..Len(u) : f[k] = f[k - 1] \o u[k]
    BY <1>1, FlattenStepwise DEF T
<1>3. FlattenSeq(u) = <<>> \o s
    <2>1. 1 \in 1..Len(u) /\ 1 - 1 = 0
        BY <1>1
    <2>2. FlattenSeq(u) = f[1] /\ f[1] = f[0] \o u[1]
        BY <1>1, <1>2, <2>1
    <2> QED BY <1>1, <1>2, <2>2
<1> QED BY <1>3, ConcatEmptySeq DEF u

(* One more polygon is drawn, or skipped, and the others as before.      *)
LEMMA DrawnOfAppend ==
    ASSUME NEW r \in Seq(PolyTypes), NEW red, NEW type \in PolyTypes
    PROVE  /\ DrawnOf(r, red) \in Seq(Nat)
           /\ DrawnOf(Append(r, type), red) =
                 IF SkippedIf(red, type) THEN DrawnOf(r, red) ELSE Append(DrawnOf(r, red), Len(r) + 1)
<1> DEFINE n == Len(r)
           longer == Append(r, type)
           parts == PartsOf(r, red)
           piece == IF SkippedIf(red, type) THEN <<>> ELSE <<n + 1>>
           more == PartsOf(longer, red)
           ones == <<piece>>
<1>1. n \in Nat /\ longer \in Seq(PolyTypes) /\ Len(longer) = n + 1 /\ longer[n + 1] = type
      /\ \A k \in 1..n : longer[k] = r[k]
    BY AppendProperties, LenProperties
<1> HIDE DEF longer
<1>2. parts \in Seq(Seq(Nat)) /\ Len(parts) = n /\ \A k \in 1..n : parts[k] = IF SkippedIf(red, r[k]) THEN <<>> ELSE <<k>>
    BY PartsType
<1>3. more \in Seq(Seq(Nat)) /\ Len(more) = n + 1
      /\ \A k \in 1..(n + 1) : more[k] = IF SkippedIf(red, longer[k]) THEN <<>> ELSE <<k>>
    BY <1>1, PartsType
<1>4. piece \in Seq(Nat)
    <2>1. <<>> \in Seq(Nat) /\ <<n + 1>> \in Seq(Nat)
        BY <1>1
    <2> QED BY <2>1
<1> HIDE DEF n, parts, more
<1>5. more[n + 1] = piece
    <2>1. n + 1 \in 1..(n + 1)
        BY <1>1
    <2> QED BY <1>1, <1>3, <2>1
<1> HIDE DEF piece
<1>6. ones \in Seq(Seq(Nat)) /\ Len(ones) = 1 /\ ones[1] = piece
    BY <1>4
<1> HIDE DEF ones
<1>7. more = parts \o ones
    <2> DEFINE both == parts \o ones
    <2>1. both \in Seq(Seq(Nat)) /\ Len(both) = n + 1
          /\ \A k \in 1..(n + 1) : both[k] = IF k <= n THEN parts[k] ELSE ones[k - n]
        <3>1. both \in Seq(Seq(Nat)) /\ Len(both) = Len(parts) + Len(ones)
              /\ \A k \in 1..(Len(parts) + Len(ones)) : both[k] = IF k <= Len(parts) THEN parts[k] ELSE ones[k - Len(parts)]
            BY <1>2, <1>6, ConcatProperties
        <3> HIDE DEF both
        <3> QED BY <1>2, <1>6, <3>1
    <2> HIDE DEF both
    <2>2. ASSUME NEW k \in 1..(n + 1) PROVE more[k] = both[k]
        <3>1. (k \in 1..n /\ k <= n) \/ (k = n + 1 /\ ~(k <= n) /\ k - n = 1)
            BY <1>1
        <3> QED BY <1>1, <1>2, <1>3, <1>5, <1>6, <2>1, <3>1
    <2>3. more = both
        BY <1>3, <2>1, <2>2, SeqEqual
    <2> QED BY <2>3 DEF both
<1>8. FlattenSeq(more) = FlattenSeq(parts) \o piece
    <2>1. FlattenSeq(parts \o ones) = FlattenSeq(parts) \o FlattenSeq(ones)
        BY <1>2, <1>6, FlattenConcat
    <2>2. FlattenSeq(ones) = piece
        BY <1>4, FlattenOne DEF ones
    <2> QED BY <1>7, <2>1, <2>2
<1> DEFINE d == DrawnOf(r, red)
<1>9. d \in Seq(Nat)
    BY <1>2, FlattenType DEF DrawnOf, parts
<1>10. DrawnOf(longer, red) = d \o piece
    BY <1>8 DEF DrawnOf, parts, more
<1> HIDE DEF d
<1>11. d \o <<>> = d /\ d \o <<n + 1>> = Append(d, n + 1)
    <2>1. d \o <<>> = d
        BY <1>9, ConcatEmptySeq
    <2>2. Append(d, n + 1) = d \o <<n + 1>>
        <3> DEFINE e == n + 1
        <3>1. e \in Nat
            BY <1>1
        <3> HIDE DEF e
        <3>2. Append(d, e) = d \o <<e>>
            BY <1>9, <3>1, AppendIsConcat
        <3> QED BY <3>2 DEF e
    <2> QED BY <2>1, <2>2
<1> QED BY <1>9, <1>10, <1>11 DEF piece, d, longer, n

DrawnWithin(r, red) == DrawnOf(r, red) \in Seq(1..Len(r))

(* One more polygon is counted unless it is skipped.                     *)
LEMMA CountOfAppend ==
    ASSUME NEW r \in Seq(PolyTypes), NEW red \in BOOLEAN, NEW type \in PolyTypes
    PROVE  /\ CountOf(r, red) \in Nat
           /\ CountOf(Append(r, type), red) = IF SkippedIf(red, type) THEN CountOf(r, red) ELSE CountOf(r, red) + 1
<1> DEFINE n == Len(r)
           longer == Append(r, type)
           A == {k \in 1..n : r[k] \cap Featured # {}}
           B == {k \in 1..(n + 1) : longer[k] \cap Featured # {}}
<1>1. n \in Nat /\ DOMAIN r = 1..n /\ Len(longer) = n + 1 /\ DOMAIN longer = 1..(n + 1) /\ longer[n + 1] = type
      /\ \A k \in 1..n : longer[k] = r[k]
    <2>1. longer \in Seq(PolyTypes) /\ Len(longer) = n + 1 /\ longer[n + 1] = type /\ \A k \in 1..n : longer[k] = r[k]
        BY AppendProperties
    <2> HIDE DEF longer
    <2>2. DOMAIN longer = 1..Len(longer)
        BY <2>1, LenProperties
    <2> QED BY <2>1, <2>2, LenProperties
<1>2. CountOf(r, red) = (IF ~red THEN n ELSE Cardinality(A))
    BY <1>1 DEF CountOf
<1>3. CountOf(longer, red) = (IF ~red THEN n + 1 ELSE Cardinality(B))
    <2> HIDE DEF longer
    <2> QED BY <1>1 DEF CountOf
<1> HIDE DEF longer, n
<1>4. IsFiniteSet(A) /\ Cardinality(A) \in Nat /\ n + 1 \notin A
    <2>1. A \subseteq 1..n /\ IsFiniteSet(1..n)
        BY <1>1, FS_Interval
    <2>2. n + 1 \notin A
        BY <1>1
    <2> HIDE DEF A
    <2>3. IsFiniteSet(A)
        BY <2>1, FS_Subset
    <2> QED BY <2>2, <2>3, FS_CardinalityType
<1>5. 1..(n + 1) = 1..n \cup {n + 1}
    BY <1>1
<1>6. B = IF type \cap Featured = {} THEN A ELSE A \cup {n + 1}
    BY <1>1, <1>5
<1> HIDE DEF A, B
<1>7. Cardinality(A \cup {n + 1}) = Cardinality(A) + 1
    BY <1>4, FS_AddElement
<1> QED BY <1>1, <1>2, <1>3, <1>4, <1>6, <1>7, FeaturedTests DEF SkippedIf, longer

(* The scene with one more polygon. *)
SceneGrows(r, red, type, longer) ==
    /\ DrawnWithin(longer, red)
    /\ SkippedIf(red, type) => TrisOf(longer, red) = TrisOf(r, red) /\ OutlinesOf(longer, red) = OutlinesOf(r, red)
    /\ ~SkippedIf(red, type) =>
          /\ TrisOf(longer, red) = TrisOf(r, red) \o <<<<Corners(Len(r) + 1), Color(type)>>>>
          /\ OutlinesOf(longer, red) = OutlinesOf(r, red) \cup Outline(Len(r) + 1)

(* The scene with one more polygon.                                      *)
LEMMA SceneOfAppend ==
    ASSUME NEW r \in Seq(PolyTypes), NEW red \in BOOLEAN, NEW type \in PolyTypes, DrawnWithin(r, red)
    PROVE  SceneGrows(r, red, type, Append(r, type))
<1> DEFINE n == Len(r)
           poly == n + 1
           longer == Append(r, type)
           D == DrawnOf(r, red)
           E == DrawnOf(longer, red)
           m == Len(D)
           S == {<<u, c>> : u \in Seq(Vertices), c \in PolyColors}
           T(d, q) == [k \in DOMAIN d |-> <<Corners(d[k]), Color(q[d[k]])>>]
           last == <<Corners(poly), Color(type)>>
<1>1. /\ n \in Nat /\ poly \in Nat /\ longer \in Seq(PolyTypes) /\ Len(longer) = n + 1 /\ longer[n + 1] = type
      /\ \A k \in 1..n : longer[k] = r[k] /\ r[k] \in PolyTypes
    <2>1. n \in Nat /\ longer \in Seq(PolyTypes) /\ Len(longer) = n + 1 /\ longer[n + 1] = type /\ \A k \in 1..n : longer[k] = r[k]
        BY AppendProperties, LenProperties
    <2> QED BY <2>1, ElementOfSeq
<1>2. D \in Seq(1..n) /\ m \in Nat /\ DOMAIN D = 1..m /\ \A k \in 1..m : D[k] \in 1..n
    <2>1. D \in Seq(1..n)
        BY DEF DrawnWithin
    <2> HIDE DEF D
    <2> QED BY <2>1, LenProperties, ElementOfSeq
<1>3. E = IF SkippedIf(red, type) THEN D ELSE Append(D, poly)
    BY DrawnOfAppend
<1>4. TrisOf(r, red) = T(D, r) /\ TrisOf(longer, red) = T(E, longer)
    BY DEF TrisOf
<1>5. OutlinesOf(r, red) = {{<<p, a>>, <<p, b>>} : p \in Range(D), a \in 1..3, b \in 1..3}
      /\ OutlinesOf(longer, red) = {{<<p, a>>, <<p, b>>} : p \in Range(E), a \in 1..3, b \in 1..3}
    BY DEF OutlinesOf
<1>6. D \in Seq(1..(n + 1))
    <2>1. 1..n \subseteq 1..(n + 1)
        BY <1>1
    <2> HIDE DEF D, n
    <2> QED BY <1>2, <2>1, SeqMonotonic
<1> HIDE DEF longer, D, E, n
<1>7. T(D, longer) = T(D, r)
    BY <1>1, <1>2
<1>8. CASE SkippedIf(red, type)
    BY <1>1, <1>3, <1>4, <1>5, <1>6, <1>7, <1>8 DEF SceneGrows, DrawnWithin, longer, D, E, n
<1>9. CASE ~SkippedIf(red, type)
    <2>1. E = Append(D, poly)
        BY <1>3, <1>9
    <2>2. poly \in 1..(n + 1)
        BY <1>1
    <2> HIDE DEF poly
    <2>3. E \in Seq(1..(n + 1)) /\ Len(E) = m + 1 /\ E[m + 1] = poly /\ \A k \in 1..m : E[k] = D[k]
        BY <1>6, <2>1, <2>2, AppendProperties
    <2>4. DOMAIN E = 1..(m + 1) /\ \A k \in 1..m : k \in 1..(m + 1)
        BY <1>2, <2>3, LenProperties
    <2> HIDE DEF m
    <2>5. T(D, r) \in Seq(S) /\ Len(T(D, r)) = m /\ \A k \in 1..m : T(D, r)[k] = <<Corners(D[k]), Color(r[D[k]])>>
        <3> DEFINE f == T(D, r)
        <3>1. f = [k \in 1..m |-> f[k]] /\ \A k \in 1..m : f[k] = <<Corners(D[k]), Color(r[D[k]])>>
            BY <1>2
        <3> HIDE DEF f
        <3>2. \A k \in 1..m : f[k] \in S
            <4> SUFFICES ASSUME NEW k \in 1..m PROVE f[k] \in S
                OBVIOUS
            <4>1. D[k] \in Nat /\ r[D[k]] \in PolyTypes
                BY <1>1, <1>2
            <4> DEFINE u == Corners(D[k])
                       c == Color(r[D[k]])
            <4>2. u \in Seq(Vertices) /\ c \in PolyColors /\ f[k] = <<u, c>>
                BY <3>1, <4>1, CornersOfPoly DEF PolyColors
            <4> HIDE DEF u, c
            <4> QED BY <4>2
        <3>3. f \in Seq(S) /\ Len(f) = m
            <4> HIDE DEF S
            <4> QED BY <1>2, <3>1, <3>2, IsASeq
        <3> QED BY <3>1, <3>3 DEF f
    <2>6. last \in S
        <3> DEFINE u == Corners(poly)
                   c == Color(type)
        <3>1. u \in Seq(Vertices) /\ c \in PolyColors
            BY <1>1, CornersOfPoly DEF PolyColors, poly
        <3> HIDE DEF u, c
        <3> QED BY <3>1 DEF u, c
    <2>7. T(E, longer) = [k \in 1..(m + 1) |-> <<Corners(E[k]), Color(longer[E[k]])>>]
        BY <2>4
    <2> DEFINE f == T(D, r)
               g == T(E, longer)
    <2>8. \A k \in 1..(m + 1) : g[k] = <<Corners(E[k]), Color(longer[E[k]])>>
        BY <2>7
    <2>9. g = [k \in 1..(m + 1) |-> g[k]]
        BY <2>7
    <2>10. longer[poly] = type
        BY <1>1 DEF poly
    <2> HIDE DEF f, g, S, last, T
    <2>11. \A k \in 1..(m + 1) : g[k] = IF k <= m THEN f[k] ELSE last
        <3> SUFFICES ASSUME NEW k \in 1..(m + 1) PROVE g[k] = IF k <= m THEN f[k] ELSE last
            OBVIOUS
        <3>1. (k \in 1..m /\ k <= m) \/ (k = m + 1 /\ ~(k <= m))
            BY <1>2
        <3>2. CASE k \in 1..m /\ k <= m
            <4>1. E[k] = D[k] /\ longer[D[k]] = r[D[k]]
                BY <1>1, <1>2, <2>3, <3>2
            <4> QED BY <2>5, <2>8, <3>2, <4>1 DEF f
        <3>3. CASE k = m + 1 /\ ~(k <= m)
            <4>1. E[k] = poly
                BY <2>3, <3>3
            <4>2. g[k] = <<Corners(E[k]), Color(longer[E[k]])>>
                BY <2>8
            <4> QED BY <2>10, <3>3, <4>1, <4>2 DEF last
        <3> QED BY <3>1, <3>2, <3>3
    <2>12. m + 1 \in Nat /\ <<last>> \in Seq(S) /\ Len(<<last>>) = 1 /\ <<last>>[1] = last
        BY <1>2, <2>6
    <2>13. g \in Seq(S) /\ Len(g) = m + 1
        <3>1. \A k \in 1..(m + 1) : g[k] \in S
            <4> SUFFICES ASSUME NEW k \in 1..(m + 1) PROVE g[k] \in S
                OBVIOUS
            <4>1. k <= m => k \in 1..m
                BY <1>2
            <4>2. \A x \in 1..m : f[x] \in S
                BY <2>5, ElementOfSeq DEF f
            <4> QED BY <2>6, <2>11, <4>1, <4>2
        <3> DEFINE h == m + 1
        <3> HIDE DEF h
        <3>2. h \in Nat /\ g = [k \in 1..h |-> g[k]] /\ \A k \in 1..h : g[k] \in S
            BY <2>9, <2>12, <3>1 DEF h
        <3>3. g \in Seq(S) /\ Len(g) = h
            BY <3>2, IsASeq
        <3> QED BY <3>3 DEF h
    <2>14. g = f \o <<last>>
        <3> DEFINE one == <<last>>
                   q == f \o one
        <3>1. one \in Seq(S) /\ Len(one) = 1 /\ one[1] = last
            BY <2>12
        <3> HIDE DEF one
        <3>2. f \in Seq(S) /\ Len(f) = m
            BY <2>5 DEF f
        <3>3. q \in Seq(S) /\ Len(q) = Len(f) + Len(one)
              /\ \A k \in 1..(Len(f) + Len(one)) : q[k] = IF k <= Len(f) THEN f[k] ELSE one[k - Len(f)]
            BY <3>1, <3>2, ConcatProperties
        <3> HIDE DEF q
        <3>4. Len(q) = m + 1 /\ \A k \in 1..(m + 1) : q[k] = IF k <= m THEN f[k] ELSE one[k - m]
            BY <3>1, <3>2, <3>3
        <3>5. \A k \in 1..(m + 1) : ~(k <= m) => k - m = 1
            BY <1>2
        <3>6. \A k \in 1..(m + 1) : g[k] = q[k]
            BY <2>11, <3>1, <3>4, <3>5
        <3>7. g = q
            BY <2>13, <3>3, <3>4, <3>6, SeqEqual
        <3> QED BY <3>7 DEF q, one
    <2>15. OutlinesOf(longer, red) = OutlinesOf(r, red) \cup Outline(poly)
        <3>1. Range(E) = {E[k] : k \in 1..(m + 1)} /\ Range(D) = {D[k] : k \in 1..m}
            BY <1>2, <2>4 DEF Range, m
        <3>2. 1..(m + 1) = 1..m \cup {m + 1}
            BY <1>2
        <3>3. Range(E) = Range(D) \cup {poly}
            BY <2>3, <3>1, <3>2
        <3> DEFINE A == OutlinesOf(r, red)
                   B == OutlinesOf(longer, red)
        <3>4. \A x : x \in A <=> \E p \in Range(D), a \in 1..3, b \in 1..3 : x = {<<p, a>>, <<p, b>>}
            BY <1>5
        <3>5. \A x : x \in B <=> \E p \in Range(E), a \in 1..3, b \in 1..3 : x = {<<p, a>>, <<p, b>>}
            BY <1>5
        <3>6. \A x : x \in Outline(poly) <=> \E a \in 1..3, b \in 1..3 : x = {<<poly, a>>, <<poly, b>>}
            BY DEF Outline
        <3> HIDE DEF A, B
        <3>7. \A x : x \in B <=> x \in A \/ x \in Outline(poly)
            <4> DEFINE I(x, p) == \E a \in 1..3, b \in 1..3 : x = {<<p, a>>, <<p, b>>}
            <4>1. /\ \A x : x \in A <=> \E p \in Range(D) : I(x, p)
                  /\ \A x : x \in B <=> \E p \in Range(E) : I(x, p)
                  /\ \A x : x \in Outline(poly) <=> I(x, poly)
                BY <3>4, <3>5, <3>6
            <4> HIDE DEF I
            <4> QED BY <3>3, <4>1
        <3>8. B = A \cup Outline(poly)
            BY <3>7
        <3> QED BY <3>8 DEF A, B
    <2> QED BY <1>1, <1>4, <1>9, <2>3, <2>14, <2>15 DEF SceneGrows, DrawnWithin, longer, E, n, f, g, last, poly
<1> QED BY <1>8, <1>9

(* Nothing is drawn of nothing.                                          *)
LEMMA EmptyScene ==
    ASSUME NEW red
    PROVE  /\ DrawnWithin(<<>>, red) /\ TrisOf(<<>>, red) = <<>> /\ OutlinesOf(<<>>, red) = {} /\ CountOf(<<>>, red) = 0
           /\ <<>> \in Seq(PolyTypes) /\ Shown(<<>>) = Blank
<1> DEFINE e == <<>>
           parts == PartsOf(e, red)
           D == DrawnOf(e, red)
<1>1. e \in Seq(PolyTypes) /\ Len(e) = 0 /\ DOMAIN e = {} /\ e \in Seq(Commands)
    OBVIOUS
<1> HIDE DEF e
<1>2. parts \in Seq(Seq(Nat)) /\ Len(parts) = 0
    BY <1>1, PartsType
<1>3. parts = <<>>
    BY <1>2, EmptySeq
<1>4. D = <<>>
    BY <1>2, <1>3 DEF DrawnOf, FlattenSeq
<1> HIDE DEF D, parts
<1>5. TrisOf(e, red) = <<>>
    <2>1. TrisOf(e, red) = [k \in DOMAIN D |-> <<Corners(D[k]), Color(e[D[k]])>>]
        BY DEF TrisOf, D
    <2>2. DOMAIN D = {}
        BY <1>4
    <2>3. TrisOf(e, red) = [k \in {} |-> <<Corners(D[k]), Color(e[D[k]])>>]
        BY <2>1, <2>2
    <2> QED BY <2>3
<1>6. OutlinesOf(e, red) = {}
    <2>1. Range(D) = {}
        BY <1>4 DEF Range
    <2> QED BY <2>1 DEF OutlinesOf, D
<1>7. CountOf(e, red) = 0
    <2>1. {k \in DOMAIN e : e[k] \cap Featured # {}} = {}
        BY <1>1
    <2> QED BY <1>1, <2>1, FS_EmptySet DEF CountOf
<1>8. DrawnWithin(e, red)
    BY <1>4, EmptySeq DEF DrawnWithin, D
<1>9. Shown(e) = Blank
    <2>1. PICK f : IsRun(f, e, 0)
        BY <1>1, RunsTyped
    <2> QED BY <2>1 DEF IsRun
<1> QED BY <1>1, <1>5, <1>6, <1>7, <1>8, <1>9 DEF e

DisplayInv ==
    /\ col_view_red \in BOOLEAN /\ read \in Seq(PolyTypes) /\ DrawnWithin(read, col_view_red)
    /\ PolyReady(writer, TrisOf(read, col_view_red))
    /\ PolySpace(writer) \in Nat /\ PolySpace(writer) <= 9 * CountOf(read, col_view_red)
    /\ LineReady(line_writer, OutlinesOf(read, col_view_red))
    /\ PolySpace(line_writer) <= 20 * CountOf(read, col_view_red)

(* The space of a list is a number of words.                             *)
LEMMA PolySpaceType ==
    ASSUME NEW w, NEW tris, PolyReady(w, tris)
    PROVE  PolySpace(w) \in Nat
<1>1. w.d \in Nat /\ w.v \in Seq(Vertices) /\ w.p \in Seq(Commands)
    BY DEF PolyReady, PolyEmpty, PolyOpen, PolyWriters
<1> DEFINE a == Len(w.p)
           b == Len(w.v)
           d == w.d
<1>2. a \in Nat /\ b \in Nat /\ d \in Nat /\ PolySpace(w) = a + d + 2 * b
    BY <1>1, LenProperties DEF PolySpace
<1> HIDE DEF a, b, d
<1> QED BY <1>2

(* The lists are begun empty, with a colour that no polygon has.         *)
LEMMA DisplayStarts == DisplayInit => DisplayInv
<1> SUFFICES ASSUME DisplayInit PROVE DisplayInv
    OBVIOUS
<1> DEFINE e == <<>>
<1>1. col_view_red \in BOOLEAN /\ read = e /\ writer = poly_writer_init /\ line_writer = line_writer_init
    BY DEF DisplayInit
<1>2. /\ DrawnWithin(read, col_view_red) /\ TrisOf(read, col_view_red) = e /\ OutlinesOf(read, col_view_red) = {}
      /\ CountOf(read, col_view_red) = 0 /\ read \in Seq(PolyTypes)
    BY <1>1, EmptyScene
<1>3. Shown(e) = Blank /\ e \in Seq(Commands) /\ e \in Seq(Vertices) /\ Len(e) = 0
    BY EmptyScene
<1> HIDE DEF e
<1>4. poly_writer_init = [p |-> e, d |-> 0, v |-> e, vtx_cmd |-> 0, tri_cmd |-> 0, prev_color |-> "none"]
      /\ line_writer_init = [p |-> e, d |-> 0, v |-> e, vtx_cmd |-> 0]
    BY DEF poly_writer_init, line_writer_init, e
<1>5. Shown(e).tris = e /\ Shown(e).color = "none" /\ Shown(e).lines = {}
    BY <1>3 DEF Blank, e
<1>6. PolyEmpty(writer, e) /\ PolySpace(writer) = 0
    <2>1. writer \in PolyWriters
        BY <1>1, <1>3, <1>4 DEF PolyWriters, PolyColors
    <2>2. writer.p = e /\ writer.d = 0 /\ writer.v = e /\ writer.vtx_cmd = 0 /\ writer.prev_color = "none"
        BY <1>1, <1>4
    <2>3. e = <<>>
        BY DEF e
    <2> QED BY <1>3, <1>5, <2>1, <2>2, <2>3 DEF PolyEmpty, Draws, PolySpace
<1>7. LineEmpty(line_writer, {}) /\ PolySpace(line_writer) = 0
    <2>1. line_writer \in LineWriters
        BY <1>1, <1>3, <1>4 DEF LineWriters
    <2>2. line_writer.p = e /\ line_writer.d = 0 /\ line_writer.v = e /\ line_writer.vtx_cmd = 0
        BY <1>1, <1>4
    <2>3. e = <<>>
        BY DEF e
    <2> QED BY <1>3, <1>5, <2>1, <2>2, <2>3 DEF LineEmpty, PolySpace
<1> QED BY <1>1, <1>2, <1>6, <1>7 DEF DisplayInv, PolyReady, LineReady

(* Each polygon that is read is drawn, in the room that it was counted for. *)
LEMMA DisplayStep == DisplayInv /\ [do_poly_list]_DisplayVars => DisplayInv'
<1> SUFFICES ASSUME DisplayInv, [do_poly_list]_DisplayVars PROVE DisplayInv'
    OBVIOUS
<1> DEFINE red == col_view_red
           n == Len(read)
<1>0. /\ red \in BOOLEAN /\ read \in Seq(PolyTypes) /\ DrawnWithin(read, red)
      /\ PolyReady(writer, TrisOf(read, red))
      /\ PolySpace(writer) \in Nat /\ PolySpace(writer) <= 9 * CountOf(read, red)
      /\ LineReady(line_writer, OutlinesOf(read, red))
      /\ PolySpace(line_writer) <= 20 * CountOf(read, red)
    BY DEF DisplayInv
<1>1. CASE UNCHANGED DisplayVars
    BY <1>0, <1>1 DEF DisplayInv, DisplayVars
<1>2. CASE do_poly_list
    <2>1. PICK type \in PolyTypes :
             /\ read' = Append(read, type)
             /\ IF Skipped(type) THEN UNCHANGED <<writer, line_writer>>
                ELSE /\ writer' = poly_writer_append(writer, n + 1, Color(type))
                     /\ line_writer' = line_writer_append(line_writer, Corners(n + 1))
        BY <1>2 DEF do_poly_list, Corners
    <2>2. red' = red /\ (Skipped(type) <=> SkippedIf(red, type))
        BY <1>2 DEF do_poly_list, Skipped, SkippedIf
    <2> DEFINE longer == Append(read, type)
               count == CountOf(read, red)
               more == CountOf(longer, red)
    <2>3. SceneGrows(read, red, type, longer)
        BY <1>0, SceneOfAppend
    <2>4. count \in Nat /\ more = IF SkippedIf(red, type) THEN count ELSE count + 1
        BY <1>0, CountOfAppend
    <2>5. longer \in Seq(PolyTypes) /\ n \in Nat
        BY <1>0, AppendProperties, LenProperties
    <2>6. read' = longer
        BY <2>1
    <2> HIDE DEF longer
    <2>7. CASE SkippedIf(red, type)
        <3>1. writer' = writer /\ line_writer' = line_writer
            BY <2>1, <2>2, <2>7
        <3>2. TrisOf(longer, red) = TrisOf(read, red) /\ OutlinesOf(longer, red) = OutlinesOf(read, red) /\ DrawnWithin(longer, red)
            BY <2>3, <2>7 DEF SceneGrows
        <3>3. more = count
            BY <2>4, <2>7
        <3> QED BY <1>0, <2>2, <2>5, <2>6, <3>1, <3>2, <3>3 DEF DisplayInv
    <2>8. CASE ~SkippedIf(red, type)
        <3> DEFINE poly == n + 1
                   color == Color(type)
                   w == poly_writer_append(writer, poly, color)
                   l == line_writer_append(line_writer, Corners(poly))
        <3>1. writer' = w /\ line_writer' = l
            BY <2>1, <2>2, <2>8
        <3>2. poly \in Nat /\ color \in PolyColors
            BY <2>5 DEF PolyColors
        <3>3. DrawnWithin(longer, red) /\ TrisOf(longer, red) = TrisOf(read, red) \o <<<<Corners(poly), color>>>>
              /\ OutlinesOf(longer, red) = OutlinesOf(read, red) \cup Outline(poly)
            BY <2>3, <2>8 DEF SceneGrows
        <3>4. more = count + 1
            BY <2>4, <2>8
        <3> HIDE DEF poly, color
        <3>5. PolyReady(w, TrisOf(longer, red)) /\ PolySpace(w) <= PolySpace(writer) + 9
            BY <1>0, <3>2, <3>3, PolyAppended
        <3>6. LineReady(l, OutlinesOf(longer, red)) /\ PolySpace(l) <= PolySpace(line_writer) + 16
            BY <1>0, <3>2, <3>3, LineAppended
        <3>7. PolySpace(w) \in Nat
            BY <3>5, PolySpaceType
        <3>8. PolySpace(l) \in Nat /\ PolySpace(line_writer) \in Nat
            BY <1>0, <3>6, LineFlushed
        <3> HIDE DEF count, more, w, l
        <3>9. PolySpace(w) <= 9 * more /\ PolySpace(l) <= 20 * more
            BY <1>0, <2>4, <3>4, <3>5, <3>6, <3>7, <3>8 DEF count
        <3> QED BY <1>0, <2>2, <2>5, <2>6, <3>1, <3>3, <3>5, <3>6, <3>7, <3>9 DEF DisplayInv, more
    <2> QED BY <2>7, <2>8
<1> QED BY <1>1, <1>2

(* When the last is flushed, the lists draw the scene.                   *)
LEMMA DisplayShows == DisplayInv => ListDrawsScene
<1> SUFFICES ASSUME DisplayInv PROVE ListDrawsScene
    OBVIOUS
<1> DEFINE red == col_view_red
           polys == poly_writer_flush(writer)
           lines == line_writer_flush(line_writer)
           count == CountOf(read, red)
<1>0. /\ red \in BOOLEAN /\ read \in Seq(PolyTypes) /\ DrawnWithin(read, red)
      /\ PolyReady(writer, TrisOf(read, red))
      /\ PolySpace(writer) \in Nat /\ PolySpace(writer) <= 9 * count
      /\ LineReady(line_writer, OutlinesOf(read, red))
      /\ PolySpace(line_writer) <= 20 * count
    BY DEF DisplayInv
<1>1. DrawnPolys = DrawnOf(read, red)
    BY DEF DrawnPolys, DrawnOf, PartsOf, Skipped, SkippedIf
<1>2. calc_poly_cnt(read) = count
    BY DEF calc_poly_cnt, CountOf
<1>3. count \in Nat
    <2>1. 9 * 0 = 0
        OBVIOUS
    <2>2. DOMAIN read = 1..Len(read) /\ Len(read) \in Nat
        BY <1>0, LenProperties
    <2>3. IsFiniteSet({k \in DOMAIN read : read[k] \cap Featured # {}})
        <3>1. IsFiniteSet(1..Len(read))
            BY <2>2, FS_Interval
        <3>2. {k \in DOMAIN read : read[k] \cap Featured # {}} \in SUBSET (1..Len(read))
            BY <2>2
        <3> QED BY <3>1, <3>2, FS_Subset
    <2> QED BY <2>2, <2>3, FS_CardinalityType DEF CountOf
<1>3a. PolyEmpty(polys, TrisOf(read, red))
    BY <1>0, PolyFlushed
<1>4. Draws(polys.p, TrisOf(read, red), writer.prev_color) /\ Len(polys.p) + polys.d = PolySpace(writer)
    BY <1>0, PolyFlushed
<1>5. /\ LineEmpty(lines, OutlinesOf(read, red)) /\ PolySpace(line_writer) \in Nat
      /\ Len(lines.p) + lines.d = PolySpace(line_writer)
    BY <1>0, LineFlushed
<1>6. TrisOf(read, red) = [k \in DOMAIN DrawnPolys |->
                              <<[c \in 1..3 |-> <<DrawnPolys[k], c>>], Color(read[DrawnPolys[k]])>>]
    BY <1>1 DEF TrisOf, Corners
<1>7. OutlinesOf(read, red) = {{<<poly, a>>, <<poly, b>>} : poly \in Range(DrawnPolys), a \in 1..3, b \in 1..3}
    BY <1>1 DEF OutlinesOf
<1>8. Shown(polys.p).tris = TrisOf(read, red) /\ Shown(lines.p).lines = OutlinesOf(read, red)
    BY <1>4, <1>5 DEF Draws, LineEmpty
<1>9. PolySize(read) = count * 9 + 11 /\ LineSize(read) = count * 20 + 24
    BY <1>2 DEF PolySize, LineSize
<1>10. Len(polys.p) \in Nat /\ polys.d \in Nat /\ Len(lines.p) \in Nat /\ lines.d \in Nat
    <2>1. lines.p \in Seq(Commands) /\ lines.d \in Nat
        BY <1>5 DEF LineEmpty, LineWriters
    <2> HIDE DEF polys
    <2>2. polys.p \in Seq(Commands) /\ polys.d \in Nat
        BY <1>3a DEF PolyEmpty, PolyWriters
    <2> QED BY <2>1, <2>2, LenProperties
<1> HIDE DEF polys, lines, count
<1>11. Len(polys.p) + 1 + polys.d <= PolySize(read) /\ Len(lines.p) + 1 + lines.d <= LineSize(read)
    <2> DEFINE a == Len(polys.p)
               b == polys.d
               c == Len(lines.p)
               d == lines.d
    <2>1. a \in Nat /\ b \in Nat /\ c \in Nat /\ d \in Nat /\ a + b <= 9 * count /\ c + d <= 20 * count
        BY <1>0, <1>4, <1>5, <1>10
    <2> HIDE DEF a, b, c, d
    <2>2. a + 1 + b <= count * 9 + 11 /\ c + 1 + d <= count * 20 + 24
        BY <1>3, <2>1
    <2> QED BY <1>9, <2>2 DEF a, b, c, d
<1> QED BY <1>6, <1>7, <1>8, <1>11 DEF ListDrawsScene, polys, lines

(* Whatever polygons a scene has, of whatever types, the list of         *)
(* triangles shows each that the setting asks for, in its colour and in  *)
(* their order, and the list of lines their outlines; and each list fits *)
(* the memory that was counted for it.                                   *)
THEOREM ListsDrawScene == DisplaySpec => []ListDrawsScene
<1>1. DisplayInv /\ [do_poly_list]_DisplayVars => DisplayInv'
    BY DisplayStep
<1> QED BY DisplayStarts, DisplayShows, <1>1, PTL DEF DisplaySpec
=============================================================================
