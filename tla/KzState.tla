------------------------------- MODULE KzState -------------------------------
(***************************************************************************)
(* The save-state stream of src/src/state.c: what save_state writes, in    *)
(* which order, and what load_state makes of it.  The stream has no tags:  *)
(* the reader finds its way by the order and by lengths it takes from what *)
(* it has restored so far, so each side is written down here for itself.   *)
(*                                                                         *)
(* A stream is a sequence of numbers, one for each block the code writes.  *)
(* Most blocks are plain copies; "stamp" stands for the content of all of  *)
(* them, so that two moments of the game can be told apart.  What the      *)
(* stream does not hold is loaded from the cartridge again when it is not  *)
(* in memory already: "ram" says which file lies where.                    *)
(***************************************************************************)
EXTENDS Integers, Sequences, SequencesExt

CONSTANTS Games,         \* the moments the game can be at
          Sizes,         \* rooms of each scene: the length of its map
          STATE_VERSION, \* of this kz; the older ones it reads:
          COMPATIBLE,
          Versions,      \* of the files a player may import
          ARENA,         \* addresses of the game's arena; the player overlay
                         \* has the next one for itself
          RING,          \* length of the ring of sequencer commands
          CLOCK          \* bound on the time

VARIABLES z2, ram, now,
          state,    \* the slot: header and stream, or NoState
          saved_at,    \* the moment of the save, for the properties only
          read_to   \* where the last load stopped reading, 0 otherwise

StateVars == <<z2, ram, now, state, saved_at, read_to>>

NoState == [version |-> 0, stream |-> <<>>]
Nothing == 0      \* a NULL pointer, a free place
End     == -1     \* ent_end
Node    == 0      \* ent_start
Pause   == 99     \* the pause screen's pictures, in the objects' memory

(* The overlay tables: actors, the player or pause screen, particles. *)
Tables == 1..3
Entries == 1..2
Overlay(t, i) == 10 * t + i
RoomFile(g) == 10 * g.scene + g.room
Addresses == 1..(ARENA + 1)

Game ==
    [stamp : Int, seq : Int, afx_cfg : Int,
     ovl : [Tables -> [Entries -> Addresses \cup {Nothing}]], loaded_cnt : [Entries -> Int],
     scene : DOMAIN Sizes, room : Int, room_ptr : 1..2, obj : Int, obj_ptr : 1..2,
     pause : {0} \cup {n \in Nat : n >= 3}, timer : Int,
     nodes : Seq([at : Addresses, size : Nat \ {0}, free : Int]), cell : [Addresses -> Int],
     particle : Seq(Int), dot : [1..2 -> Int], wobble : Int, weather : Int, water : Int, disp : Nat,
     cmd_buf : [0..(RING - 1) -> Int], rd_pos : 0..(RING - 1), wr_pos : 0..(RING - 1)]

(* The addresses an overlay is loaded at: node_set, ovl_set. *)
OverlayAt(ovl) == {ovl[t][i] : t \in Tables, i \in Entries}

(* External: how the game keeps its memory.  The nodes of the arena lie one*)
(* behind the other, and what is not free holds one overlay or none.  No   *)
(* moment is taken while the pause screen is opening (states 1 and 2).     *)
Kept(g) ==
    /\ g \in Game
    /\ \A t, u \in Tables, i, j \in Entries :
          g.ovl[t][i] = g.ovl[u][j] /\ g.ovl[t][i] # Nothing => t = u /\ i = j
    /\ \A i \in Entries : g.ovl[1][i] = Nothing => g.loaded_cnt[i] = 0
    /\ g.nodes # <<>>
    /\ \A k \in DOMAIN g.nodes :
          /\ g.nodes[k].at + g.nodes[k].size <= ARENA + 1
          /\ k > 1 => g.nodes[k].at = g.nodes[k - 1].at + g.nodes[k - 1].size
          /\ g.nodes[k].free = 0 /\ g.nodes[k].size > 1 =>
                \A a \in OverlayAt(g.ovl) : a < g.nodes[k].at \/ a >= g.nodes[k].at + g.nodes[k].size

ASSUME StateAssumption ==
    /\ ARENA \in Nat \ {0} /\ RING \in Nat \ {0} /\ CLOCK \in Nat
    /\ STATE_VERSION \in Nat /\ COMPATIBLE \subseteq Nat /\ Versions \subseteq Nat
    /\ Sizes \in Seq(Nat)
    /\ \A g \in Games : Kept(g)

(* External: where the game has its files at a moment it got to by itself. *)
RamOf(g) ==
    [text  |-> [a \in Addresses |->
                  IF \E t \in Tables, i \in Entries : g.ovl[t][i] = a
                  THEN LET e == CHOOSE e \in Tables \X Entries : g.ovl[e[1]][e[2]] = a
                       IN Overlay(e[1], e[2])
                  ELSE Nothing],
     scene |-> g.scene,
     room  |-> [b \in 1..2 |-> IF b = g.room_ptr /\ g.room # Nothing THEN RoomFile(g) ELSE Nothing],
     obj   |-> [b \in 1..2 |-> IF g.pause # 0 THEN Pause
                               ELSE IF b = g.obj_ptr /\ g.obj > 0 THEN g.obj ELSE Nothing]]

-----------------------------------------------------------------------------
(* save_state *)

(* A table of which only the used places are written, each after its index.*)
Sparse(entries) ==
    FlattenSeq([i \in DOMAIN entries |-> IF entries[i] = <<>> THEN <<>> ELSE <<i>> \o entries[i]])
        \o <<End>>

(* save_overlay: address, then data and bss; the code is in the cartridge. *)
SavedOverlay(g, t, i) == <<g.ovl[t][i], g.cell[g.ovl[t][i]]>>

OverlayTables(g) ==
    LET Saved(t, i) == IF g.ovl[t][i] = Nothing THEN <<>>
                       ELSE (IF t = 1 THEN <<g.loaded_cnt[i]>> ELSE <<>>) \o SavedOverlay(g, t, i)
    IN FlattenSeq([t \in Tables |-> Sparse([i \in Entries |-> Saved(t, i)])])

ArenaNode(g, n) ==
    <<Node, n.free, n.size>>
        \o IF n.free = 0 /\ n.at \notin OverlayAt(g.ovl)
           THEN [k \in 1..n.size |-> g.cell[n.at + k - 1]] ELSE <<>>

Arena(g) ==
    <<g.nodes[1].at>> \o FlattenSeq([k \in DOMAIN g.nodes |-> ArenaNode(g, g.nodes[k])]) \o <<End>>

(* Particles with a life left, and the static ones that are active. *)
Particles(g) ==
    LET Used(tab) == [i \in DOMAIN tab |-> IF tab[i] = Nothing THEN <<>> ELSE <<tab[i]>>]
    IN <<Len(g.particle)>> \o Sparse(Used(g.particle)) \o Sparse(Used(g.dot))

(* The header of the collision, not the boxes its pointer leads to. *)
WaterBoxes(g) == <<g.scene>> \o [k \in 1..g.scene |-> k]

(* The commands between the read and the write position, modulo RING. *)
QueueSlip(g) == LET n == (g.wr_pos - g.rd_pos) % RING
                IN <<n>> \o [k \in 1..(n + 1) |-> g.cmd_buf[(g.rd_pos + k - 1) % RING]]
Queue(g) == LET n == (g.wr_pos - g.rd_pos) % RING
            IN <<n>> \o [k \in 1..n |-> g.cmd_buf[(g.rd_pos + k - 1) % RING]]

SavedSound(g) == <<g.seq, g.stamp, g.afx_cfg>>
SavedContext(g) == <<g.scene, g.room, g.room_ptr, g.obj, g.obj_ptr, g.pause, g.stamp, g.timer>>
SavedCutscene(g, version) ==
    <<g.stamp>> \o (IF version >= 8 THEN <<g.wobble>> ELSE <<>>)
        \o <<g.stamp>> \o [k \in 1..Sizes[g.scene] |-> g.stamp]
SavedCollision(g, version) ==
    WaterBoxes(g) \o <<g.stamp>> \o (IF version >= 8 THEN <<g.weather>> ELSE <<>>)
SavedDisplay(g) == <<g.disp>> \o [k \in 1..g.disp |-> g.stamp]

save_state(g, version, time) ==
    <<time>> \o SavedSound(g) \o OverlayTables(g) \o SavedContext(g) \o Arena(g) \o Particles(g)
        \o SavedCutscene(g, version) \o SavedCollision(g, version) \o SavedDisplay(g)
        \o Queue(g) \o <<g.stamp>>

-----------------------------------------------------------------------------
(* load_state *)

(* st_read; past the end of the block there is something, here 0. *)
At(s, p) == IF p \in DOMAIN s THEN s[p] ELSE 0

(* A table of n places with entries of the given width: where each place's *)
(* entry is in the stream, Nothing for the free ones, and where to go on.  *)
ReadSparse(s, p, n, width) ==
    LET after[i \in 0..n] ==
            IF i = 0 THEN p
            ELSE IF At(s, after[i - 1]) = i THEN after[i - 1] + 1 + width ELSE after[i - 1]
    IN [at |-> [i \in 1..n |-> IF At(s, after[i - 1]) = i THEN after[i - 1] + 1 ELSE Nothing],
        p  |-> after[n] + 1]

Entry(s, at, k) == IF at = Nothing THEN Nothing ELSE At(s, at + k)

(* The nodes from p on, the first at address "at", without what overlays   *)
(* have read already: the list, the addresses read, and where to go on.    *)
ReadNodes(s, p, at, ovls) ==
    LET Data(b) == IF At(s, b.p) = 0 /\ b.at \notin ovls THEN At(s, b.p + 1) ELSE 0
        Behind(b) == b.p + 2 + Data(b)
        node[k \in 1..Len(s)] ==
            IF k = 1 THEN [p |-> p, at |-> at]
            ELSE [p  |-> Behind(node[k - 1]) + 1,
                  at |-> node[k - 1].at + At(s, node[k - 1].p + 1)]
        Final(k) == At(s, Behind(node[k])) # Node \/ Behind(node[k]) >= Len(s)
        n == CHOOSE k \in 1..Len(s) : Final(k) /\ \A j \in 1..(k - 1) : ~Final(j)
        Cells(k) == node[k].at..(node[k].at + Data(node[k]) - 1)
    IN [nodes |-> [k \in 1..n |-> [at |-> node[k].at, size |-> At(s, node[k].p + 1),
                                   free |-> At(s, node[k].p)]],
        cells |-> [a \in UNION {Cells(k) : k \in 1..n} |->
                      LET k == CHOOSE k \in 1..n : a \in Cells(k)
                      IN At(s, node[k].p + 2 + a - node[k].at)],
        p     |-> Behind(node[n]) + 1]

(* load_overlay fetches the code unless the table has it at this address.  *)
LoadsTextSlip(t, i, ovl) == z2.ovl[t][i] = Nothing /\ ovl[t][i] # Nothing
LoadsText(t, i, ovl) == ovl[t][i] # Nothing /\ z2.ovl[t][i] # ovl[t][i]

LoadedText(ovl, cells) ==
    [a \in Addresses |->
        IF \E t \in Tables, i \in Entries : LoadsText(t, i, ovl) /\ ovl[t][i] = a
        THEN LET e == CHOOSE e \in Tables \X Entries : ovl[e[1]][e[2]] = a
             IN Overlay(e[1], e[2])
        ELSE IF a \in DOMAIN cells THEN Nothing ELSE ram.text[a]]

(* Room and object files are loaded unless the same one was there before;  *)
(* the pause screen has overwritten all objects.                           *)
ReloadsRoom(g) ==
    g.room # Nothing /\ (z2.room # g.room \/ z2.scene # g.scene \/ z2.room_ptr # g.room_ptr)
ReloadsObject(id, g) ==
    id # 0 /\ (z2.obj # id \/ z2.obj_ptr # g.obj_ptr \/ z2.pause >= 3)

LoadedRam(g, cells) ==
    LET id == IF g.obj < 0 THEN - g.obj ELSE g.obj IN
    [text  |-> LoadedText(g.ovl, cells),
     scene |-> IF z2.scene # g.scene THEN g.scene ELSE ram.scene,
     room  |-> IF ReloadsRoom(g) THEN [ram.room EXCEPT ![g.room_ptr] = RoomFile(g)] ELSE ram.room,
     obj   |-> IF g.pause # 0 THEN [b \in 1..2 |-> Pause]
               ELSE IF ReloadsObject(id, g) THEN [ram.obj EXCEPT ![g.obj_ptr] = id] ELSE ram.obj]

(* The sequencer is stopped when it plays something else than the state    *)
(* has, by itself or with the whole audio configuration, and started when  *)
(* it is silent then.  The audio thread, which is external, has obeyed the *)
(* stop by the time the rest of the state has been read.                   *)
StopsSlip(seq, cfg) == cfg # z2.afx_cfg \/ seq = Nothing
Stops(seq, cfg) == cfg # z2.afx_cfg \/ seq = Nothing \/ seq # z2.seq
Music(seq, cfg) ==
    LET playing == IF Stops(seq, cfg) THEN Nothing ELSE z2.seq
    IN IF seq # Nothing /\ playing = Nothing THEN seq ELSE playing

(* The saved commands are put behind the write position, the ones that     *)
(* were waiting having been dropped.                                       *)
QueuedSlip(s, p) ==
    [buf |-> [k \in 0..(RING - 1) |-> LET n == (k - z2.wr_pos) % RING IN
                 IF n < At(s, p) THEN At(s, p + 1 + n) ELSE z2.cmd_buf[k]],
     rd |-> z2.wr_pos, wr |-> z2.wr_pos + At(s, p)]
Queued(s, p) ==
    [buf |-> [k \in 0..(RING - 1) |-> LET n == (k - z2.wr_pos) % RING IN
                 IF n < At(s, p) THEN At(s, p + 1 + n) ELSE z2.cmd_buf[k]],
     rd |-> z2.wr_pos, wr |-> (z2.wr_pos + At(s, p)) % RING]

(* Clocks that were running go on from where they were. *)
ShiftedSlip(timer, save_time) == timer + now
Shifted(timer, save_time) == timer + (now - save_time)

(* Each reader takes its part of the stream, from p on; what is before it  *)
(* in the stream and needed to read it is given to it.                     *)
ReadOverlays(s, p) ==
    LET act == ReadSparse(s, p, 2, 3)
        ply == ReadSparse(s, act.p, 2, 2)
        prt == ReadSparse(s, ply.p, 2, 2)
        Field(at, k) == [i \in Entries |-> Entry(s, at[i], k)]
    IN [cnt |-> Field(act.at, 0), ovl |-> <<Field(act.at, 1), Field(ply.at, 0), Field(prt.at, 0)>>,
        own |-> <<Field(act.at, 2), Field(ply.at, 1), Field(prt.at, 1)>>, p |-> prt.p]

ReadContext(s, p) ==
    [scene |-> At(s, p), room |-> At(s, p + 1), room_ptr |-> At(s, p + 2), obj |-> At(s, p + 3),
     obj_ptr |-> At(s, p + 4), pause |-> At(s, p + 5), stamp |-> At(s, p + 6),
     timer |-> Shifted(At(s, p + 7), At(s, 1)), p |-> p + 8]

ReadArena(s, p, ovl) == ReadNodes(s, p + 2, At(s, p), OverlayAt(ovl))

ReadParticles(s, p) ==
    LET dyn == ReadSparse(s, p + 1, At(s, p), 1)
        dot == ReadSparse(s, dyn.p, 2, 1)
    IN [particle |-> [i \in 1..At(s, p) |-> Entry(s, dyn.at[i], 0)],
        dot |-> [i \in 1..2 |-> Entry(s, dot.at[i], 0)], p |-> dot.p]

ReadCutscene(s, p, scene, version) ==
    IF version >= 8 THEN [wobble |-> At(s, p + 1), p |-> p + 3 + Sizes[scene]]
                    ELSE [wobble |-> z2.wobble, p |-> p + 2 + Sizes[scene]]

ReadCollision(s, p, version) ==
    LET sky == p + 1 + At(s, p) + 1 IN
    IF version >= 8 THEN [weather |-> At(s, sky), p |-> sky + 1]
                    ELSE [weather |-> z2.weather, p |-> sky]

ReadDisplay(s, p) == [disp |-> At(s, p), p |-> p + 1 + At(s, p)]

ReadQueue(s, p) == [queue |-> Queued(s, p), p |-> p + 1 + At(s, p)]

Read(s, version) ==
    LET ovl   == ReadOverlays(s, 5)
        ctx   == ReadContext(s, ovl.p)
        arena == ReadArena(s, ctx.p, ovl.ovl)
        prt   == ReadParticles(s, arena.p)
        cut   == ReadCutscene(s, prt.p, ctx.scene, version)
        col   == ReadCollision(s, cut.p, version)
        disp  == ReadDisplay(s, col.p)
    IN [ovl |-> ovl, ctx |-> ctx, arena |-> arena, prt |-> prt, cut |-> cut, col |-> col,
        disp |-> disp, queue |-> ReadQueue(s, disp.p)]

Restored(s, r) ==
    [stamp |-> r.ctx.stamp, seq |-> Music(At(s, 2), At(s, 4)), afx_cfg |-> At(s, 4),
     ovl |-> r.ovl.ovl, loaded_cnt |-> r.ovl.cnt,
     scene |-> r.ctx.scene, room |-> r.ctx.room, room_ptr |-> r.ctx.room_ptr,
     obj |-> r.ctx.obj, obj_ptr |-> r.ctx.obj_ptr, pause |-> r.ctx.pause, timer |-> r.ctx.timer,
     nodes |-> r.arena.nodes,
     cell |-> [a \in Addresses |->
                 IF a \in OverlayAt(r.ovl.ovl)
                 THEN LET e == CHOOSE e \in Tables \X Entries : r.ovl.ovl[e[1]][e[2]] = a
                      IN r.ovl.own[e[1]][e[2]]
                 ELSE IF a \in DOMAIN r.arena.cells THEN r.arena.cells[a] ELSE z2.cell[a]],
     particle |-> r.prt.particle, dot |-> r.prt.dot, wobble |-> r.cut.wobble,
     weather |-> r.col.weather, water |-> IF r.ctx.scene # z2.scene THEN Nothing ELSE z2.water,
     disp |-> r.disp.disp,
     cmd_buf |-> r.queue.queue.buf, rd_pos |-> r.queue.queue.rd, wr_pos |-> r.queue.queue.wr]

load_state(s, r) ==
    LET g == Restored(s, r)
    IN z2' = g /\ ram' = LoadedRam(g, r.arena.cells) /\ read_to' = r.queue.p + 1

(* Another kz's file is refused unless it is of a version known to differ  *)
(* in the two blocks version 8 has added.                                  *)
state_is_valid(version) == version = STATE_VERSION \/ version \in COMPATIBLE

-----------------------------------------------------------------------------
StateInit ==
    /\ z2 \in Games /\ ram = RamOf(z2) /\ now = 0
    /\ state = NoState /\ saved_at = [game |-> z2, time |-> 0] /\ read_to = 0

(* External: the game goes on to another moment; a clock starts there.     *)
GamePlaysOn ==
    /\ \E g \in Games : z2' = [g EXCEPT !.timer = now] /\ ram' = RamOf(g)
    /\ read_to' = 0 /\ UNCHANGED <<now, state, saved_at>>

ClockTicks ==
    /\ now < CLOCK /\ now' = now + 1
    /\ read_to' = 0 /\ UNCHANGED <<z2, ram, state, saved_at>>

SaveState ==
    /\ state' = [version |-> STATE_VERSION, stream |-> save_state(z2, STATE_VERSION, now)]
    /\ saved_at' = [game |-> z2, time |-> now]
    /\ read_to' = 0 /\ UNCHANGED <<z2, ram, now>>

(* A file some kz has written; it replaces the slot's state if it is valid.*)
ImportFile ==
    /\ \E version \in Versions, g \in Games :
        /\ state_is_valid(version)
        /\ state' = [version |-> version, stream |-> save_state(g, version, 0)]
        /\ saved_at' = [game |-> g, time |-> 0]
    /\ read_to' = 0 /\ UNCHANGED <<z2, ram, now>>

LoadState ==
    /\ state # NoState
    /\ load_state(state.stream, Read(state.stream, state.version))
    /\ UNCHANGED <<now, state, saved_at>>

StateNext == GamePlaysOn \/ ClockTicks \/ SaveState \/ ImportFile \/ LoadState
StateSpec == StateInit /\ [][StateNext]_StateVars

-----------------------------------------------------------------------------
UsedCells(g) ==
    OverlayAt(g.ovl) \cup UNION {n.at..(n.at + n.size - 1) : n \in {g.nodes[k] : k \in {k \in DOMAIN g.nodes : g.nodes[k].free = 0}}}
Commands(g) == [k \in 1..((g.wr_pos - g.rd_pos) % RING) |-> g.cmd_buf[(g.rd_pos + k - 1) % RING]]

(* Every pointer leads to the file the game believes is there.            *)
Resident(g, files) ==
    /\ files.scene = g.scene
    /\ g.room # Nothing => files.room[g.room_ptr] = RoomFile(g)
    /\ \A t \in Tables, i \in Entries :
          g.ovl[t][i] # Nothing => files.text[g.ovl[t][i]] = Overlay(t, i)
    /\ g.pause = 0 /\ g.obj > 0 => files.obj[g.obj_ptr] = g.obj
    /\ g.pause # 0 => \A b \in 1..2 : files.obj[b] = Pause

(* A load gives back the moment that was saved, whatever the game has been *)
(* doing since: lists and tables of any length, the arena node for node,   *)
(* the queued commands, the music.  A version 7 file has no camera wobble  *)
(* and no weather.  The water boxes are not in the stream either.          *)
LoadRestoresMoment ==
    read_to # 0 =>
        LET g == saved_at.game IN
        /\ \A f \in {"stamp", "seq", "afx_cfg", "ovl", "loaded_cnt", "scene", "room", "room_ptr", "obj",
                      "obj_ptr", "pause", "nodes", "particle", "dot", "disp"} : z2[f] = g[f]
        /\ \A a \in UsedCells(g) \ {Nothing} : z2.cell[a] = g.cell[a]
        /\ Commands(z2) = Commands(g)
        /\ state.version >= 8 => z2.wobble = g.wobble /\ z2.weather = g.weather

(* The stream is read to its last block, neither short of it nor beyond:   *)
(* every length is taken from something already restored, and no accepted  *)
(* version has other blocks than the reader expects.                       *)
StreamReadToEnd == read_to # 0 => read_to = Len(state.stream) + 1

(* After a load every pointer leads to the file the game believes is there:*)
(* what was not in memory, or was overwritten by the pause screen, has been*)
(* fetched, and code of an overlay moved elsewhere has come along.         *)
FilesResident == read_to # 0 => Resident(z2, ram)

(* A clock that had run for some time when the state was saved has run for *)
(* as long when it is loaded.                                              *)
ClocksGoOn == read_to # 0 => now - z2.timer = saved_at.time - saved_at.game.timer
=============================================================================
