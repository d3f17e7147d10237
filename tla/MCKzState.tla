------------------------------ MODULE MCKzState ------------------------------
(* Moments for TLC: one that has a bit of everything, and what differs from *)
(* it in the arena and overlays, in the files, in the tables and the sound. *)
EXTENDS KzState, TLC

Base == [stamp |-> 1, seq |-> 1, afx_cfg |-> 1,
         ovl |-> <<<<1, 0>>, <<4, 0>>, <<0, 0>>>>, loaded_cnt |-> <<1, 0>>,
         scene |-> 1, room |-> 1, room_ptr |-> 1, obj |-> 1, obj_ptr |-> 1, pause |-> 0, timer |-> 0,
         nodes |-> <<[at |-> 1, size |-> 1, free |-> 0], [at |-> 2, size |-> 2, free |-> 0]>>,
         cell |-> <<1, 1, 1, 1>>, particle |-> <<1, 0>>, dot |-> <<0, 1>>,
         wobble |-> 1, weather |-> 1, water |-> 1, disp |-> 1,
         cmd_buf |-> (0 :> 1 @@ 1 :> 1 @@ 2 :> 1), rd_pos |-> 0, wr_pos |-> 1]

Other == [Base EXCEPT !.stamp = 2, !.cell = <<2, 2, 2, 2>>, !.wobble = 2, !.weather = 2, !.water = 2,
                      !.cmd_buf = (0 :> 2 @@ 1 :> 2 @@ 2 :> 2)]

One(at, free) == [at |-> at, size |-> 1, free |-> free]
(* How they differ: overlays and arena; files; tables and sound.           *)
Arena1(g, o, c, n) == [g EXCEPT !.ovl = o, !.loaded_cnt = c, !.nodes = n]
File(g, s, r, b, o, p) ==
    [g EXCEPT !.scene = s, !.room = r, !.room_ptr = b, !.obj = o, !.obj_ptr = b, !.pause = p]
Rest(g, t, q, c, r, n) ==
    [g EXCEPT !.particle = t, !.dot = <<2, 2>>, !.disp = Len(t), !.seq = q, !.afx_cfg = c,
              !.rd_pos = r, !.wr_pos = (r + n) % 3]
Ones == <<One(1, 0), One(2, 0), One(3, 1)>>
NoOvl == <<<<0, 0>>, <<4, 0>>, <<0, 0>>>>
MCGames ==
    {Base,
     Arena1(File(Rest(Other, <<>>, 0, 1, 2, 2), 1, 0, 1, -1, 0),
            <<<<2, 0>>, <<4, 0>>, <<1, 0>>>>, <<1, 0>>, Ones),
     Arena1(File(Rest(Other, <<2, 2>>, 2, 1, 1, 0), 1, 1, 2, 1, 3),
            <<<<0, 1>>, <<0, 4>>, <<0, 2>>>>, <<0, 2>>, Ones),
     Arena1(File(Rest(Other, <<2, 2>>, 1, 2, 2, 1), 2, 1, 1, 2, 0), NoOvl, <<0, 0>>,
            <<[at |-> 1, size |-> 2, free |-> 1], One(3, 0)>>)}
MCSizes == <<1, 2>>
=============================================================================
