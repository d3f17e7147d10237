------------------------------- MODULE KzDisplay -------------------------------
(***************************************************************************)
(* The display lists that the collision and hitbox views write: do_poly_   *)
(* list of src/src/collision_view.c with the writers of src/src/poly_      *)
(* writer.c and src/src/line_writer.c, which leave room for commands in the*)
(* list and fill them in when they know what they draw.                    *)
(*                                                                         *)
(* A command is <<"vtx", vertices>>, <<"color", c>>, <<"tri", starts>>     *)
(* (each start is the first of three loaded vertices; two starts are a     *)
(* gsSP2Triangles) or <<"line", i, j>>; a vertex is the polygon and the    *)
(* corner it comes from.                                                   *)
(***************************************************************************)
EXTENDS Integers, Sequences, FiniteSets, SequencesExt

CONSTANTS POLY_VTX,   \* vertices of a batch of triangles (30)
          LINE_VTX,   \* vertices of a batch of lines (32)
          PolyTypes,  \* sets of the features a polygon's type can have
          MaxPolys    \* polygons of a scene; bounds the model

ASSUME DisplayAssumption ==
    /\ POLY_VTX \in Nat \ {0} /\ POLY_VTX % 6 = 0
    /\ LINE_VTX \in Nat /\ LINE_VTX >= 3
    /\ MaxPolys \in Nat

VARIABLES col_view_red,  \* draw only polygons with a feature
          read,          \* features of the polygons read so far
          writer, line_writer

DisplayVars == <<col_view_red, read, writer, line_writer>>

-----------------------------------------------------------------------------
(* Commands at the end of the list and data from its end backwards, two    *)
(* words a vertex.                                                         *)
Emit(w, command) == [w EXCEPT !.p = Append(@, command)]
At(w, i, command) == [w EXCEPT !.p[i] = command]
Loaded(w) == [At(w, w.vtx_cmd, <<"vtx", w.v>>) EXCEPT !.d = @ + 2 * Len(w.v), !.vtx_cmd = 0]
Opened(w) ==
    IF w.vtx_cmd # 0 THEN w
    ELSE [Emit(w, <<"vtx", <<>>>>) EXCEPT !.vtx_cmd = Len(w.p) + 1]

poly_writer_init == [p |-> <<>>, d |-> 0, v |-> <<>>, vtx_cmd |-> 0, tri_cmd |-> 0, prev_color |-> "none"]

(* The last command drew two triangles; if there is only one, it is mended.*)
poly_writer_flush(w) ==
    LET loaded == IF w.vtx_cmd # 0 THEN Loaded(w) ELSE w
        mended == IF Len(w.v) % 6 # 0 THEN At(loaded, w.tri_cmd, <<"tri", <<Len(w.v) - 3>>>>) ELSE loaded
    IN [mended EXCEPT !.tri_cmd = 0, !.v = <<>>]

RecolouredSlip(w, color) == [Emit(w, <<"color", color>>) EXCEPT !.prev_color = color]
(* A new colour between the two triangles of a command takes them apart.   *)
Recoloured(w, color) ==
    LET pos == Len(w.v)
        set == [Emit(w, <<"color", color>>) EXCEPT !.prev_color = color]
    IN IF pos % 6 = 0 THEN set
       ELSE [Emit(At(set, w.tri_cmd, <<"tri", <<pos - 3>>>>), <<"tri", <<pos>>>>)
                EXCEPT !.tri_cmd = Len(set.p) + 1]

poly_writer_append(w, poly, color) ==
    LET pos    == Len(w.v)
        opened == Opened(w)
        right  == IF w.prev_color # color THEN Recoloured(opened, color) ELSE opened
        drawn  == IF pos % 6 # 0 THEN right
                  ELSE [Emit(right, <<"tri", <<pos, pos + 3>>>>) EXCEPT !.tri_cmd = Len(right.p) + 1]
        filled == [drawn EXCEPT !.v = @ \o [k \in 1..3 |-> <<poly, k>>]]
    IN IF Len(filled.v) = POLY_VTX THEN poly_writer_flush(filled) ELSE filled

line_writer_init == [p |-> <<>>, d |-> 0, v |-> <<>>, vtx_cmd |-> 0]

line_writer_flush(w) == [(IF w.vtx_cmd # 0 THEN Loaded(w) ELSE w) EXCEPT !.v = <<>>]

(* A line between any two of the vertices, also from one to itself.        *)
line_writer_append(w, vertices) ==
    LET room  == IF Len(w.v) + Len(vertices) > LINE_VTX THEN line_writer_flush(w) ELSE w
        n     == Len(vertices)
        Line(k) == <<"line", Len(room.v) + ((k - 1) \div n), Len(room.v) + ((k - 1) % n)>>
    IN [Opened(room) EXCEPT !.p = @ \o [k \in 1..n * n |-> Line(k)], !.v = @ \o vertices]

-----------------------------------------------------------------------------
(* The first feature that the order of the tests finds gives the colour.   *)
Colors == <<<<{"hookshot"}, "blue">>, <<{"interaction"}, "magenta">>, <<{"special_c"}, "red">>,
            <<{"exit", "special_5"}, "cyan">>, <<{"behavior", "wall_damage"}, "green">>,
            <<{"terrain"}, "yellow">>>>
Tests(type) == {k \in DOMAIN Colors : type \cap Colors[k][1] # {}}
Color(type) ==
    IF Tests(type) = {} THEN "white" ELSE Colors[CHOOSE k \in Tests(type) : \A j \in Tests(type) : k <= j][2]
Skipped(type) == col_view_red /\ Tests(type) = {}

(* What the buffers are allocated for.                                     *)
Featured == {"hookshot", "interaction", "special_c", "exit", "special_5", "behavior", "wall_damage", "terrain"}
calc_poly_cnt(types) ==
    IF ~col_view_red THEN Len(types)
    ELSE Cardinality({k \in DOMAIN types : types[k] \cap Featured # {}})
PolySize(types) == calc_poly_cnt(types) * 9 + 11
LineSize(types) == calc_poly_cnt(types) * 20 + 24

DisplayInit ==
    /\ col_view_red \in BOOLEAN /\ read = <<>>
    /\ writer = poly_writer_init /\ line_writer = line_writer_init

(* The set of lines drawn before stays empty, so all three are drawn.      *)
do_poly_list ==
    /\ Len(read) < MaxPolys
    /\ \E type \in PolyTypes :
          LET poly == Len(read) + 1 IN
          /\ read' = Append(read, type)
          /\ IF Skipped(type)
             THEN UNCHANGED <<writer, line_writer>>
             ELSE /\ writer' = poly_writer_append(writer, poly, Color(type))
                  /\ line_writer' = line_writer_append(line_writer, [k \in 1..3 |-> <<poly, k>>])
    /\ UNCHANGED col_view_red

DisplaySpec == DisplayInit /\ [][do_poly_list]_DisplayVars

-----------------------------------------------------------------------------
(* What the RCP makes of a list: triangles in their colours, and lines.    *)
Executed(rcp, command) ==
    CASE command[1] = "vtx"   -> [rcp EXCEPT !.loaded = command[2]]
      [] command[1] = "color" -> [rcp EXCEPT !.color = command[2]]
      [] command[1] = "tri"   ->
            [rcp EXCEPT !.tris = @ \o [t \in DOMAIN command[2] |->
                <<SubSeq(rcp.loaded, command[2][t] + 1, command[2][t] + 3), rcp.color>>]]
      [] command[1] = "line"  ->
            [rcp EXCEPT !.lines = @ \cup {{rcp.loaded[command[2] + 1], rcp.loaded[command[3] + 1]}}]
Shown(list) ==
    LET after[k \in 0..Len(list)] ==
            IF k = 0 THEN [loaded |-> <<>>, color |-> "none", tris |-> <<>>, lines |-> {}]
            ELSE Executed(after[k - 1], list[k])
    IN after[Len(list)]

DrawnPolys == FlattenSeq([k \in DOMAIN read |-> IF Skipped(read[k]) THEN <<>> ELSE <<k>>])

(* Wherever the scene ends, in whatever colours its polygons came and      *)
(* however batches and commands of two divided them, the finished list     *)
(* draws each polygon once, in its own colour, with its outline and no     *)
(* line of two polygons, and has kept within the memory allocated for it.  *)
ListDrawsScene ==
    LET polys == poly_writer_flush(writer)
        lines == line_writer_flush(line_writer)
    IN /\ Shown(polys.p).tris =
              [k \in DOMAIN DrawnPolys |->
                  <<[c \in 1..3 |-> <<DrawnPolys[k], c>>], Color(read[DrawnPolys[k]])>>]
       /\ Shown(lines.p).lines =
              {{<<poly, a>>, <<poly, b>>} : poly \in Range(DrawnPolys), a \in 1..3, b \in 1..3}
       /\ Len(polys.p) + 1 + polys.d <= PolySize(read)
       /\ Len(lines.p) + 1 + lines.d <= LineSize(read)
=============================================================================
