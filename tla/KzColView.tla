------------------------------ MODULE KzColView ------------------------------
(***************************************************************************)
(* The collision and hitbox views of src/src/collision_view.c: when their  *)
(* display lists are allocated, written, handed to the RCP and freed.      *)
(*                                                                         *)
(* A frame is kz_col_view, kz_hitbox_view and then the menu, whose         *)
(* checkboxes of src/src/kz_scene_menu.c only ask for a change.  The RCP   *)
(* reads the lists that were handed over in the frame before.              *)
(***************************************************************************)
EXTENDS Integers

CONSTANT Scenes

ASSUME ColViewAssumption == Scenes # {}

VARIABLES collision_view_status, hitbox_view_status,
          col_view,       \* settings: line, red and upd
          scene_index,    \* the scene the game shows
          built,          \* what the lists were built for: scene, line, red
          bufs,           \* buffers allocated
          dynamic_idx, hit_view_idx,
          drawn,          \* buffers handed over in this frame
          reading,        \* buffers handed over in the frame before
          touched,        \* buffers freed or written in this frame
          part            \* what the frame does next

ColVars == <<collision_view_status, hitbox_view_status, col_view, scene_index, built, bufs,
             dynamic_idx, hit_view_idx, drawn, reading, touched, part>>

Status == {"INACTIVE", "START", "ACTIVE", "BEGIN_STOP", "STOP", "BEGIN_RESTART", "RESTART"}
dynamic_gfx(i) == <<"dynamic_gfx", i>>
dynamic_line(i) == <<"dynamic_line", i>>
hit_view_disp(i) == <<"hit_view_disp", i>>
static_col == <<"static_col", 0>>
static_line == <<"static_line", 0>>
ColBuffers == {static_col, static_line} \cup {dynamic_gfx(i) : i \in 0..1} \cup {dynamic_line(i) : i \in 0..1}
HitBuffers == {hit_view_disp(i) : i \in 0..1}

ColInit ==
    /\ collision_view_status = "INACTIVE" /\ hitbox_view_status = "INACTIVE"
    /\ col_view \in [line : BOOLEAN, red : BOOLEAN, upd : BOOLEAN]
    /\ scene_index \in Scenes
    /\ built = [scene |-> CHOOSE s \in Scenes : TRUE, line |-> FALSE, red |-> FALSE]
    /\ bufs = {} /\ dynamic_idx = 0 /\ hit_view_idx = 0
    /\ drawn = {} /\ reading = {} /\ touched = {} /\ part = "game"

-----------------------------------------------------------------------------
(* Between the frames the game may change scenes; its list is sent.        *)
GameRuns ==
    /\ part = "game"
    /\ scene_index' \in Scenes
    /\ reading' = drawn /\ drawn' = {} /\ touched' = {}
    /\ part' = "collision"
    /\ UNCHANGED <<collision_view_status, hitbox_view_status, col_view, built, bufs,
                   dynamic_idx, hit_view_idx>>

(* The lists no longer show what the settings and the scene ask for.       *)
Outdated ==
    \/ col_view.upd /\ built.scene # scene_index
    \/ built.line # col_view.line
    \/ built.red # col_view.red

StatusOnEntry(enabled) ==
    IF enabled /\ collision_view_status = "ACTIVE" /\ Outdated
    THEN "BEGIN_RESTART" ELSE collision_view_status

(* A stop or restart waits a frame before the buffers are freed.           *)
NextStatusSlip(status) ==
    CASE status = "BEGIN_STOP"    -> "INACTIVE"
      [] status = "BEGIN_RESTART" -> "RESTART"
      [] status = "STOP"          -> "INACTIVE"
      [] OTHER                    -> status
NextStatus(status) ==
    CASE status = "BEGIN_STOP"    -> "STOP"
      [] status = "BEGIN_RESTART" -> "RESTART"
      [] status = "STOP"          -> "INACTIVE"
      [] OTHER                    -> status
Frees(status) == status \in {"STOP", "RESTART"}

(* Whether the lists are built is decided by the status before all that.   *)
kz_col_view(enabled) ==
    LET begins == collision_view_status \in {"START", "RESTART"}
        init   == enabled /\ begins
        status == StatusOnEntry(enabled)
        freed  == IF Frees(status) THEN bufs \cap ColBuffers ELSE {}
        now    == IF init THEN [scene |-> scene_index, line |-> col_view.line, red |-> col_view.red] ELSE built
        after  == IF init THEN "ACTIVE" ELSE NextStatus(status)
        new    == IF init
                  THEN {static_col, dynamic_gfx(0), dynamic_gfx(1)}
                       \cup IF now.line THEN {static_line, dynamic_line(0), dynamic_line(1)} ELSE {}
                  ELSE {}
        rewrites == enabled /\ (init \/ (after = "ACTIVE" /\ col_view.upd))
        idx    == IF rewrites THEN 1 - dynamic_idx ELSE dynamic_idx
        written == IF rewrites
                   THEN {dynamic_gfx(idx)} \cup IF now.line THEN {dynamic_line(idx)} ELSE {}
                   ELSE {}
    IN /\ collision_view_status' = after
       /\ built' = now
       /\ bufs' = (bufs \ freed) \cup new
       /\ dynamic_idx' = idx
       /\ touched' = touched \cup freed \cup written
       /\ drawn' = drawn \cup
              IF enabled /\ after = "ACTIVE"
              THEN {static_col, dynamic_gfx(idx)}
                   \cup IF now.line THEN {static_line, dynamic_line(idx)} ELSE {}
              ELSE {}

CollisionView ==
    /\ part = "collision" /\ part' = "hitbox"
    /\ \E enabled \in BOOLEAN : kz_col_view(enabled)
    /\ UNCHANGED <<hitbox_view_status, col_view, scene_index, hit_view_idx, reading>>

kz_hitbox_view(show) ==
    \/ /\ hitbox_view_status \in {"START", "ACTIVE"}
       /\ hitbox_view_status' = "ACTIVE"
       /\ bufs' = bufs \cup HitBuffers
       /\ IF show
          THEN /\ hit_view_idx' = 1 - hit_view_idx
               /\ touched' = touched \cup {hit_view_disp(hit_view_idx)}
               /\ drawn' = drawn \cup {hit_view_disp(hit_view_idx)}
          ELSE UNCHANGED <<hit_view_idx, touched, drawn>>
    \/ /\ hitbox_view_status = "BEGIN_STOP"
       /\ hitbox_view_status' = "STOP"
       /\ UNCHANGED <<bufs, hit_view_idx, touched, drawn>>
    \/ /\ hitbox_view_status = "STOP"
       /\ hitbox_view_status' = "INACTIVE"
       /\ bufs' = bufs \ HitBuffers
       /\ touched' = touched \cup HitBuffers
       /\ UNCHANGED <<hit_view_idx, drawn>>
    \/ /\ hitbox_view_status = "INACTIVE"
       /\ UNCHANGED <<hitbox_view_status, bufs, hit_view_idx, touched, drawn>>

HitboxView ==
    /\ part = "hitbox" /\ part' = "menu"
    /\ \E show \in BOOLEAN : kz_hitbox_view(show)
    /\ UNCHANGED <<collision_view_status, col_view, scene_index, built, dynamic_idx, reading>>

-----------------------------------------------------------------------------
(* The enable checkboxes: from any status but INACTIVE they ask to stop.   *)
Toggled(status) == IF status = "INACTIVE" THEN "START" ELSE "BEGIN_STOP"

collision_gen_event ==
    /\ collision_view_status' = Toggled(collision_view_status)
    /\ UNCHANGED <<hitbox_view_status, col_view>>

hitbox_gen_event ==
    /\ hitbox_view_status' = Toggled(hitbox_view_status)
    /\ UNCHANGED <<collision_view_status, col_view>>

(* Only "reduce" asks for a restart; the others are noticed, or not.       *)
collision_switch_event ==
    /\ \E switch \in {"red", "line", "upd"} :
          /\ col_view' = [col_view EXCEPT ![switch] = ~@]
          /\ collision_view_status' =
                 IF switch = "red" /\ collision_view_status = "ACTIVE"
                 THEN "BEGIN_RESTART" ELSE collision_view_status
    /\ UNCHANGED hitbox_view_status

(* A profile or the defaults replace the settings without a word to anyone.*)
SettingsLoaded ==
    /\ col_view' \in [line : BOOLEAN, red : BOOLEAN, upd : BOOLEAN]
    /\ UNCHANGED <<collision_view_status, hitbox_view_status>>

ColMenu ==
    /\ part = "menu" /\ part' = "game"
    /\ \/ collision_gen_event \/ hitbox_gen_event \/ collision_switch_event \/ SettingsLoaded
       \/ UNCHANGED <<collision_view_status, hitbox_view_status, col_view>>
    /\ UNCHANGED <<scene_index, built, bufs, dynamic_idx, hit_view_idx, drawn, reading, touched>>

ColNext == GameRuns \/ CollisionView \/ HitboxView \/ ColMenu
ColSpec == ColInit /\ [][ColNext]_ColVars

-----------------------------------------------------------------------------
(* However the checkboxes, the settings, the scene and the pause screen    *)
(* change, no buffer is freed or written while the RCP reads it, the lists *)
(* handed over stand, with the wireframe ones if lines are drawn, and were *)
(* built for the settings and the scene of this frame, and a view that is  *)
(* off holds no memory.                                                    *)
ListsStandWhileRead ==
    /\ touched \cap reading = {}
    /\ drawn \subseteq bufs
    /\ part = "hitbox" /\ static_col \in drawn => ~Outdated
    /\ collision_view_status = "INACTIVE" => bufs \cap ColBuffers = {}
    /\ hitbox_view_status = "INACTIVE" => bufs \cap HitBuffers = {}
=============================================================================
