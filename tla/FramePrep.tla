----------------------------- MODULE FramePrep -----------------------------
(***************************************************************************)
(* One frame of the application (src/src/engine/game_app.cpp): a function  *)
(* key may replace the scene, the animation moves nodes, and a chain of    *)
(* jobs builds the view, compiles the scene, and makes the render IR and   *)
(* the render frame that render() submits.  A full compilation happens     *)
(* once per scene; later frames update what the flags say has changed.     *)
(*                                                                         *)
(* The products of a frame live on: the IR and the frame are views into    *)
(* the buffers of the compiled scene, which a full compilation replaces.   *)
(*                                                                         *)
(* External: scene and render of wozzits-core.  compile() and              *)
(* update_compiled_transforms() read the nodes' world transforms; the      *)
(* incremental calls refresh what they update and keep the rest.           *)
(***************************************************************************)
EXTENDS Integers, Sequences, FiniteSets

CONSTANTS
    Groups,       \* parents that the ParentSubtree animation moves
    Members,      \* objects that may be animated
    Others,       \* objects that stay where they are
    GroupOf,      \* the group of each member
    LastMode,     \* index of the last of kDebugSceneModes
    Animation,    \* the animation of each mode
    DefaultMode,
    Poses,        \* local transforms; Base is where a node is built
    Base,
    Views,
    MaxBuilds     \* bound: scenes built

Modes == 0..LastMode
ASSUME FrameAssumption ==
    /\ IsFiniteSet(Groups) /\ IsFiniteSet(Members)
    /\ GroupOf \in [Members -> Groups]
    /\ LastMode \in Nat
    /\ Animation \in [Modes -> {"Static", "Leaves", "ParentSubtree"}]
    /\ DefaultMode \in Modes /\ Base \in Poses /\ Views # {} /\ MaxBuilds \in Nat \ {0}

Objects == Members \cup Others
Nodes == Groups \cup Objects

VARIABLES
    pc,         \* the step of the frame
    ready,      \* debug_object.ready
    mode,       \* mode_index
    config,     \* the mode whose DebugSceneConfig is current
    scene,      \* the mode the scene was built for
    local,      \* TransformNode::local
    world,      \* TransformNode::world: the locals from below the root down
    affected,   \* transform_affected_nodes
    dirty,      \* transforms_dirty
    valid,      \* compiled_scene_valid
    path,       \* render_prep_path
    view,       \* FrameStorage::view
    compiled,   \* FrameStorage::compiled_scene
    ir,         \* FrameStorage::render_ir: the compilation its views point into
    frame,      \* FrameStorage::render_frame
    builds      \* bound, and the number of the scene built last

debug == <<ready, mode, config, scene, affected, dirty, valid, builds>>
nodes == <<local, world>>
products == <<path, view, compiled, ir, frame>>
vars == <<pc, debug, nodes, products>>

-----------------------------------------------------------------------------
(* The scene: root, groups and objects.  Only a ParentSubtree scene has     *)
(* groups; in the others every object hangs from the root.                  *)

Grouped(i) == Animation[i] = "ParentSubtree"
BelowRoot(i) == IF Grouped(i) THEN Groups \cup Others ELSE Groups \cup Objects

\* compute_world(): the parent's world, then the node's local.
WorldAccumulated(i, w, l, n) == Append(w[n], l[n])
WorldFrom(i, w, l, n) == IF n \in BelowRoot(i) THEN <<l[n]>> ELSE Append(w[GroupOf[n]], l[n])

\* propagate_all(), from the root down.
Propagated(i, l) ==
    [n \in Nodes |-> IF n \in BelowRoot(i) THEN <<l[n]>> ELSE <<l[GroupOf[n]], l[n]>>]

AtBase == [n \in Nodes |-> Base]

Nothing == [scene |-> DefaultMode, build |-> 0, world |-> [n \in Objects |-> <<>>],
            view |-> CHOOSE v \in Views : TRUE]

\* init() has built the default scene; nothing has been compiled.
Init ==
    /\ pc = "mode"
    /\ ready = TRUE /\ mode = DefaultMode /\ config = DefaultMode /\ scene = DefaultMode
    /\ local = AtBase /\ world = Propagated(DefaultMode, AtBase)
    /\ affected = <<>> /\ dirty = FALSE /\ valid = FALSE
    /\ path = "FullCompile"
    /\ view = Nothing.view
    /\ compiled = Nothing /\ ir = 0 /\ frame = Nothing
    /\ builds = 1

-----------------------------------------------------------------------------
(* handle_debug_scene_mode_input() -> set_debug_scene_mode() *)

NoKey ==
    /\ pc = "mode"
    /\ pc' = "animate"
    /\ UNCHANGED <<debug, nodes, products>>

SameMode(i) ==
    /\ pc = "mode" /\ ready /\ mode = i
    /\ pc' = "animate"
    /\ UNCHANGED <<debug, nodes, products>>

\* set_debug_scene_mode() takes everything back before it builds; ready comes
\* back when the scene is built.
KeepCompiled(built) == ready' = built /\ dirty' = FALSE /\ UNCHANGED valid /\ path' = "FullCompile"
Retract(built) == ready' = built /\ dirty' = FALSE /\ valid' = FALSE /\ path' = "FullCompile"

\* build() may refuse the scene; the configuration has been changed by then.
SwitchFails(i) ==
    /\ pc = "mode" /\ ~(ready /\ mode = i)
    /\ Retract(FALSE)
    /\ config' = i
    /\ affected' = <<>>
    /\ pc' = "animate"
    /\ UNCHANGED <<mode, scene, builds, nodes, view, compiled, ir, frame>>

Switch(i) ==
    /\ pc = "mode" /\ ~(ready /\ mode = i) /\ builds < MaxBuilds
    /\ config' = i /\ scene' = i /\ mode' = i
    /\ local' = AtBase /\ world' = Propagated(i, AtBase)
    /\ affected' = <<>>
    /\ Retract(TRUE)
    /\ builds' = builds + 1
    /\ pc' = "animate"
    /\ UNCHANGED <<view, compiled, ir, frame>>

Press(i) == SameMode(i) \/ SwitchFails(i) \/ Switch(i)

\* F1 to F5 choose a mode, F6 the next one.
ModeKey == (\E i \in Modes : Press(i)) \/ Press((mode + 1) % (LastMode + 1))

-----------------------------------------------------------------------------
(* update_debug_object_animation() *)

Moved == CASE Animation[config] = "Leaves" -> Members
           [] Animation[config] = "ParentSubtree" -> Groups
           [] OTHER -> {}

\* Every order in which a scene may list some of its nodes.
Listings(S) ==
    {s \in [1..Cardinality(S) -> S] : \A x \in S : \E i \in 1..Cardinality(S) : s[i] = x}

GroupsThenMembers == {g \o m : g \in Listings(Groups), m \in Listings(Members)}
MembersThenGroups == {m \o g : g \in Listings(Groups), m \in Listings(Members)}

\* The lists of the nodes whose world must be computed again: a group before
\* its members.
LeavesFirst ==
    CASE Animation[config] = "Leaves" -> Listings(Members)
      [] Animation[config] = "ParentSubtree" -> MembersThenGroups
      [] OTHER -> {<<>>}
Affected ==
    CASE Animation[config] = "Leaves" -> Listings(Members)
      [] Animation[config] = "ParentSubtree" -> GroupsThenMembers
      [] OTHER -> {<<>>}

Animate ==
    /\ pc = "animate" /\ ready
    /\ \E q \in [Moved -> Poses] :
          local' = [n \in Nodes |-> IF n \in Moved THEN q[n] ELSE local[n]]
    /\ affected' \in Affected
    /\ dirty' = (affected' # <<>>)
    /\ pc' = "view"
    /\ UNCHANGED <<ready, mode, config, scene, valid, builds, world, products>>

AnimateNothing ==
    /\ pc = "animate" /\ ~ready
    /\ pc' = "view"
    /\ UNCHANGED <<debug, nodes, products>>

-----------------------------------------------------------------------------
(* The jobs *)

\* job_build_view(), from the camera and the window of this frame.
BuildView ==
    /\ pc = "view"
    /\ view' \in Views
    /\ pc' = "compile"
    /\ UNCHANGED <<debug, nodes, path, compiled, ir, frame>>

CompileFull ==
    /\ pc = "compile" /\ ready /\ ~valid
    /\ compiled' = [scene |-> scene, build |-> builds, world |-> [n \in Objects |-> world[n]],
                    view |-> view]
    /\ valid' = TRUE /\ dirty' = FALSE
    /\ path' = "FullCompile"
    /\ pc' = "ir"
    /\ UNCHANGED <<ready, mode, config, scene, affected, builds, nodes, view, ir, frame>>

\* update_world_for_nodes(), in the order of the list: the worlds after its
\* first k nodes.
UpdatedUpTo[k \in 0..Len(affected)] ==
    IF k = 0 THEN world
    ELSE [UpdatedUpTo[k - 1] EXCEPT
            ![affected[k]] = WorldFrom(scene, UpdatedUpTo[k - 1], local, affected[k])]
Updated == UpdatedUpTo[Len(affected)]

InAffected(n) == \E i \in DOMAIN affected : affected[i] = n

TransformsAndView(w) ==
    [compiled EXCEPT !.world = [n \in Objects |-> IF InAffected(n) THEN w[n] ELSE @[n]],
                     !.view = view]

CompileTransforms ==
    /\ pc = "compile" /\ ready /\ valid /\ dirty
    /\ world' = Updated
    /\ compiled' = TransformsAndView(Updated)
    /\ dirty' = FALSE
    /\ path' = "TransformAndView"
    /\ pc' = "ir"
    /\ UNCHANGED <<ready, mode, config, scene, affected, valid, builds, local, view, ir, frame>>

CompileView ==
    /\ pc = "compile" /\ ready /\ valid /\ ~dirty
    /\ compiled' = [compiled EXCEPT !.view = view]
    /\ path' = "ViewOnly"
    /\ pc' = "ir"
    /\ UNCHANGED <<debug, nodes, view, ir, frame>>

\* job_build_render_ir(): a full build points into the new buffers, an update
\* keeps the draws it has.
Rebuild == path = "FullCompile"

BuildIR ==
    /\ pc = "ir" /\ ready
    /\ ir' = IF Rebuild THEN compiled.build ELSE ir
    /\ pc' = "frame"
    /\ UNCHANGED <<debug, nodes, path, view, compiled, frame>>

\* job_build_render_frame()
BuildFrame ==
    /\ pc = "frame" /\ ready
    /\ frame' = IF path = "FullCompile"
                THEN [compiled EXCEPT !.build = ir]
                ELSE [frame EXCEPT !.world = compiled.world, !.view = compiled.view]
    /\ pc' = "render"
    /\ UNCHANGED <<debug, nodes, path, view, compiled, ir>>

\* Without a scene each of the three jobs returns at once.
JobsReturn ==
    /\ pc = "compile" /\ ~ready
    /\ pc' = "render"
    /\ UNCHANGED <<debug, nodes, products>>

\* render(): the frame is submitted if the scene is ready.
Render ==
    /\ pc = "render"
    /\ pc' = "mode"
    /\ UNCHANGED <<debug, nodes, products>>

-----------------------------------------------------------------------------
Next ==
    \/ NoKey \/ ModeKey
    \/ Animate \/ AnimateNothing
    \/ BuildView
    \/ CompileFull \/ CompileTransforms \/ CompileView
    \/ BuildIR \/ BuildFrame \/ JobsReturn
    \/ Render

Spec == Init /\ [][Next]_vars

-----------------------------------------------------------------------------
(* Properties *)

Paths == {"FullCompile", "ViewOnly", "TransformAndView"}
World == [Objects -> Seq(Poses)]
Product == [scene : Modes, build : 0..MaxBuilds, world : World, view : Views]

\* Every variable of the frame has its type; a world is at most two locals
\* deep, as the scenes are.
TypeOK ==
    /\ pc \in {"mode", "animate", "view", "compile", "ir", "frame", "render"}
    /\ ready \in BOOLEAN /\ dirty \in BOOLEAN /\ valid \in BOOLEAN
    /\ mode \in Modes /\ config \in Modes /\ scene \in Modes
    /\ local \in [Nodes -> Poses]
    /\ world \in [Nodes -> Seq(Poses)] /\ \A n \in Nodes : Len(world[n]) \in 1..2
    /\ affected \in Seq(Nodes)
    /\ path \in Paths /\ view \in Views
    /\ compiled \in Product /\ ir \in 0..MaxBuilds /\ frame \in Product
    /\ builds \in 1..MaxBuilds

Submitted == pc = "render" /\ ready

\* What is submitted was made from the scene that is there now, and no view in
\* it points into buffers of a compilation that has been replaced
\* (MemoryManagementDesignDoc.md, 4.7 and 4.8).
SceneSubmitted ==
    Submitted => frame.scene = scene /\ frame.build = builds /\ ir = builds /\ compiled.build = builds

\* Every object submitted stands where its own local transform and its
\* parent's put it, the parent's of this frame; in the first frame of a scene
\* it stands where the scene was built.
TransformsSubmitted ==
    Submitted =>
        \A n \in Objects :
            frame.world[n] = Propagated(scene, IF path = "FullCompile" THEN AtBase ELSE local)[n]

\* The view submitted is the one built in this frame, whichever path is taken.
ViewSubmitted == Submitted => frame.view = view

\* What a frame submits is the present scene, its transforms and this frame's
\* view together, whichever of the three paths prepared it and whatever failed
\* before (game_app.cpp:682-782).
FrameSubmitted == SceneSubmitted /\ TransformsSubmitted /\ ViewSubmitted
=============================================================================
