-------------------------- MODULE FramePrepProofs --------------------------
(***************************************************************************)
(* For every set of groups, members and other objects, every table of      *)
(* modes and any number of scenes: the types of FramePrep, and that what a *)
(* frame submits is the present scene with the transforms and the view of  *)
(* this frame, whichever path prepared it.                                 *)
(***************************************************************************)
EXTENDS FramePrep, FiniteSetTheorems, SequenceTheorems, WellFoundedInduction, TLAPS

\* The nodes that the animation of a mode moves, directly or with a parent.
Touched(i) ==
    CASE Animation[i] = "Leaves" -> Members
      [] Animation[i] = "ParentSubtree" -> Groups \cup Members
      [] OTHER -> {}

\* The list names a parent that must be recomputed before its children.
ParentsFirst(i, a) ==
    \A k \in 1..Len(a) : a[k] \notin BelowRoot(i) => \E j \in 1..k - 1 : a[j] = GroupOf[a[k]]

\* A scene that is ready is that of the configuration; a node it does not
\* animate is where the scene was built, and before the first compilation
\* every node is.
SceneInv ==
    ready =>
        /\ config = scene /\ mode = scene
        /\ \A n \in Nodes \ Touched(scene) :
              local[n] = Base /\ world[n] = Propagated(scene, AtBase)[n]
        /\ ~valid => \A n \in Nodes : world[n] = Propagated(scene, AtBase)[n]

\* From the animation to the compilation the list names what was animated.
ListInv ==
    ready /\ pc \in {"view", "compile"} =>
        /\ dirty <=> affected # <<>>
        /\ \A n \in Nodes : InAffected(n) <=> n \in Touched(scene)
        /\ ParentsFirst(scene, affected)

\* What has been compiled, and what was built from it, is of this scene.
ProductInv ==
    ready /\ valid =>
        /\ compiled.scene = scene /\ compiled.build = builds
        /\ \A n \in Objects \ Touched(scene) : compiled.world[n] = Propagated(scene, AtBase)[n]
        /\ (pc = "ir" => path # "FullCompile") => ir = builds
        /\ (pc \in {"ir", "frame"} => path # "FullCompile") =>
              frame.scene = scene /\ frame.build = builds

\* From the compilation to the submission the compiled scene is of this frame.
FreshInv ==
    /\ ready /\ pc \in {"ir", "frame", "render"} =>
          /\ valid /\ compiled.view = view
          /\ \A n \in Objects : compiled.world[n] =
                Propagated(scene, IF path = "FullCompile" THEN AtBase ELSE local)[n]
    /\ ready /\ pc = "render" => frame.view = view /\ frame.world = compiled.world

FrameInv == TypeOK /\ SceneInv /\ ListInv /\ ProductInv /\ FreshInv

-----------------------------------------------------------------------------
(* Worlds *)

\* A set of numbers that holds zero and every successor holds them all.
LEMMA SetInduction ==
    ASSUME NEW S, 0 \in S, \A n \in Nat : n \in S => n + 1 \in S
    PROVE  Nat \subseteq S
<1> DEFINE T == Nat \ S
           R == {ss \in Nat \X Nat : ss[1] < ss[2]}
<1>1. IsWellFoundedOn(R, Nat)  BY NatLessThanWellFounded DEF OpToRel
<1> SUFFICES ASSUME T # {} PROVE FALSE  OBVIOUS
<1>2. T \subseteq Nat  OBVIOUS
<1>3. \A x, y \in Nat : x < y => <<x, y>> \in R  OBVIOUS
<1>4. \A x \in T : x # 0 /\ x - 1 \in T  OBVIOUS
<1> HIDE DEF R, T
<1>5. PICK x \in T : \A y \in T : ~(<<y, x>> \in R)  BY <1>1, <1>2, WFMin
<1>6. x - 1 \in T /\ <<x - 1, x>> \in R  BY <1>2, <1>3, <1>4
<1> QED  BY <1>5, <1>6

LEMMA AppendToOne ==
    ASSUME NEW a \in Poses, NEW b \in Poses
    PROVE  Append(<<a>>, b) = <<a, b>>
<1>a. <<a>> \in Seq(Poses) /\ <<a, b>> \in Seq(Poses)  OBVIOUS
<1>1. PICK s \in Seq(Poses) : s = <<a>>  BY <1>a, Zenon
<1>2. PICK t \in Seq(Poses) : t = <<a, b>>  BY <1>a, Zenon
<1>3. PICK u \in Seq(Poses) : u = Append(s, b)  BY AppendProperties
<1>4. Len(s) = 1 /\ s[1] = a /\ Len(t) = 2 /\ t[1] = a /\ t[2] = b  BY <1>1, <1>2
<1>5. Len(u) = 2 /\ u[1] = a /\ u[2] = b
  <2>1. /\ Len(u) = Len(s) + 1 /\ u[Len(s) + 1] = b
        /\ \A i \in 1..Len(s) : u[i] = s[i]
    BY <1>3, AppendProperties
  <2> QED  BY <1>4, <2>1
<1>6. \A i \in 1..Len(t) : u[i] = t[i]
  <2> TAKE i \in 1..Len(t)
  <2>1. i = 1 \/ i = 2  BY <1>4
  <2> QED  BY <1>4, <1>5, <2>1
<1>7. u = t  BY <1>4, <1>5, <1>6, SeqEqual
<1> QED  BY <1>1, <1>2, <1>3, <1>7

\* A node hangs from the root or from a group that hangs from the root, so its
\* propagated world is its own local after that of its group, if it has one.
LEMMA PropagatedFrom ==
    ASSUME NEW i \in Modes, NEW l \in [Nodes -> Poses], NEW n \in Nodes
    PROVE  /\ Propagated(i, l)[n] \in Seq(Poses) /\ Len(Propagated(i, l)[n]) \in 1..2
           /\ n \in BelowRoot(i) => Propagated(i, l)[n] = <<l[n]>>
           /\ n \notin BelowRoot(i) =>
                 /\ n \in Members /\ GroupOf[n] \in BelowRoot(i) /\ GroupOf[n] \in Nodes
                 /\ Propagated(i, l)[n] = Append(Propagated(i, l)[GroupOf[n]], l[n])
<1>1. Propagated(i, l)[n] = IF n \in BelowRoot(i) THEN <<l[n]>> ELSE <<l[GroupOf[n]], l[n]>>
  BY DEF Propagated
<1>2. n \notin BelowRoot(i) => n \in Members /\ Grouped(i)
  BY DEF BelowRoot, Nodes, Objects
<1>3. n \in Members => GroupOf[n] \in Groups  BY FrameAssumption DEF FrameAssumption
<1>4. Groups \subseteq BelowRoot(i) /\ Groups \subseteq Nodes  BY DEF BelowRoot, Nodes
<1>5. \A g \in Groups : Propagated(i, l)[g] = <<l[g]>>  BY <1>4 DEF Propagated
<1>6. CASE n \in BelowRoot(i)  BY <1>1, <1>6
<1>7. CASE n \notin BelowRoot(i)
  <2>1. PICK g \in Groups : g = GroupOf[n]  BY <1>2, <1>3, <1>7
  <2>2. /\ g \in Nodes /\ g \in BelowRoot(i) /\ l[g] \in Poses /\ l[n] \in Poses
    BY <1>4
  <2>3. Propagated(i, l)[n] = <<l[g], l[n]>>  BY <1>1, <1>7, <2>1
  <2>4. Propagated(i, l)[g] = <<l[g]>>  BY <1>5
  <2>5. Append(<<l[g]>>, l[n]) = <<l[g], l[n]>>  BY <2>2, AppendToOne
  <2> QED  BY <1>2, <1>7, <2>1, <2>2, <2>3, <2>4, <2>5
<1> QED  BY <1>6, <1>7

\* update_world_for_nodes() gives every listed node its propagated world and
\* leaves the others, if the list names parents first.
LEMMA UpdatedWorlds ==
    ASSUME TypeOK, ParentsFirst(scene, affected)
    PROVE  Updated = [n \in Nodes |-> IF InAffected(n) THEN Propagated(scene, local)[n] ELSE world[n]]
<1> DEFINE N == Len(affected)
           Before(k) == {affected[i] : i \in 1..k}
           P == Propagated(scene, local)
           G == [k \in 0..N |-> [n \in Nodes |-> IF n \in Before(k) THEN P[n] ELSE world[n]]]
           Rec(g) == [k \in 0..N |->
                        IF k = 0 THEN world
                        ELSE [g[k - 1] EXCEPT
                                ![affected[k]] = WorldFrom(scene, g[k - 1], local, affected[k])]]
<1>t. /\ scene \in Modes /\ local \in [Nodes -> Poses] /\ world \in [Nodes -> Seq(Poses)]
      /\ affected \in Seq(Nodes) /\ N \in Nat /\ DOMAIN affected = 1..N
      /\ \A i \in 1..N : affected[i] \in Nodes
  BY LenProperties DEF TypeOK
<1>1. \A k \in 1..N : G[k] = [G[k - 1] EXCEPT
            ![affected[k]] = WorldFrom(scene, G[k - 1], local, affected[k])]
  <2> SUFFICES ASSUME NEW k \in 1..N
               PROVE  G[k] = [G[k - 1] EXCEPT
                         ![affected[k]] = WorldFrom(scene, G[k - 1], local, affected[k])]
    OBVIOUS
  <2>0. k \in 0..N /\ k - 1 \in 0..N  BY <1>t
  <2>1. PICK a \in Nodes : a = affected[k]  BY <1>t
  <2>2. Before(k) = Before(k - 1) \cup {a}
    <3>1. 1..k = (1..k - 1) \cup {k}  BY <1>t
    <3> QED  BY <2>1, <3>1
  <2>3. /\ G[k] = [n \in Nodes |-> IF n \in Before(k) THEN P[n] ELSE world[n]]
        /\ G[k - 1] = [n \in Nodes |-> IF n \in Before(k - 1) THEN P[n] ELSE world[n]]
    BY <2>0
  <2>4. WorldFrom(scene, G[k - 1], local, a) = P[a]
    <3>1. CASE a \in BelowRoot(scene)
      <4>1. P[a] = <<local[a]>>  BY <1>t, <3>1, PropagatedFrom
      <4> QED  BY <3>1, <4>1 DEF WorldFrom
    <3>2. CASE a \notin BelowRoot(scene)
      <4>1. PICK g \in Nodes : g = GroupOf[a]  BY <1>t, <3>2, PropagatedFrom
      <4>2. P[a] = Append(P[g], local[a])  BY <1>t, <3>2, <4>1, PropagatedFrom
      <4>3. g \in Before(k - 1)  BY <2>1, <3>2, <4>1 DEF ParentsFirst
      <4>4. G[k - 1][g] = P[g]  BY <2>3, <4>3
      <4> QED  BY <3>2, <4>1, <4>2, <4>4 DEF WorldFrom
    <3> QED  BY <3>1, <3>2
  <2> HIDE DEF Before, P, G
  <2> QED  BY <2>1, <2>2, <2>3, <2>4
<1>2. G[0] = world
  <2>1. 0 \in 0..N /\ Before(0) = {}  BY <1>t
  <2> QED  BY <1>t, <2>1
<1> HIDE DEF P, Before
<1>3. G = Rec(G)
  <2>1. \A k \in 0..N : G[k] = Rec(G)[k]
    <3> HIDE DEF G
    <3> TAKE k \in 0..N
    <3>1. CASE k = 0  BY <1>2, <3>1
    <3>2. CASE k # 0
      <4>1. k \in 1..N  BY <1>t, <3>2
      <4> QED  BY <1>1, <3>2, <4>1
    <3> QED  BY <3>1, <3>2
  <2> QED  BY <2>1
<1> HIDE DEF G
<1>4. UpdatedUpTo = Rec(UpdatedUpTo)
  BY <1>3 DEF UpdatedUpTo
<1>5. \A k \in 0..N : UpdatedUpTo[k] = G[k]
  <2> DEFINE S == {k \in Nat : k \in 0..N => UpdatedUpTo[k] = G[k]}
  <2>1. 0 \in S
    <3>1. 0 \in 0..N  BY <1>t
    <3>2. UpdatedUpTo[0] = world  BY <1>4, <3>1
    <3> QED  BY <1>2, <3>2
  <2>2. \A k \in Nat : k \in S => k + 1 \in S
    <3> SUFFICES ASSUME NEW k \in Nat, k \in S, k + 1 \in 0..N
                 PROVE  UpdatedUpTo[k + 1] = G[k + 1]
      OBVIOUS
    <3>1. k + 1 # 0 /\ (k + 1) - 1 = k /\ k \in 0..N /\ k + 1 \in 1..N  BY <1>t
    <3>2. UpdatedUpTo[k] = G[k]  BY <3>1
    <3>3. UpdatedUpTo[k + 1] = [UpdatedUpTo[k] EXCEPT
              ![affected[k + 1]] = WorldFrom(scene, UpdatedUpTo[k], local, affected[k + 1])]
      BY <1>4, <3>1
    <3>4. G[k + 1] = [G[k] EXCEPT
              ![affected[k + 1]] = WorldFrom(scene, G[k], local, affected[k + 1])]
      BY <1>1, <3>1
    <3> QED  BY <3>2, <3>3, <3>4
  <2> HIDE DEF S
  <2>3. Nat \subseteq S  BY <2>1, <2>2, SetInduction
  <2> QED  BY <1>t, <2>3 DEF S
<1>6. Updated = G[N]  BY <1>t, <1>5 DEF Updated
<1>7. \A n \in Nodes : InAffected(n) <=> n \in Before(N)  BY <1>t DEF InAffected, Before
<1>8. G[N] = [n \in Nodes |-> IF n \in Before(N) THEN P[n] ELSE world[n]]  BY <1>t DEF G
<1> QED  BY <1>6, <1>7, <1>8 DEF P

-----------------------------------------------------------------------------
(* The lists of animated nodes *)

\* A listing names the nodes of the set and no other.
LEMMA ListingNames ==
    ASSUME NEW S, IsFiniteSet(S), NEW s \in Listings(S)
    PROVE  /\ s \in Seq(S) /\ Len(s) \in Nat /\ DOMAIN s = 1..Len(s)
           /\ \A i \in 1..Len(s) : s[i] \in S
           /\ \A x \in S : \E i \in 1..Len(s) : s[i] = x
<1>1. Cardinality(S) \in Nat  BY FS_CardinalityType
<1>2. s \in [1..Cardinality(S) -> S]  BY DEF Listings
<1>3. s \in Seq(S)  BY <1>1, <1>2
<1>4. Len(s) \in Nat /\ DOMAIN s = 1..Len(s)  BY <1>3, LenProperties
<1>5. 1..Len(s) = 1..Cardinality(S)  BY <1>2, <1>4
<1> QED  BY <1>2, <1>3, <1>4, <1>5 DEF Listings

\* Only a grouped scene has nodes that hang from a group.
LEMMA Rooted ==
    ASSUME NEW i \in Modes
    PROVE  /\ ~Grouped(i) => BelowRoot(i) = Nodes
           /\ Groups \subseteq BelowRoot(i)
           /\ Touched(i) \subseteq Nodes
           /\ Animation[i] \in {"Static", "Leaves", "ParentSubtree"}
           /\ Animation[i] = "Static" => Touched(i) = {}
           /\ Animation[i] = "Leaves" => Touched(i) = Members
           /\ Animation[i] = "ParentSubtree" => Touched(i) = Groups \cup Members
<1>1. Animation[i] \in {"Static", "Leaves", "ParentSubtree"}
  BY FrameAssumption DEF FrameAssumption
<1>2. /\ Animation[i] = "Static" => Touched(i) = {}
      /\ Animation[i] = "Leaves" => Touched(i) = Members
      /\ Animation[i] = "ParentSubtree" => Touched(i) = Groups \cup Members
  BY DEF Touched
<1>3. Touched(i) \subseteq Nodes  BY <1>1, <1>2 DEF Nodes, Objects
<1> QED  BY <1>1, <1>2, <1>3 DEF BelowRoot, Nodes

\* The list that update_debug_object_animation() leaves names what it moves
\* and what hangs from that, groups first.
LEMMA AffectedNames ==
    ASSUME config \in Modes, NEW a \in Affected
    PROVE  /\ a \in Seq(Nodes)
           /\ \A n \in Nodes : (\E i \in DOMAIN a : a[i] = n) <=> n \in Touched(config)
           /\ ParentsFirst(config, a)
<1>f. IsFiniteSet(Groups) /\ IsFiniteSet(Members) /\ GroupOf \in [Members -> Groups]
  BY FrameAssumption DEF FrameAssumption
<1>n. Groups \subseteq Nodes /\ Members \subseteq Nodes  BY DEF Nodes, Objects
<1>1. CASE Animation[config] = "Static"
  <2>1. a = <<>>  BY <1>1 DEF Affected
  <2>2. a \in Seq(Nodes) /\ Len(a) = 0 /\ DOMAIN a = {}  BY <2>1
  <2> QED  BY <1>1, <2>2, Rooted DEF ParentsFirst
<1>2. CASE Animation[config] = "Leaves"
  <2>1. a \in Listings(Members)  BY <1>2 DEF Affected
  <2>2. /\ a \in Seq(Members) /\ DOMAIN a = 1..Len(a)
        /\ \A i \in 1..Len(a) : a[i] \in Members
        /\ \A x \in Members : \E i \in 1..Len(a) : a[i] = x
    BY <1>f, <2>1, ListingNames
  <2>3. a \in Seq(Nodes)  BY <1>n, <2>2, SeqMonotonic
  <2>4. ParentsFirst(config, a)
    <3>1. BelowRoot(config) = Nodes  BY <1>2, Rooted DEF Grouped
    <3> QED  BY <1>n, <2>2, <3>1 DEF ParentsFirst
  <2> QED  BY <1>2, <2>2, <2>3, <2>4, Rooted
<1>3. CASE Animation[config] = "ParentSubtree"
  <2>1. PICK g \in Listings(Groups), m \in Listings(Members) : a = g \o m
    BY <1>3 DEF Affected, GroupsThenMembers
  <2>2. /\ g \in Seq(Groups) /\ Len(g) \in Nat /\ \A i \in 1..Len(g) : g[i] \in Groups
        /\ \A x \in Groups : \E i \in 1..Len(g) : g[i] = x
    BY <1>f, ListingNames
  <2>3. /\ m \in Seq(Members) /\ Len(m) \in Nat /\ \A i \in 1..Len(m) : m[i] \in Members
        /\ \A x \in Members : \E i \in 1..Len(m) : m[i] = x
    BY <1>f, ListingNames
  <2>4. g \in Seq(Nodes) /\ m \in Seq(Nodes)  BY <1>n, <2>2, <2>3, SeqMonotonic
  <2>5. /\ a \in Seq(Nodes) /\ Len(a) = Len(g) + Len(m)
        /\ \A i \in 1..Len(g) + Len(m) : a[i] = IF i <= Len(g) THEN g[i] ELSE m[i - Len(g)]
    BY <2>1, <2>4, ConcatProperties
  <2>6. DOMAIN a = 1..Len(a)  BY <2>5, LenProperties
  <2>p. PICK p \in Nat : p = Len(g)  BY <2>2
  <2>q. PICK q \in Nat : q = Len(m)  BY <2>3
  <2>a. /\ Len(a) = p + q
        /\ \A i \in 1..p + q : a[i] = IF i <= p THEN g[i] ELSE m[i - p]
        /\ \A i \in 1..p : g[i] \in Groups
        /\ \A i \in 1..q : m[i] \in Members
        /\ \A x \in Groups : \E i \in 1..p : g[i] = x
        /\ \A x \in Members : \E i \in 1..q : m[i] = x
    BY <2>2, <2>3, <2>5, <2>p, <2>q
  <2>7. \A x \in Groups : \E i \in 1..p : a[i] = x
    <3>1. \A i \in 1..p : i \in 1..p + q /\ i <= p  OBVIOUS
    <3>2. \A i \in 1..p : a[i] = g[i]  BY <2>a, <3>1
    <3> QED  BY <2>a, <3>2
  <2>8. \A x \in Members : \E i \in 1..p + q : a[i] = x
    <3> SUFFICES ASSUME NEW x \in Members PROVE \E i \in 1..p + q : a[i] = x  OBVIOUS
    <3>1. PICK i \in 1..q : m[i] = x  BY <2>a
    <3>2. p + i \in 1..p + q /\ ~(p + i <= p) /\ (p + i) - p = i  OBVIOUS
    <3> QED  BY <2>a, <3>1, <3>2
  <2>9. \A i \in 1..p + q : IF i <= p THEN a[i] \in Groups ELSE a[i] \in Members
    <3> TAKE i \in 1..p + q
    <3>1. CASE i <= p
      <4>1. i \in 1..p  BY <3>1
      <4> QED  BY <2>a, <3>1, <4>1
    <3>2. CASE ~(i <= p)
      <4>1. i - p \in 1..q  BY <3>2
      <4> QED  BY <2>a, <3>2, <4>1
    <3> QED  BY <3>1, <3>2
  <2>10. ParentsFirst(config, a)
    <3> SUFFICES ASSUME NEW k \in 1..p + q, a[k] \notin BelowRoot(config)
                 PROVE  \E j \in 1..k - 1 : a[j] = GroupOf[a[k]]
      BY <2>a DEF ParentsFirst
    <3>1. a[k] \notin Groups  BY Rooted
    <3>2. ~(k <= p) /\ a[k] \in Members  BY <2>9, <3>1
    <3>3. GroupOf[a[k]] \in Groups  BY <1>f, <3>2
    <3>4. PICK j \in 1..p : a[j] = GroupOf[a[k]]  BY <2>7, <3>3
    <3>5. j \in 1..k - 1  BY <3>2
    <3> QED  BY <3>4, <3>5
  <2>11. \A n \in Nodes : (\E i \in DOMAIN a : a[i] = n) <=> n \in Groups \cup Members
    <3>1. 1..p \subseteq 1..p + q  OBVIOUS
    <3>2. DOMAIN a = 1..p + q  BY <2>6, <2>a
    <3> TAKE n \in Nodes
    <3>3. ASSUME NEW i \in 1..p + q, a[i] = n PROVE n \in Groups \cup Members
      BY <2>9, <3>3
    <3>4. ASSUME n \in Groups \cup Members PROVE \E i \in 1..p + q : a[i] = n
      BY <2>7, <2>8, <3>1, <3>4
    <3> QED  BY <3>2, <3>3, <3>4
  <2> QED  BY <1>3, <2>5, <2>10, <2>11, Rooted
<1> QED  BY <1>1, <1>2, <1>3, Rooted

-----------------------------------------------------------------------------
(* The steps of a frame *)

LEMMA Scenes ==
    /\ AtBase \in [Nodes -> Poses]
    /\ \A n \in Nodes : AtBase[n] = Base
    /\ Objects \subseteq Nodes /\ Groups \subseteq Nodes /\ Members \subseteq Nodes
    /\ DefaultMode \in Modes /\ Base \in Poses /\ MaxBuilds \in Nat \ {0}
BY FrameAssumption DEF AtBase, Nodes, Objects, FrameAssumption

\* A propagated scene is a function of types.
LEMMA PropagatedTyped ==
    ASSUME NEW i \in Modes, NEW l \in [Nodes -> Poses]
    PROVE  /\ Propagated(i, l) \in [Nodes -> Seq(Poses)]
           /\ \A n \in Nodes : Len(Propagated(i, l)[n]) \in 1..2
<1>1. \A n \in Nodes : Propagated(i, l)[n] \in Seq(Poses) /\ Len(Propagated(i, l)[n]) \in 1..2
  BY PropagatedFrom
<1>2. Propagated(i, l) = [n \in Nodes |-> Propagated(i, l)[n]]  BY DEF Propagated
<1> QED  BY <1>1, <1>2

\* Nodes that are not animated are where the locals put them, whatever the
\* others do.
LEMMA UntouchedStays ==
    ASSUME NEW i \in Modes, NEW l \in [Nodes -> Poses], NEW n \in Nodes \ Touched(i), l[n] = Base
    PROVE  Propagated(i, l)[n] = Propagated(i, AtBase)[n]
<1>1. CASE n \in BelowRoot(i)
  <2>1. AtBase \in [Nodes -> Poses] /\ AtBase[n] = Base  BY Scenes
  <2>2. Propagated(i, l)[n] = <<l[n]>>  BY <1>1, PropagatedFrom
  <2>3. Propagated(i, AtBase)[n] = <<AtBase[n]>>  BY <1>1, <2>1, PropagatedFrom
  <2> QED  BY <2>1, <2>2, <2>3
<1>2. CASE n \notin BelowRoot(i)
  <2>1. n \in Members /\ Grouped(i)  BY <1>2, Rooted, PropagatedFrom, Scenes
  <2>2. n \in Touched(i)  BY <2>1, Rooted DEF Grouped
  <2> QED  BY <2>2
<1> QED  BY <1>1, <1>2

LEMMA NothingTyped ==
    Nothing \in Product /\ Nothing.view \in Views /\ Nothing.build = 0
<1>1. (CHOOSE v \in Views : TRUE) \in Views  BY FrameAssumption DEF FrameAssumption
<1>2. [n \in Objects |-> <<>>] \in World
  <2>1. <<>> \in Seq(Poses)  BY EmptySeq
  <2> QED  BY <2>1 DEF World
<1>3. DefaultMode \in Modes /\ 0 \in 0..MaxBuilds  BY Scenes
<1> QED  BY <1>1, <1>2, <1>3 DEF Nothing, Product

LEMMA FrameInit == Init => FrameInv
<1> SUFFICES ASSUME Init PROVE FrameInv  OBVIOUS
<1>1. /\ world \in [Nodes -> Seq(Poses)] /\ local \in [Nodes -> Poses]
      /\ \A n \in Nodes : Len(world[n]) \in 1..2
  BY Scenes, PropagatedTyped DEF Init
<1>2. affected \in Seq(Nodes)  BY DEF Init
<1>a. /\ pc = "mode" /\ ready = TRUE /\ mode = DefaultMode /\ config = DefaultMode
      /\ scene = DefaultMode /\ dirty = FALSE /\ valid = FALSE /\ path = "FullCompile"
      /\ view = Nothing.view /\ compiled = Nothing /\ ir = 0 /\ frame = Nothing /\ builds = 1
  BY DEF Init
<1>b. 0 \in 0..MaxBuilds /\ 1 \in 1..MaxBuilds  BY Scenes
<1>3. TypeOK
  BY <1>1, <1>2, <1>a, <1>b, Scenes, NothingTyped DEF TypeOK, Paths
<1>4. SceneInv  BY Scenes DEF Init, SceneInv
<1>5. ListInv /\ ProductInv /\ FreshInv  BY DEF Init, ListInv, ProductInv, FreshInv
<1> QED  BY <1>3, <1>4, <1>5 DEF FrameInv

\* Steps that only go on to the next point of the frame.
LEMMA PassStep ==
    ASSUME FrameInv, UNCHANGED <<debug, nodes, products>>,
           \/ pc = "mode" /\ pc' = "animate"
           \/ pc = "animate" /\ ~ready /\ pc' = "view"
           \/ pc = "compile" /\ ~ready /\ pc' = "render"
           \/ pc = "render" /\ pc' = "mode"
    PROVE  FrameInv'
<1>1. TypeOK'  BY DEF FrameInv, TypeOK, debug, nodes, products
<1>2. SceneInv' /\ ListInv'
  BY DEF FrameInv, SceneInv, ListInv, InAffected, debug, nodes, products
<1>3. ProductInv' /\ FreshInv'
  BY DEF FrameInv, ProductInv, FreshInv, debug, nodes, products
<1> QED  BY <1>1, <1>2, <1>3 DEF FrameInv

LEMMA SwitchSteps ==
    ASSUME FrameInv, NEW i \in Modes, SwitchFails(i) \/ Switch(i)
    PROVE  FrameInv'
<1>1. CASE SwitchFails(i)
  <2>1. TypeOK'
    <3>1. affected' \in Seq(Nodes)  BY <1>1, EmptySeq DEF SwitchFails
    <3>2. /\ pc' = "animate" /\ ready' = FALSE /\ dirty' = FALSE /\ valid' = FALSE
          /\ path' = "FullCompile" /\ config' = i
          /\ UNCHANGED <<mode, scene, builds, local, world, view, compiled, ir, frame>>
      BY <1>1 DEF SwitchFails, Retract, nodes
    <3> QED  BY <3>1, <3>2 DEF FrameInv, TypeOK, Paths
  <2> QED  BY <1>1, <2>1 DEF FrameInv, SwitchFails, Retract, SceneInv, ListInv, ProductInv, FreshInv
<1>2. CASE Switch(i)
  <2>1. /\ ready' /\ ~valid' /\ pc' = "animate" /\ scene' = i /\ config' = i /\ mode' = i
        /\ local' = AtBase /\ world' = Propagated(i, AtBase)
    BY <1>2 DEF Switch, Retract
  <2>2. TypeOK'
    <3>1. local' \in [Nodes -> Poses] /\ world' \in [Nodes -> Seq(Poses)]
          /\ \A n \in Nodes : Len(world'[n]) \in 1..2
      BY <2>1, Scenes, PropagatedTyped
    <3>2. builds' \in 1..MaxBuilds  BY <1>2, Scenes DEF Switch, FrameInv, TypeOK
    <3>3. affected' \in Seq(Nodes)  BY <1>2, EmptySeq DEF Switch
    <3>4. /\ dirty' = FALSE /\ valid' = FALSE /\ ready' = TRUE /\ path' = "FullCompile"
          /\ UNCHANGED <<view, compiled, ir, frame>>
      BY <1>2 DEF Switch, Retract
    <3> QED  BY <2>1, <3>1, <3>2, <3>3, <3>4 DEF FrameInv, TypeOK, Paths
  <2>3. SceneInv'  BY <2>1, Scenes DEF SceneInv
  <2>4. ListInv' /\ ProductInv' /\ FreshInv'  BY <2>1 DEF ListInv, ProductInv, FreshInv
  <2> QED  BY <2>2, <2>3, <2>4 DEF FrameInv
<1> QED  BY <1>1, <1>2

LEMMA AnimateStep ==
    ASSUME FrameInv, Animate
    PROVE  FrameInv'
<1>1. /\ pc = "animate" /\ pc' = "view" /\ ready
      /\ UNCHANGED <<ready, mode, config, scene, valid, builds, world, products>>
      /\ affected' \in Affected
  BY DEF Animate
<1>2. PICK q \in [Moved -> Poses] :
        local' = [n \in Nodes |-> IF n \in Moved THEN q[n] ELSE local[n]]
  BY DEF Animate
<1>3. config = scene /\ config \in Modes  BY <1>1 DEF FrameInv, TypeOK, SceneInv
<1>4. /\ affected' \in Seq(Nodes)
      /\ \A n \in Nodes : (\E k \in DOMAIN affected' : affected'[k] = n) <=> n \in Touched(scene)
      /\ ParentsFirst(scene, affected')
  BY <1>1, <1>3, AffectedNames
<1>5. Moved \subseteq Touched(scene)  BY <1>3, Rooted DEF Moved
<1>6. TypeOK'
  <2>1. local' \in [Nodes -> Poses]  BY <1>2 DEF FrameInv, TypeOK
  <2>2. dirty' \in BOOLEAN  BY Zenon DEF Animate
  <2> QED  BY <1>1, <1>4, <2>1, <2>2 DEF FrameInv, TypeOK, products
<1>7. SceneInv'
  BY <1>1, <1>2, <1>5 DEF FrameInv, SceneInv
<1>8. ListInv'
  <2>1. dirty' <=> affected' # <<>>  BY Zenon DEF Animate
  <2>2. \A n \in Nodes : InAffected(n)' <=> n \in Touched(scene)
    BY <1>4 DEF InAffected
  <2> QED  BY <1>1, <1>4, <2>1, <2>2 DEF ListInv
<1>9. ProductInv' /\ FreshInv'
  BY <1>1 DEF FrameInv, ProductInv, FreshInv, products
<1> QED  BY <1>6, <1>7, <1>8, <1>9 DEF FrameInv

LEMMA ViewStep ==
    ASSUME FrameInv, BuildView
    PROVE  FrameInv'
<1>1. /\ pc = "view" /\ pc' = "compile" /\ view' \in Views
      /\ UNCHANGED <<debug, nodes, path, compiled, ir, frame>>
  BY DEF BuildView
<1>2. TypeOK'  BY <1>1 DEF FrameInv, TypeOK, debug, nodes
<1>3. SceneInv' /\ ListInv'
  BY <1>1 DEF FrameInv, SceneInv, ListInv, InAffected, debug, nodes
<1>4. ProductInv' /\ FreshInv'
  BY <1>1 DEF FrameInv, ProductInv, FreshInv, debug, nodes
<1> QED  BY <1>2, <1>3, <1>4 DEF FrameInv

LEMMA CompileFullStep ==
    ASSUME FrameInv, CompileFull
    PROVE  FrameInv'
<1>1. /\ pc = "compile" /\ pc' = "ir" /\ ready /\ ~valid /\ valid' = TRUE /\ dirty' = FALSE
      /\ path' = "FullCompile"
      /\ compiled' = [scene |-> scene, build |-> builds, world |-> [n \in Objects |-> world[n]],
                      view |-> view]
      /\ UNCHANGED <<ready, mode, config, scene, affected, builds, nodes, view, ir, frame>>
  BY DEF CompileFull
<1>2. TypeOK'
  <2>1. [n \in Objects |-> world[n]] \in World  BY Scenes DEF FrameInv, TypeOK, World
  <2>2. builds \in 0..MaxBuilds  BY DEF FrameInv, TypeOK
  <2>3. compiled' \in Product  BY <1>1, <2>1, <2>2 DEF FrameInv, TypeOK, Product
  <2> QED  BY <1>1, <2>3 DEF FrameInv, TypeOK, Paths, nodes
<1>3. SceneInv' /\ ListInv'  BY <1>1 DEF FrameInv, SceneInv, ListInv, nodes
<1>4. \A n \in Objects : compiled'.world[n] = Propagated(scene, AtBase)[n]
  BY <1>1, Scenes DEF FrameInv, SceneInv
<1>5. ProductInv' /\ FreshInv'  BY <1>1, <1>4 DEF ProductInv, FreshInv, nodes
<1> QED  BY <1>2, <1>3, <1>5 DEF FrameInv

\* The two incremental paths keep the scene and the buffers they find.
LEMMA CompileUpdateSteps ==
    ASSUME FrameInv, CompileTransforms \/ CompileView
    PROVE  FrameInv'
<1>t. /\ scene \in Modes /\ local \in [Nodes -> Poses] /\ world \in [Nodes -> Seq(Poses)]
      /\ compiled \in Product /\ view \in Views
      /\ \A n \in Nodes : Len(world[n]) \in 1..2
  BY DEF FrameInv, TypeOK
<1>1. CASE CompileTransforms
  <2>1. /\ pc = "compile" /\ pc' = "ir" /\ ready /\ valid /\ dirty' = FALSE
        /\ path' = "TransformAndView"
        /\ world' = Updated /\ compiled' = TransformsAndView(Updated)
        /\ UNCHANGED <<ready, mode, config, scene, affected, valid, builds, local, view, ir, frame>>
    BY <1>1 DEF CompileTransforms
  <2>2. /\ ParentsFirst(scene, affected)
        /\ \A n \in Nodes : InAffected(n) <=> n \in Touched(scene)
    BY <2>1 DEF FrameInv, ListInv
  <2>3. world' = [n \in Nodes |-> IF n \in Touched(scene) THEN Propagated(scene, local)[n] ELSE world[n]]
    BY <2>1, <2>2, UpdatedWorlds DEF FrameInv
  <2>4. /\ compiled' \in Product
        /\ compiled'.scene = compiled.scene /\ compiled'.build = compiled.build
        /\ compiled'.view = view
        /\ \A n \in Objects : compiled'.world[n] =
              IF n \in Touched(scene) THEN world'[n] ELSE compiled.world[n]
    <3>1. compiled' = [scene |-> compiled.scene, build |-> compiled.build,
                       world |-> [n \in Objects |-> IF InAffected(n) THEN world'[n] ELSE compiled.world[n]],
                       view  |-> view]
      BY <1>t, <2>1 DEF TransformsAndView, Product
    <3>2. world' \in [Nodes -> Seq(Poses)]  BY <1>t, <2>3, PropagatedTyped
    <3>3. [n \in Objects |-> IF InAffected(n) THEN world'[n] ELSE compiled.world[n]] \in World
      BY <1>t, <3>2, Scenes DEF World, Product
    <3> QED  BY <1>t, <2>2, <3>1, <3>3, Scenes DEF Product
  <2>5. TypeOK'
    <3>1. world' \in [Nodes -> Seq(Poses)] /\ \A n \in Nodes : Len(world'[n]) \in 1..2
      BY <1>t, <2>3, PropagatedTyped
    <3> QED  BY <2>1, <2>4, <3>1 DEF FrameInv, TypeOK, Paths
  <2>6. SceneInv' /\ ListInv'
    BY <2>1, <2>3 DEF FrameInv, SceneInv, ListInv
  <2>7. \A n \in Objects : compiled'.world[n] = Propagated(scene, local)[n]
    <3> SUFFICES ASSUME NEW n \in Objects PROVE compiled'.world[n] = Propagated(scene, local)[n]
      OBVIOUS
    <3>1. n \in Nodes  BY Scenes
    <3>2. CASE n \in Touched(scene)  BY <2>3, <2>4, <3>1, <3>2
    <3>3. CASE n \notin Touched(scene)
      <4>1. compiled'.world[n] = Propagated(scene, AtBase)[n]
        BY <2>1, <2>4, <3>3 DEF FrameInv, ProductInv
      <4>2. local[n] = Base  BY <2>1, <3>1, <3>3 DEF FrameInv, SceneInv
      <4> QED  BY <1>t, <3>1, <3>3, <4>1, <4>2, UntouchedStays
    <3> QED  BY <3>2, <3>3
  <2>8. ProductInv'
    BY <2>1, <2>4 DEF FrameInv, ProductInv
  <2>9. FreshInv'  BY <2>1, <2>4, <2>7 DEF FreshInv
  <2> QED  BY <2>5, <2>6, <2>8, <2>9 DEF FrameInv
<1>2. CASE CompileView
  <2>1. /\ pc = "compile" /\ pc' = "ir" /\ ready /\ valid /\ ~dirty /\ path' = "ViewOnly"
        /\ compiled' = [compiled EXCEPT !.view = view]
        /\ UNCHANGED <<debug, nodes, view, ir, frame>>
    BY <1>2 DEF CompileView
  <2>2. /\ compiled' \in Product
        /\ compiled'.scene = compiled.scene /\ compiled'.build = compiled.build
        /\ compiled'.view = view /\ compiled'.world = compiled.world
    BY <1>t, <2>1 DEF Product
  <2>3. TypeOK'  BY <2>1, <2>2 DEF FrameInv, TypeOK, Paths, debug, nodes
  <2>4. SceneInv' /\ ListInv'  BY <2>1 DEF FrameInv, SceneInv, ListInv, debug, nodes
  <2>5. \A n \in Objects : compiled.world[n] = Propagated(scene, local)[n]
    <3> SUFFICES ASSUME NEW n \in Objects PROVE compiled.world[n] = Propagated(scene, local)[n]
      OBVIOUS
    <3>1. n \in Nodes  BY Scenes
    <3>2. n \notin Touched(scene)
      <4>1. affected = <<>>  BY <2>1 DEF FrameInv, ListInv
      <4>2. ~InAffected(n)  BY <4>1 DEF InAffected
      <4> QED  BY <2>1, <3>1, <4>2 DEF FrameInv, ListInv
    <3>3. compiled.world[n] = Propagated(scene, AtBase)[n]
      BY <2>1, <3>2 DEF FrameInv, ProductInv
    <3>4. local[n] = Base  BY <2>1, <3>1, <3>2 DEF FrameInv, SceneInv
    <3> QED  BY <1>t, <3>1, <3>2, <3>3, <3>4, UntouchedStays
  <2>6. ProductInv'  BY <2>1, <2>2 DEF FrameInv, ProductInv, debug
  <2>7. FreshInv'  BY <2>1, <2>2, <2>5 DEF FreshInv, debug, nodes
  <2> QED  BY <2>3, <2>4, <2>6, <2>7 DEF FrameInv
<1> QED  BY <1>1, <1>2

LEMMA BuildSteps ==
    ASSUME FrameInv, BuildIR \/ BuildFrame
    PROVE  FrameInv'
<1>t. compiled \in Product /\ frame \in Product /\ ir \in 0..MaxBuilds  BY DEF FrameInv, TypeOK
<1>1. CASE BuildIR
  <2>1. /\ pc = "ir" /\ pc' = "frame" /\ ready
        /\ ir' = IF path = "FullCompile" THEN compiled.build ELSE ir
        /\ UNCHANGED <<debug, nodes, path, view, compiled, frame>>
    BY <1>1 DEF BuildIR, Rebuild
  <2>2. ir' \in 0..MaxBuilds  BY <1>t, <2>1 DEF Product
  <2>3. TypeOK'  BY <2>1, <2>2 DEF FrameInv, TypeOK, debug, nodes
  <2>4. SceneInv' /\ ListInv'  BY <2>1 DEF FrameInv, SceneInv, ListInv, debug, nodes
  <2>5. ProductInv' /\ FreshInv'  BY <2>1 DEF FrameInv, ProductInv, FreshInv, debug, nodes
  <2> QED  BY <2>3, <2>4, <2>5 DEF FrameInv
<1>2. CASE BuildFrame
  <2>1. /\ pc = "frame" /\ pc' = "render" /\ ready
        /\ UNCHANGED <<debug, nodes, path, view, compiled, ir>>
    BY <1>2 DEF BuildFrame
  <2>2. /\ ir = builds /\ compiled.scene = scene /\ compiled.view = view /\ valid
        /\ path # "FullCompile" => frame.scene = scene /\ frame.build = builds
    BY <2>1 DEF FrameInv, ProductInv, FreshInv
  <2>3. /\ frame' \in Product /\ frame'.world = compiled.world /\ frame'.view = compiled.view
        /\ frame'.scene = scene /\ frame'.build = builds
    <3>1. CASE path = "FullCompile"
      <4>1. frame' = [compiled EXCEPT !.build = ir]  BY <1>2, <3>1 DEF BuildFrame
      <4> QED  BY <1>t, <2>2, <4>1 DEF Product
    <3>2. CASE path # "FullCompile"
      <4>1. frame' = [scene |-> frame.scene, build |-> frame.build, world |-> compiled.world,
                      view |-> compiled.view]
        BY <1>t, <1>2, <3>2 DEF BuildFrame, Product
      <4> QED  BY <1>t, <2>2, <3>2, <4>1 DEF Product
    <3> QED  BY <3>1, <3>2
  <2>4. TypeOK'  BY <2>1, <2>3 DEF FrameInv, TypeOK, debug, nodes
  <2>5. SceneInv' /\ ListInv'  BY <2>1 DEF FrameInv, SceneInv, ListInv, debug, nodes
  <2>6. ProductInv' /\ FreshInv'
    BY <2>1, <2>2, <2>3 DEF FrameInv, ProductInv, FreshInv, debug, nodes
  <2> QED  BY <2>4, <2>5, <2>6 DEF FrameInv
<1> QED  BY <1>1, <1>2

LEMMA FrameNext == FrameInv /\ [Next]_vars => FrameInv'
<1> SUFFICES ASSUME FrameInv, [Next]_vars PROVE FrameInv'  OBVIOUS
<1>1. CASE NoKey \/ AnimateNothing \/ JobsReturn \/ Render
  BY <1>1, PassStep DEF NoKey, AnimateNothing, JobsReturn, Render
<1>2. ASSUME NEW i \in Modes, Press(i) PROVE FrameInv'
  <2>1. CASE SameMode(i)  BY <2>1, PassStep DEF SameMode
  <2> QED  BY <1>2, <2>1, SwitchSteps DEF Press
<1>3. CASE ModeKey
  <2>1. (mode + 1) % (LastMode + 1) \in Modes
    BY FrameAssumption DEF FrameInv, TypeOK, Modes, FrameAssumption
  <2> QED  BY <1>2, <1>3, <2>1 DEF ModeKey
<1>4. CASE UNCHANGED vars
  <2>1. TypeOK'  BY <1>4 DEF FrameInv, TypeOK, vars, debug, nodes, products
  <2>2. SceneInv' /\ ListInv'
    BY <1>4 DEF FrameInv, SceneInv, ListInv, InAffected, vars, debug, nodes, products
  <2>3. ProductInv' /\ FreshInv'
    BY <1>4 DEF FrameInv, ProductInv, FreshInv, vars, debug, nodes, products
  <2> QED  BY <2>1, <2>2, <2>3 DEF FrameInv
<1> QED
  BY <1>1, <1>3, <1>4, AnimateStep, ViewStep, CompileFullStep, CompileUpdateSteps, BuildSteps DEF Next

-----------------------------------------------------------------------------
\* Types: in particular a world is never deeper than the scene, however often
\* it is updated in place.
THEOREM FrameTypes == Spec => []TypeOK
<1>1. Spec => []FrameInv  BY FrameInit, FrameNext, PTL DEF Spec
<1>2. FrameInv => TypeOK  BY DEF FrameInv
<1> QED  BY <1>1, <1>2, PTL

\* What render() submits is the present scene, made of the buffers of its own
\* compilation, with this frame's transforms and view: for any scene sizes, any
\* table of modes, any order of the lists, and any keys and failures before.
THEOREM SubmittedIsPresent == Spec => []FrameSubmitted
<1>1. Spec => []FrameInv  BY FrameInit, FrameNext, PTL DEF Spec
<1>2. FrameInv => FrameSubmitted
  <2> SUFFICES ASSUME FrameInv, Submitted PROVE FrameSubmitted
    BY DEF FrameSubmitted, SceneSubmitted, TransformsSubmitted, ViewSubmitted
  <2>1. pc = "render" /\ ready  BY DEF Submitted
  <2>2. SceneSubmitted  BY <2>1 DEF FrameInv, ProductInv, FreshInv, SceneSubmitted
  <2>3. TransformsSubmitted  BY <2>1 DEF FrameInv, FreshInv, TransformsSubmitted
  <2>4. ViewSubmitted  BY <2>1 DEF FrameInv, FreshInv, ViewSubmitted
  <2> QED  BY <2>2, <2>3, <2>4 DEF FrameSubmitted
<1> QED  BY <1>1, <1>2, PTL
=============================================================================
