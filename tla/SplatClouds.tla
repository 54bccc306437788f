---------------------------- MODULE SplatClouds ----------------------------
(***************************************************************************)
(* Gaussian splat clouds (src/src/engine/assets/gaussian_splat): the       *)
(* importer, which reads what columns it finds of a PLY file's vertex      *)
(* table, and the procedural sphere.  Values are integers; a value that is *)
(* NotFinite stands for a NaN or an infinity.  A document is the sequence  *)
(* of its scalar tables, as the external reader found them.                *)
(***************************************************************************)
EXTENDS Integers, Sequences, SequencesExt

NotFinite == 1000000

Rejected == [rejected |-> TRUE]

DefaultOpacity == 2     \* the logit of 0.9
DefaultScale == -3      \* a logarithm

-----------------------------------------------------------------------------
(* The header.  A property is [name, suffix, type]; "f_rest_" properties    *)
(* differ in their suffix, which is -1 when it is no number.                *)

Columns(t) == DOMAIN t.properties

\* What a search from the front finds.
FirstOf(S) == CHOOSE i \in S : \A j \in S : i <= j

\* The first property of that name, and 0 when there is none.
FindProperty(t, name) ==
    LET found == {i \in Columns(t) : t.properties[i].name = name} IN
    IF found = {} THEN 0 ELSE FirstOf(found)

IsRest(t, i) == t.properties[i].name = "f_rest_" /\ t.properties[i].suffix >= 0

Rests(t) == {i \in Columns(t) : IsRest(t, i)}

\* The members of S one after the other: R says which come before which.
InOrder(S, R) ==
    [k \in 1..Cardinality(S) |-> CHOOSE i \in S : Cardinality({j \in S : <<j, i>> \in R}) = k - 1]

RestInFileOrder(t) == InOrder(Rests(t), {p \in Rests(t) \X Rests(t) : p[1] < p[2]})

\* collect_f_rest_indices(): by suffix, whatever their order in the file.
RestOrder(t) ==
    LET suffix(i) == t.properties[i].suffix
        before(i, j) == suffix(i) < suffix(j) \/ (suffix(i) = suffix(j) /\ i < j)
    IN InOrder(Rests(t), {p \in Rests(t) \X Rests(t) : before(p[1], p[2])})

Detect(t) ==
    LET at(name) == FindProperty(t, name) IN
    [ok |-> t.element = "vertex" /\ \A axis \in {"x", "y", "z"} : at(axis) # 0,
     position |-> <<at("x"), at("y"), at("z")>>,
     opacity |-> at("opacity"),
     scale |-> <<at("scale_0"), at("scale_1"), at("scale_2")>>,
     rotation |-> <<at("rot_0"), at("rot_1"), at("rot_2"), at("rot_3")>>,
     dc |-> <<at("f_dc_0"), at("f_dc_1"), at("f_dc_2")>>,
     rgb |-> IF at("f_dc_0") # 0 THEN <<0, 0, 0>> ELSE <<at("red"), at("green"), at("blue")>>,
     rest |-> RestOrder(t)]

\* A header that begins a colour and does not finish it.
ColourWhole(s) ==
    /\ s.dc[1] # 0 => 0 \notin {s.dc[2], s.dc[3]}
    /\ s.dc[1] = 0 /\ s.rgb[1] # 0 => 0 \notin {s.rgb[2], s.rgb[3]}

-----------------------------------------------------------------------------
(* The rows *)

\* table_value_as_float(): an index of -1 names the value before the row; before
\* the first row that is whatever the memory holds.
ValueAt(t, row, i, garbage) ==
    IF i # 0 THEN t.rows[row][i]
    ELSE IF row = 1 THEN garbage
    ELSE t.rows[row - 1][Len(t.properties)]

OrElse(t, row, i, default) == IF i = 0 THEN default ELSE t.rows[row][i]

Colour(t, s, row, garbage) ==
    LET three(indices) == [k \in 1..3 |-> ValueAt(t, row, indices[k], garbage)] IN
    IF s.dc[1] # 0 THEN [space |-> "sh", value |-> three(s.dc)]
    ELSE IF s.rgb[1] # 0
    THEN [space |-> IF t.properties[s.rgb[1]].type = "uint8" THEN "byte" ELSE "float",
          value |-> three(s.rgb)]
    ELSE [space |-> "white", value |-> <<1, 1, 1>>]

SplatOf(t, s, row, garbage) ==
    [position |-> [k \in 1..3 |-> t.rows[row][s.position[k]]],
     opacity |-> OrElse(t, row, s.opacity, DefaultOpacity),
     scale |-> [k \in 1..3 |-> OrElse(t, row, s.scale[k], DefaultScale)],
     rotation |-> [k \in 1..4 |-> OrElse(t, row, s.rotation[k], IF k = 1 THEN 1 ELSE 0)],
     colour |-> Colour(t, s, row, garbage),
     rest |-> [k \in DOMAIN s.rest |-> t.rows[row][s.rest[k]]]]

IsFinite(p) ==
    NotFinite \notin Range(p.position) \cup {p.opacity} \cup Range(p.scale) \cup Range(p.rotation)
                     \cup Range(p.colour.value) \cup Range(p.rest)

LowerOf(a, b) == IF b < a THEN b ELSE a
HigherOf(a, b) == IF b > a THEN b ELSE a
LeastOf(s) == Min(Range(s))
GreatestOf(s) == Max(Range(s))

\* What the cloud knows of its splats so far; the first one sets everything.
Ranges(p) == [min |-> p.position, max |-> p.position,
              opacity_min |-> p.opacity, opacity_max |-> p.opacity,
              scale_min |-> LeastOf(p.scale), scale_max |-> GreatestOf(p.scale)]
Expand(r, p) ==
    [min |-> [k \in 1..3 |-> LowerOf(r.min[k], p.position[k])],
     max |-> [k \in 1..3 |-> HigherOf(r.max[k], p.position[k])],
     opacity_min |-> LowerOf(r.opacity_min, p.opacity),
     opacity_max |-> HigherOf(r.opacity_max, p.opacity),
     scale_min |-> LowerOf(r.scale_min, LeastOf(p.scale)),
     scale_max |-> HigherOf(r.scale_max, GreatestOf(p.scale))]

\* import_gaussian_splat_ply_bytes() and the checks of its compiler.
ImportCloud(document, garbage) ==
    LET vertices == {i \in DOMAIN document : document[i].element = "vertex"}
        t == document[FirstOf(vertices)]
        s == Detect(t)
        splats == [row \in DOMAIN t.rows |-> SplatOf(t, s, row, garbage)]
    IN IF \/ vertices = {} \/ ~s.ok \/ t.rows = <<>>
          \/ \E row \in DOMAIN splats : ~IsFinite(splats[row])
       THEN Rejected
       ELSE [splats |-> splats, f_rest_count |-> Len(s.rest),
             ranges |-> FoldLeft(Expand, Ranges(splats[1]), splats)]

\* make_debug_sphere_cloud(): from one pole to the other; the turn around the
\* axis is left out, heights are counted in units of 1 / (count - 1), and a
\* scale stands for its logarithm, which is all that is stored of it.
HeightUnits(d) == IF d.count > 1 THEN d.count - 1 ELSE 1
SphereCloud(d) ==
    LET b == d.radius + d.splat_scale IN
    [splats |-> [i \in 1..d.count |->
                   [height |-> d.radius * (HeightUnits(d) - 2 * (i - 1)), scale |-> d.splat_scale,
                    opacity |-> DefaultOpacity]],
     f_rest_count |-> 0,
     ranges |-> [min |-> <<-b, -b, -b>>, max |-> <<b, b, b>>,
                 opacity_min |-> DefaultOpacity, opacity_max |-> DefaultOpacity,
                 scale_min |-> d.splat_scale, scale_max |-> d.splat_scale]]

SphereAccepted(d) == d.count > 0 /\ d.radius > 0 /\ d.splat_scale > 0

-----------------------------------------------------------------------------
(* What they promise. *)

Within(p, r) == \A k \in 1..3 : r.min[k] <= p[k] /\ p[k] <= r.max[k]

\* A value is the row's under that name, or the default when the header has no
\* such property.
Given(t, row, name, value, default) ==
    LET named == {i \in Columns(t) : t.properties[i].name = name} IN
    IF named = {} THEN value = default ELSE \E i \in named : value = t.rows[row][i]

FieldsGiven(t, row, p) ==
    /\ Given(t, row, "opacity", p.opacity, DefaultOpacity)
    /\ \A k \in 1..3 :
        /\ Given(t, row, <<"x", "y", "z">>[k], p.position[k], 0)
        /\ Given(t, row, <<"scale_0", "scale_1", "scale_2">>[k], p.scale[k], DefaultScale)
    /\ \A k \in 1..4 :
        Given(t, row, <<"rot_0", "rot_1", "rot_2", "rot_3">>[k], p.rotation[k], <<1, 0, 0, 0>>[k])

\* One splat per row, with the fields of that row or their defaults; a colour
\* that the header finishes is of that row;
\* harmonics in the order of their numbers; the ranges are those of the splats,
\* and no wider.
CloudDescribes(t, cloud) ==
    LET number(k) == CHOOSE i \in Rests(t) : t.properties[i].suffix = k
        numbers == {t.properties[i].suffix : i \in Rests(t)}
        plain == numbers = 0..Cardinality(Rests(t)) - 1
        splats == Range(cloud.splats)
    IN /\ Len(cloud.splats) = Len(t.rows)
       /\ \A row \in DOMAIN t.rows : FieldsGiven(t, row, cloud.splats[row])
       /\ ColourWhole(Detect(t)) =>
              \A row \in DOMAIN t.rows :
                  LET colour == cloud.splats[row].colour IN
                  colour.space # "white" => \A k \in 1..3 : colour.value[k] \in Range(t.rows[row])
       /\ plain => \A row \in DOMAIN t.rows, k \in numbers :
                       cloud.splats[row].rest[k + 1] = t.rows[row][number(k)]
       /\ \A p \in splats :
           /\ Len(p.rest) = cloud.f_rest_count
           /\ Within(p.position, cloud.ranges)
           /\ p.opacity \in cloud.ranges.opacity_min..cloud.ranges.opacity_max
           /\ \A k \in 1..3 : p.scale[k] \in cloud.ranges.scale_min..cloud.ranges.scale_max
       /\ \A k \in 1..3 : {cloud.ranges.min[k], cloud.ranges.max[k]}
                              \subseteq {p.position[k] : p \in splats}
       /\ {cloud.ranges.opacity_min, cloud.ranges.opacity_max} \subseteq {p.opacity : p \in splats}

\* As many splats as asked for, evenly from pole to pole, each of them inside
\* the bounds with all of its extent.
SphereDescribes(d, cloud) ==
    LET units == HeightUnits(d)  height(i) == cloud.splats[i].height IN
    /\ Len(cloud.splats) = d.count
    /\ height(1) = d.radius * units
    /\ d.count > 1 => height(d.count) = -d.radius * units
    /\ \A i \in 1..d.count :
        /\ height(i) + d.splat_scale * units <= cloud.ranges.max[2] * units
        /\ height(i) - d.splat_scale * units >= cloud.ranges.min[2] * units
        /\ i < d.count - 1 => height(i) - height(i + 1) = height(i + 1) - height(i + 2)
=============================================================================
