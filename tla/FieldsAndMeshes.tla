-------------------------- MODULE FieldsAndMeshes --------------------------
(***************************************************************************)
(* Scalar fields (src/src/engine/assets/scalar_field), meshes              *)
(* (.../mesh), GLB files (.../gltf) and the renderables made of them       *)
(* (.../renderable), as functions of their inputs.  A file of floats is    *)
(* [floats, spare]: four bytes for each float and "spare" bytes after      *)
(* them.  Values are integers, fractions of Unit where the code divides.   *)
(***************************************************************************)
EXTENDS SplatClouds

CONSTANT WordSize   \* 2^32 in the code: sizes are counted modulo WordSize

ASSUME WordSizeAssumption == WordSize \in Nat \ {0}

Unit == 12

\* The characters of a text spell floats that are finite, and not told apart.
TextFloat == 1

-----------------------------------------------------------------------------
(* Scalar fields *)

Dimensions(d) == d.width * d.height * d.depth
DimensionsZero(d) == 0 \in {d.width, d.height, d.depth}

\* The two unsigned products of the compiler.
Count(d) == Dimensions(d) % WordSize
ExpectedBytes(d) == (4 * Count(d)) % WordSize
SizesFit(d) == 4 * Dimensions(d) < WordSize

\* compute_min_max() and the new entry of the table.
FieldOf(d, values) ==
    IF values = <<>> \/ NotFinite \in Range(values) THEN Rejected
    ELSE [width |-> d.width, height |-> d.height, depth |-> d.depth, values |-> values,
          min_value |-> LeastOf(values), max_value |-> GreatestOf(values)]

\* What memcpy() does not reach stays zero.
RawField(d, content) ==
    IF \/ DimensionsZero(d)
       \/ 4 * Len(content.floats) + content.spare # ExpectedBytes(d)
    THEN Rejected
    ELSE FieldOf(d, [i \in 1..Count(d) |-> IF i <= Len(content.floats) THEN content.floats[i] ELSE 0])

\* One sample of a procedural field; the square root is rounded down, and the
\* sine is that of quarter turns.
Along(x, n) == IF n > 1 THEN (Unit * x) \div (n - 1) ELSE 0
Root(n) == CHOOSE r \in 0..n : r * r <= n /\ n < (r + 1) * (r + 1)
Radial(d, x, y) ==
    LET cx == d.width - 1  cy == d.height - 1
        far == cx * cx + cy * cy
        near == (2 * x - cx) * (2 * x - cx) + (2 * y - cy) * (2 * y - cy)
    IN IF far = 0 THEN 0 ELSE Root((Unit * Unit * near) \div far)
Quarter(q) == CASE q % 4 = 0 -> 0 [] q % 4 = 1 -> 1 [] q % 4 = 2 -> 0 [] OTHER -> -1
CheckerCell(d) == IF d.frequency < 1 THEN 1 ELSE d.frequency

Sample(d, x, y) ==
    CASE d.generator = "GradientX" -> Along(x, d.width)
      [] d.generator = "GradientY" -> Along(y, d.height)
      [] d.generator = "RadialGradient" ->
           LowerOf(Radial(d, x, y), Unit) * d.amplitude
      [] d.generator = "Checkerboard" ->
           IF (x \div CheckerCell(d) + y \div CheckerCell(d)) % 2 # 0 THEN Unit * d.amplitude ELSE 0
      [] d.generator = "SineWaves" ->
           ((Unit + Unit * Quarter((4 * d.frequency * Along(x, d.width)) \div Unit)) * d.amplitude) \div 2

MadeField(d) ==
    IF DimensionsZero(d) \/ d.depth # 1 \/ d.format # "Float32" THEN Rejected
    ELSE FieldOf(d, [i \in 1..(d.width * d.height) % WordSize |->
                       Sample(d, (i - 1) % d.width, (i - 1) \div d.width)])

-----------------------------------------------------------------------------
(* Meshes: positions of vertices, counted from 0, and indices *)

MeshValid(mesh) == mesh.vertices # <<>> /\ mesh.indices # <<>> /\ Len(mesh.indices) % 3 = 0

TriangleMesh == [vertices |-> << <<0, 1, 0>>, <<-1, -1, 0>>, <<1, -1, 0>> >>, indices |-> <<0, 1, 2>>]

QuadMesh == [vertices |-> << <<-1, 1, 0>>, <<-1, -1, 0>>, <<1, -1, 0>>, <<1, 1, 0>> >>,
             indices |-> <<0, 1, 2,  0, 2, 3>>]

CubeMesh ==
    [vertices |-> << <<-1, -1, -1>>, <<1, -1, -1>>, <<1, 1, -1>>, <<-1, 1, -1>>,
                     <<-1, -1, 1>>, <<1, -1, 1>>, <<1, 1, 1>>, <<-1, 1, 1>> >>,
     indices |-> <<0, 2, 1,  0, 3, 2,
                   4, 5, 6,  4, 6, 7,
                   0, 4, 7,  0, 7, 3,
                   1, 2, 6,  1, 6, 5,
                   3, 7, 6,  3, 6, 2,
                   0, 1, 5,  0, 5, 4>>]

ProceduralMesh(kind) ==
    CASE kind = "Triangle" -> TriangleMesh [] kind = "Quad" -> QuadMesh [] kind = "Cube" -> CubeMesh

\* import_primitive(): a primitive is [type, positions, normals, uvs, indices],
\* where an attribute that is missing is Absent.
Absent == <<"absent">>
PrimitiveAccepted(p) ==
    /\ p.type = "Triangles" /\ p.positions # Absent
    /\ p.normals \in {-1, Len(p.positions)}
    /\ p.uvs \in {-1, Len(p.positions)}

\* The parser makes up the indices that are missing.
PrimitiveMesh(p) ==
    [vertices |-> p.positions,
     indices |-> IF p.indices # Absent THEN p.indices ELSE [i \in DOMAIN p.positions |-> i - 1]]

\* import_glb_meshes() fails as a whole; the compiler takes the first mesh,
\* whatever the index in the key.
ImportMesh(meshes) ==
    LET primitives == FlattenSeq(meshes) IN
    IF \/ primitives = <<>>
       \/ \E i \in DOMAIN primitives :
              ~PrimitiveAccepted(primitives[i]) \/ ~MeshValid(PrimitiveMesh(primitives[i]))
    THEN Rejected
    ELSE PrimitiveMesh(primitives[1])

-----------------------------------------------------------------------------
(* Renderables *)

Renderable(kind, source, program, domain, low, high) ==
    [kind |-> kind, source_asset |-> source, program |-> program, domain |-> domain,
     bounds_min |-> low, bounds_max |-> high]

MeshRenderable(source) ==
    Renderable("Mesh", source, "MeshWireframeDebug", "Debug", <<-1, -1, -1>>, <<1, 1, 1>>)
FieldRenderable(source) ==
    Renderable("ScalarField", source, "ScalarFieldDebug", "Debug", <<0, 0, 0>>, <<0, 0, 0>>)
CloudRenderable(source, cloud) ==
    Renderable("GaussianSplatCloud", source, "GaussianSplatDebug", "Splat",
               cloud.ranges.min, cloud.ranges.max)

-----------------------------------------------------------------------------
(* What they promise. *)

\* Every sample is there, finite, inside the range, which is attained.
FieldDescribes(d, field) ==
    /\ Len(field.values) = Dimensions(d)
    /\ \A i \in DOMAIN field.values :
        field.values[i] # NotFinite /\ field.values[i] \in field.min_value..field.max_value
    /\ {field.min_value, field.max_value} \subseteq Range(field.values)

\* The patterns: gradients rise to the far edge, by steps that a Unit shows when
\* there are no more of them than that, a radial gradient is symmetric and
\* nowhere above its corner, a board alternates, and waves stay within their
\* amplitude.
PatternDescribes(d, field) ==
    LET at(x, y) == field.values[1 + x + y * d.width]
        xs == 0..d.width - 1  ys == 0..d.height - 1
        side == CheckerCell(d)
    IN \A x \in xs, y \in ys :
        CASE d.generator = "GradientX" ->
               /\ x = 0 => at(x, y) = 0
               /\ x > 0 => at(x, y) >= at(x - 1, y)
               /\ x > 0 /\ d.width <= Unit + 1 => at(x, y) > at(x - 1, y)
               /\ x > 0 /\ x = d.width - 1 => at(x, y) = Unit
          [] d.generator = "GradientY" ->
               /\ y = 0 => at(x, y) = 0
               /\ y > 0 => at(x, y) >= at(x, y - 1)
               /\ y > 0 /\ d.height <= Unit + 1 => at(x, y) > at(x, y - 1)
               /\ y > 0 /\ y = d.height - 1 => at(x, y) = Unit
          [] d.generator = "RadialGradient" ->
               /\ at(x, y) = at(d.width - 1 - x, y) /\ at(x, y) = at(x, d.height - 1 - y)
               /\ d.amplitude >= 0 => at(x, y) <= at(0, 0)
          [] d.generator = "Checkerboard" ->
               /\ x + side \in xs => at(x + side, y) # at(x, y) \/ d.amplitude = 0
               /\ y + side \in ys => at(x, y + side) # at(x, y) \/ d.amplitude = 0
          [] d.generator = "SineWaves" ->
               d.amplitude >= 0 => at(x, y) \in 0..Unit * d.amplitude

Triangles(mesh) == {k \in 1..Len(mesh.indices) : k % 3 = 1}
Edges(mesh, k) ==
    {<<mesh.indices[k], mesh.indices[k + 1]>>, <<mesh.indices[k + 1], mesh.indices[k + 2]>>,
     <<mesh.indices[k + 2], mesh.indices[k]>>}

\* Whole triangles between vertices that exist, no side of which is passed
\* twice in one direction: neighbours face the same way.
MeshDescribes(mesh) ==
    /\ MeshValid(mesh)
    /\ \A k \in DOMAIN mesh.indices : mesh.indices[k] + 1 \in DOMAIN mesh.vertices
    /\ \A k, l \in Triangles(mesh) : k # l => Edges(mesh, k) \cap Edges(mesh, l) = {}

\* The cube has no hole: every side is also passed in the other direction.
Closed(mesh) ==
    LET all == UNION {Edges(mesh, k) : k \in Triangles(mesh)} IN
    \A e \in all : <<e[2], e[1]>> \in all
=============================================================================
