--------------------------- MODULE MCAssetLibrary ---------------------------
(* Small programs over the asset library for TLC: what they create, the     *)
(* files they find, and which of them meet faults and a crash.              *)
EXTENDS AssetLibrary

CONSTANTS main, w1, w2

-----------------------------------------------------------------------------
(* Files *)

F == [dir |-> "root", name |-> "f"]
G == [dir |-> "root", name |-> "g"]
MCPlaces == {F, G}
InF == [slashes |-> 0, name |-> "f"]
AlsoF == [slashes |-> 1, name |-> "f"]
InG == [slashes |-> 0, name |-> "g"]

MCEmpty == [bytes |-> <<>>]
MCNoFile == [absent |-> TRUE]
Text(s) == [bytes |-> s]
MCLeft(data) ==
    {MCEmpty} \cup (IF "bytes" \in DOMAIN data
                    THEN {Text(SubSeq(data.bytes, 1, Len(data.bytes) \div 2))} ELSE {})

Disk(f, g) == [p \in MCPlaces |-> IF p = F THEN f ELSE g]
NoDisk == Disk(MCNoFile, MCNoFile)

-----------------------------------------------------------------------------
(* Commands *)

Does(do) == [do |-> do]
OneOf(S) == [do |-> "create", one_of |-> S]
Req(make, source, args) == [make |-> make, source |-> source, args |-> args]
One(make, source, args) == OneOf({Req(make, source, args)})
Write(i, p) == [do |-> "write", export |-> i, place |-> p]
Ask(doing, p, data, over) == [doing |-> doing, place |-> p, data |-> data, overwrite |-> over]
Async_(c, r) == [do |-> "async", call |-> c, request |-> r]
Sync(r) == [do |-> "call", request |-> r]
Resolves == <<Does("commit"), Does("resolve")>>
Program(disk, script) == [disk |-> disk, script |-> script, faulty |-> FALSE]
Faulty(disk, script) == [disk |-> disk, script |-> script, faulty |-> TRUE]

Num(n) == <<ToString(n)>>
Bad == <<"x">>
T == <<"t">>
V == <<"v">>
Tables(rows) == {[columns |-> <<T, V>>, rows |-> r] : r \in rows}
MadeTables(ts) == OneOf({Req("table", 0, [name |-> "data", table |-> t]) : t \in ts})
\* One or two of these rows, or three of the first four.
UpToThree(s) == UNION {[1..k -> Range(s)] : k \in 1..2} \cup [1..3 -> Range(SubSeq(s, 1, 4))]

-----------------------------------------------------------------------------
(* Series and summaries of every table of such rows *)

\* Ranges and widths are counted in halves.
Real(v) == <<Spelled(v)>>
SeriesRows == << <<Num(1), Num(5)>>, <<Real(7), Num(9)>>, <<Num(4), Real(3)>>, <<Real(NaN), Num(2)>>,
                 <<Num(5), Bad>>, <<Real(4), Real(PosInf)>>, <<Bad, Num(1)>>, <<Real(NegInf), Num(0)>>,
                 <<Num(60), Real(NaN)>> >>
SeriesDesc(width, use, start, end) ==
    [name |-> "series", axis |-> T, metrics |-> <<V>>, width |-> width,
     use_range |-> use, start |-> start, end |-> end]
SeriesDescs ==
    {SeriesDesc(w, FALSE, 0, 0) : w \in {2, 3}}
    \cup {SeriesDesc(w, TRUE, r[1], r[2]) : w \in {3, 6}, r \in {<<2, 8>>, <<4, 10>>}}
    \cup {SeriesDesc(0, FALSE, 0, 0), SeriesDesc(1, TRUE, 8, 8), SeriesDesc(1, TRUE, 0, 132)}

SeriesProgram ==
    Program(NoDisk, <<MadeTables(Tables(UpToThree(SeriesRows))),
                      OneOf({Req("series", 1, d) : d \in SeriesDescs})>> \o Resolves)

FrameRows == << <<Num(0), Num(5)>>, <<Num(4), Real(9)>>, <<Num(66), Bad>>, <<Num(62), Num(4)>>,
                <<Num(2), Real(NaN)>>, <<Num(-1), Num(1)>>, <<Real(4), Num(1)>> >>
FrameDesc(start, end, fpb) ==
    [name |-> "summary", frame |-> T, metrics |-> <<V>>,
     frame_start |-> start, frame_end |-> end, fpb |-> fpb]
FrameDescs == {FrameDesc(0, 4, 0), FrameDesc(0, 4, 2), FrameDesc(1, 4, 2), FrameDesc(2, 2, 1),
               FrameDesc(0, 63, 20), FrameDesc(4, 0, 2)}

SummaryProgram ==
    Program(NoDisk, <<MadeTables(Tables(UpToThree(FrameRows))),
                      OneOf({Req("summary", 1, d) : d \in FrameDescs})>> \o Resolves)

-----------------------------------------------------------------------------
(* From a table to a text to a file and back, and through the views *)

Cells == {<<>>, Num(1), <<"a", Quote>>, <<Comma, CR, LF>>, <<LF, Quote, Quote>>}
TextTable(c, r) == [columns |-> c, rows |-> r]
TextTables_ ==
    {TextTable(<<T, <<"v", Comma>> >>, << <<a, b>> >>) : a, b \in Cells}
    \cup {TextTable(<<T>>, << <<a>>, <<b>> >>) : a, b \in Cells}
    \cup {TextTable(<< <<Quote>> >>, <<>>), TextTable(<<>>, <<>>)}

ExportDesc(sep, header) == [name |-> "export", separator |-> sep, include_header |-> header]
Csv(path, mode) == Req("csv", 0, [path |-> path, header_mode |-> mode])
Modes == {"Auto", "ForceHeader", "ForceData"}

ChainScript(ts, exports) ==
    <<MadeTables(ts), OneOf({Req("export", 1, e) : e \in exports}),
      OneOf({Csv(InF, m) : m \in Modes})>>
    \o Resolves \o <<Write(2, F), Does("resolve")>>

ChainProgram ==
    Program(NoDisk, ChainScript(TextTables_, {ExportDesc(Comma, h) : h \in BOOLEAN}))
FaultyChain ==
    Faulty(NoDisk, ChainScript({TextTable(<<T>>, << <<Num(1)>> >>), TextTable(<<T>>, << <<Num(2)>> >>)},
                               {ExportDesc(Comma, TRUE), ExportDesc(";", TRUE)}))

ViewProgram(make, desc, rows) ==
    Program(NoDisk,
        <<MadeTables(Tables({rows})), One(make, 1, desc), One(make \o "View", 2, [name |-> "view"]),
          One("export", 3, ExportDesc(Comma, TRUE)), OneOf({Csv(InF, "ForceHeader")})>>
        \o Resolves \o <<Write(4, F), Does("resolve")>>)

-----------------------------------------------------------------------------
(* Clouds *)

Prop(name) == [name |-> name, suffix |-> -1, type |-> "float"]
RestProp(n) == [name |-> "f_rest_", suffix |-> n, type |-> "float"]
Xyz == <<Prop("x"), Prop("y"), Prop("z")>>
Rest == <<RestProp(2), RestProp(0), RestProp(-1), RestProp(1)>>
Rgb == <<[name |-> "red", suffix |-> -1, type |-> "uint8"], Prop("green"), Prop("blue")>>
Headers == {Xyz, Xyz \o Rest, Rgb \o Xyz, <<Prop("opacity"), Prop("scale_1"), Prop("rot_0")>> \o Xyz,
            Xyz \o <<Prop("f_dc_0"), Prop("f_dc_1"), Prop("f_dc_2")>>, Xyz \o <<Prop("f_dc_0")>>,
            <<Prop("x"), Prop("y")>>, <<Prop("nx")>> \o Rest \o Xyz}
RowOf(n, h) == [i \in DOMAIN h |-> ((n * (i + 3)) % 7) - 3]
PlyTable(element, h, rows) == [element |-> element, properties |-> h, rows |-> rows]
Ply(h) == [ply |-> <<PlyTable("face", <<Prop("n")>>, <<>>), PlyTable("vertex", h, [n \in 1..3 |-> RowOf(n, h)])>>]
OddPlys == {[ply |-> <<PlyTable("vertex", Xyz, <<>>)>>],
            [ply |-> <<PlyTable("vertex", Xyz, << <<0, NotFinite, 0>> >>)>>],
            [ply |-> <<PlyTable("face", Xyz, << <<0, 0, 0>> >>)>>]}
PlyFiles == {Ply(h) : h \in Headers} \cup OddPlys

Source(schema, path) == One("file", 0, [path |-> path, schema |-> schema])
Renders(make, i) == One(make, i, [name |-> "shown"])
CloudPrograms ==
    {Program(Disk(ply, MCNoFile),
             <<Source("ImportedSourceFile", InF), One("ply", 1, [none |-> TRUE]), Renders("cloudShown", 2)>>
             \o Resolves) : ply \in PlyFiles \cup {MCEmpty, MCNoFile}}

SphereProgram ==
    Program(NoDisk,
        <<OneOf({Req("cloud", 0, [name |-> "c", count |-> n, radius |-> r, splat_scale |-> s])
                 : n \in 0..4, r \in 0..2, s \in 0..1}), Renders("cloudShown", 1)>> \o Resolves)

-----------------------------------------------------------------------------
(* Fields and meshes *)

FieldArgs(path, w, h, d) ==
    [path |-> path, width |-> w, height |-> h, depth |-> d, format |-> "Float32", domain |-> "Generic"]
Floats(s, spare) == [floats |-> s, spare |-> spare]
FieldFiles == {Floats(<<3, -1, 2, 2>>, 0), Floats(<<3, -1, 2, 2>>, 1), Floats(<<3, NotFinite, 2, 2>>, 0),
               Text([i \in 1..16 |-> "a"])}
FieldProgram(file) ==
    Program(Disk(file, MCNoFile),
        <<OneOf({Req("field", 0, FieldArgs(InF, d[1], d[2], d[3]))
                 : d \in {<<2, 2, 1>>, <<4, 1, 1>>, <<2, 1, 1>>, <<0, 2, 1>>, <<4, 4, 1>>}}),
          One("field", 0, FieldArgs(AlsoF, 2, 2, 1)), Renders("fieldShown", 1)>> \o Resolves)

PatternArgs(g, w, h, d, f, a) ==
    [name |-> "p", width |-> w, height |-> h, depth |-> d, generator |-> g, frequency |-> f,
     amplitude |-> a, format |-> "Float32", domain |-> "Generic"]
PatternProgram ==
    Program(NoDisk,
        <<OneOf({Req("pattern", 0, PatternArgs(g, w, h, 1, f, a))
                 : g \in {"GradientX", "GradientY", "RadialGradient", "Checkerboard", "SineWaves"},
                   w \in 1..4, h \in 1..3, f \in 0..2, a \in 1..2}
                \cup {Req("pattern", 0, PatternArgs("GradientX", 2, 2, d, 1, 1)) : d \in {0, 2}}
                \cup {Req("pattern", 0, [PatternArgs("GradientX", 2, 2, 1, 1, 1)
                                            EXCEPT !.format = "Other"])}),
          Renders("fieldShown", 1)>> \o Resolves)

Kinds_ == {"Triangle", "Quad", "Cube"}
MeshProgram ==
    Program(NoDisk,
        <<OneOf({Req("mesh", 0, [kind |-> k]) : k \in Kinds_}),
          OneOf({Req("mesh", 0, [kind |-> k]) : k \in Kinds_}),
          OneOf({Req("meshShown", 2, [name |-> n]) : n \in {"", "m"}})>> \o Resolves)

Corners == << <<0, 0, 0>>, <<1, 0, 0>>, <<0, 1, 0>> >>
Primitive(type, positions, normals, indices) ==
    [type |-> type, positions |-> positions, normals |-> normals, uvs |-> -1, indices |-> indices]
GoodPart == Primitive("Triangles", Corners, 3, <<0, 1, 2>>)
GlbFiles == {[glb |-> << <<GoodPart>> >>],
             [glb |-> << <<Primitive("Triangles", Corners, -1, Absent), GoodPart>> >>],
             [glb |-> << <<GoodPart>>, <<Primitive("Lines", Corners, -1, <<0, 1, 2>>)>> >>],
             [glb |-> << <<GoodPart>>, <<Primitive("Triangles", Corners, 2, <<0, 1, 2>>)>> >>],
             [glb |-> << <<Primitive("Triangles", Corners, -1, <<0, 1>>)>> >>],
             [glb |-> <<>>]}
GlbPrograms ==
    {Program(Disk(glb, MCNoFile),
        <<Source("ImportedSourceFile", InF), One("glb", 1, [mesh_index |-> 0]),
          One("glb", 1, [mesh_index |-> 1]), Renders("meshShown", 2)>> \o Resolves) : glb \in GlbFiles}

-----------------------------------------------------------------------------
(* Documents, shaders, and requests that share carriers *)

Stage(path, stage, entry) == [path |-> path, stage |-> stage, entry |-> entry, target |-> "5_0"]
Pair(v, p) == Req("shaders", 0, [vertex |-> v, pixel |-> p])
Hlsl == [hlsl |-> {<<"vertex", "vs">>, <<"pixel", "ps">>}]
VS == Stage(InF, "vertex", "vs")
ShaderProgram ==
    Program(Disk(Hlsl, MCNoFile),
        <<OneOf({Pair(VS, Stage(AlsoF, "pixel", e)) : e \in {"ps", "none"}}),
          OneOf({Pair(VS, Stage(InG, "pixel", "ps")), Pair(Stage(InG, "vertex", "vs"), VS)})>> \o Resolves)

Document(make, path) == Req(make, 0, [path |-> path])
DocumentProgram ==
    Program(Disk([json |-> 1], [toml |-> 2]),
        <<OneOf({Document(m, InF) : m \in {"json", "toml"}}), OneOf({Document("json", p) : p \in {AlsoF, InG}}),
          OneOf({Document("toml", InG)})>> \o Resolves \o <<Does("resolve")>>)

\* A prerequisite of another kind than the compiler takes.
MixedProgram ==
    Program(Disk(Floats(<<1>>, 0), MCNoFile),
        <<OneOf({Req("file", 0, [path |-> InF, schema |-> "ImportedSourceFile"]), Req("mesh", 0, [kind |-> "Quad"])}),
          OneOf({Req("glb", 1, [mesh_index |-> 0]), Req("ply", 1, [none |-> TRUE]),
                 Req("export", 1, ExportDesc(Comma, TRUE)), Req("meshShown", 1, [name |-> "m"]),
                 Req("cloudShown", 1, [name |-> "c"])}), Renders("fieldShown", 2)>> \o Resolves)

-----------------------------------------------------------------------------
(* Files under the hands of others *)

Old == Text(<<"o">>)
New == Text(<<"n", "w">>)
SharedProgram ==
    Faulty(Disk(Old, MCNoFile),
        <<Does("executor"), Async_("c1", Ask("write", F, New, TRUE)), Async_("c2", Ask("read", F, MCEmpty, TRUE)),
          OneOf({Csv(InF, "ForceData")})>> \o Resolves)
BusyProgram ==
    Faulty(Disk(Old, MCNoFile),
        <<Async_("c1", Ask("read", F, MCEmpty, TRUE)), Does("executor"), Async_("c2", Ask("write", G, New, FALSE)),
          Sync(Ask("size", F, MCEmpty, TRUE)), Sync(Ask("write", G, Old, FALSE)), Sync(Ask("read", G, MCEmpty, TRUE)),
          Sync(Ask("remove", G, MCEmpty, TRUE))>>)

MCPrograms ==
    {SeriesProgram, SummaryProgram, ChainProgram, FaultyChain,
     ViewProgram("series", SeriesDesc(2, FALSE, 0, 0), << <<Num(1), Num(5)>>, <<Num(4), Num(2)>> >>),
     ViewProgram("summary", FrameDesc(0, 4, 2), << <<Num(0), Num(5)>>, <<Num(4), Num(2)>> >>),
     SphereProgram, PatternProgram, MeshProgram, ShaderProgram, DocumentProgram, MixedProgram,
     SharedProgram, BusyProgram}
    \cup CloudPrograms \cup GlbPrograms
    \cup {FieldProgram(file) : file \in FieldFiles \cup {MCEmpty}}

MCContents ==
    [bytes : Seq(STRING)]
    \cup (UNION {{p.disk[q] : q \in MCPlaces} : p \in MCPrograms} \ {MCNoFile})
MCGarbage == {0, NotFinite}
=============================================================================
