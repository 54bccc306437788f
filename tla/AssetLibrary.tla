---------------------------- MODULE AssetLibrary ----------------------------
(***************************************************************************)
(* EngineAssetLibrary (src/src/engine/assets): the modules that create     *)
(* assets, the file carriers they share, the compilers that fill the       *)
(* resource tables, and the getters, run by a program that creates its     *)
(* assets, commits, resolves and writes exports, while workers read and    *)
(* write the same files, transfers fail and the process crashes.           *)
(*                                                                         *)
(* Every asset of the library has at most one prerequisite, so resolving   *)
(* one is compiling the last node of its chain that is not cached, again   *)
(* and again; AssetSystem models resolve() on any graph.  External: the    *)
(* parsers and the HLSL compiler, whose verdict is in the content of the   *)
(* file, and the order of the nodes, any one with prerequisites first.     *)
(* Keys are equal when the key factories hash equal fields; collisions of  *)
(* the hash are left out.                                                  *)
(***************************************************************************)
EXTENDS FileStore, TimeSeries, FieldsAndMeshes

CONSTANTS
    Programs,     \* what the application does: [disk, script, faulty]
    Garbage       \* what a read before the first value of a PLY table finds

VARIABLES
    program,      \* the application that runs
    at,           \* its next command
    created,      \* what each create_...() returned
    nodes,        \* the registered nodes, in order
    committed,
    handles,      \* cache_: compiled node -> its handle
    payload,      \* compiled_nodes_: compiled carrier -> the bytes it read
    tables,       \* the resource tables, without the sentinel of slot 0
    pass          \* resolve_all() under way, and its report

libVars == <<program, at, created, nodes, committed, handles, payload, tables, pass>>
vars == <<fileVars, libVars>>

TableNames == {"csv", "json", "toml", "field", "mesh", "cloud", "data", "series", "summary",
               "export", "renderable", "shader"}

NoPass == [on |-> FALSE, todo |-> {}, goal |-> 0, resolved |-> 0, failures |-> <<>>]
NoHandle == [table |-> "none", id |-> 0]

Memory ==
    /\ at' = 1 /\ created' = <<>> /\ nodes' = <<>> /\ committed' = FALSE
    /\ handles' = <<>> /\ payload' = <<>> /\ tables' = [x \in TableNames |-> <<>>] /\ pass' = NoPass

Init ==
    /\ program \in Programs
    /\ FileInit(program.disk)
    /\ at = 1 /\ created = <<>> /\ nodes = <<>> /\ committed = FALSE
    /\ handles = <<>> /\ payload = <<>> /\ tables = [x \in TableNames |-> <<>>] /\ pass = NoPass

-----------------------------------------------------------------------------
(* Requests [make, source, args].  "source" is the number of the create that *)
(* made the prerequisite; a path is [slashes, name], as it is spelled.       *)

NoKey == <<"none">>

\* The key factories: the arguments that a key is made of, besides the key of
\* the prerequisite, which a file's path is part of.
CsvKey == {"header_mode"}
JsonKey == {}
TomlKey == {}
ShaderKey == {"stage", "entry", "target"}
FieldKey == {"width", "height", "depth", "format", "domain"}
PatternKey == FieldKey \cup {"name", "generator", "frequency", "amplitude"}
ShapeKey == {"kind"}
GlbKey == {"mesh_index"}
CloudKey == {"name", "count", "radius", "splat_scale"}
PlyKey == {}
TableKey == {"name", "table"}
SeriesKey == {"name", "axis", "metrics", "width", "use_range"}
RangeKey == {"start", "end"}
SeriesViewKey == {"name"}
SummaryKey == {"name", "frame", "metrics", "frame_start", "frame_end", "fpb"}
SummaryViewKey == {"name"}
ExportKey == {"name", "separator", "include_header"}
MeshShownKey == {"name"}
CloudShownKey == {"name"}
FieldShownKey == {"name"}

\* What each create_...() registers: where the prerequisite comes from, what the
\* compiler takes of it (the bytes of a carrier, or a value of one table), the
\* table of the result, the key, and whether the name must not be empty.
FromPath(schema, table, key) ==
    [from |-> "path", schema |-> schema, takes |-> "bytes", table |-> table, key |-> key, named |-> FALSE]
FromAsset(takes, table, key, named) ==
    [from |-> "asset", schema |-> "none", takes |-> takes, table |-> table, key |-> key, named |-> named]
FromNothing(table, key, named) ==
    [from |-> "nothing", schema |-> "none", takes |-> "nothing", table |-> table, key |-> key,
     named |-> named]

CsvKind == FromPath("CSVFile", "csv", CsvKey)
JsonKind == FromPath("TextFile", "json", JsonKey)
TomlKind == FromPath("TextFile", "toml", TomlKey)
ShaderKind == FromPath("HLSLFile", "shader", ShaderKey)
FieldKind == FromPath("RawFile", "field", FieldKey)
PatternKind == FromNothing("field", PatternKey, FALSE)
ShapeKind == FromNothing("mesh", ShapeKey, FALSE)
GlbKind == FromAsset("bytes", "mesh", GlbKey, FALSE)
CloudKind == FromNothing("cloud", CloudKey, FALSE)
PlyKind == FromAsset("bytes", "cloud", PlyKey, FALSE)
TableKind == FromNothing("data", TableKey, TRUE)
SeriesKind == FromAsset("data", "series", SeriesKey, TRUE)
SeriesViewKind == FromAsset("series", "data", SeriesViewKey, TRUE)
SummaryKind == FromAsset("data", "summary", SummaryKey, TRUE)
SummaryViewKind == FromAsset("summary", "data", SummaryViewKey, TRUE)
ExportKind == FromAsset("data", "export", ExportKey, TRUE)
MeshShownKind == FromAsset("mesh", "renderable", MeshShownKey, TRUE)
CloudShownKind == FromAsset("cloud", "renderable", CloudShownKey, TRUE)
FieldShownKind == FromAsset("field", "renderable", FieldShownKey, TRUE)

KindOf ==
    [csv |-> CsvKind, json |-> JsonKind, toml |-> TomlKind, hlsl |-> ShaderKind,
     field |-> FieldKind, pattern |-> PatternKind, mesh |-> ShapeKind, glb |-> GlbKind,
     cloud |-> CloudKind, ply |-> PlyKind, table |-> TableKind,
     series |-> SeriesKind, seriesView |-> SeriesViewKind,
     summary |-> SummaryKind, summaryView |-> SummaryViewKind, export |-> ExportKind,
     meshShown |-> MeshShownKind, cloudShown |-> CloudShownKind, fieldShown |-> FieldShownKind]

\* canonical_asset_path(), and join() with the root, which is not empty.
Canonical(path) == path.name
FullPath(path) == [dir |-> "root", name |-> path.name]

\* The files that a request names.
PathsOf(r) ==
    IF r.make = "file" THEN {r.args.path}
    ELSE IF r.make = "shaders" THEN {r.args.vertex.path, r.args.pixel.path}
    ELSE IF KindOf[r.make].from = "path" THEN {r.args.path} ELSE {}

\* The arguments are of the types that the descriptors declare.
ArgumentsTyped(r) ==
    LET a == r.args IN
    CASE r.make = "table"   -> IsTable(a.table)
      [] r.make = "series"  -> IsTexts(a.metrics) /\ {a.width, a.start, a.end} \subseteq Int
      [] r.make = "summary" ->
           IsTexts(a.metrics) /\ {a.frame_start, a.frame_end, a.fpb} \subseteq 0..Word - 1
      [] r.make = "export"  -> a.include_header \in BOOLEAN
      [] r.make = "field"   -> {a.width, a.height, a.depth} \subseteq Nat
      [] r.make = "pattern" ->
           /\ {a.width, a.height, a.depth} \subseteq Nat /\ {a.frequency, a.amplitude} \subseteq Int
           /\ a.generator \in {"GradientX", "GradientY", "RadialGradient", "Checkerboard", "SineWaves"}
      [] r.make = "mesh"    -> a.kind \in {"Triangle", "Quad", "Cube"}
      [] r.make = "cloud"   -> a.count \in Nat /\ {a.radius, a.splat_scale} \subseteq Int
      [] OTHER              -> TRUE

\* What a file's content is to a reader that expects something else.
Field(content, name, default) == IF name \in DOMAIN content THEN content[name] ELSE default
AsFloats(content) ==
    LET length == Len(Field(content, "bytes", <<>>)) IN
    [floats |-> Field(content, "floats", [i \in 1..length \div 4 |-> TextFloat]),
     spare |-> Field(content, "spare", length % 4)]

\* The external parsers find sequences, of rows that are as long as the header
\* says, of numbers.
ContentTyped(content) ==
    /\ IsSequence(Field(content, "bytes", <<>>))
    /\ LET f == AsFloats(content) IN f.floats \in Seq(Int) /\ f.spare \in 0..3
    /\ LET meshes == Field(content, "glb", <<>>) IN
       IsSequence(meshes) /\ \A primitives \in Range(meshes) : IsSequence(primitives)
    /\ LET parts == Field(content, "ply", <<>>) IN
       /\ IsSequence(parts)
       /\ \A t \in Range(parts) :
           /\ IsSequence(t.properties) /\ \A p \in Range(t.properties) : p.suffix \in Int
           /\ IsSequence(t.rows)
           /\ \A row \in Range(t.rows) : row \in [DOMAIN t.properties -> Int]

\* A program asks for what the library makes, of files that there may be.
ASSUME ProgramAssumption ==
    \A p \in Programs :
        /\ p.disk \in [Places -> Contents \cup {NoFile}]
        /\ \A place \in Places : p.disk[place] # NoFile => ContentTyped(p.disk[place])
        /\ \A i \in DOMAIN p.script :
            LET command == p.script[i] IN
            /\ command.do = "create" => \A r \in command.one_of :
                  /\ r.make \in DOMAIN KindOf \cup {"file", "shaders"} /\ ArgumentsTyped(r)
                  /\ \A path \in PathsOf(r) : FullPath(path) \in Places
            /\ command.do = "write" => command.place \in Places
            /\ command.do = "call" => command.request \in Requests
            /\ command.do = "async" => command.call \in Calls /\ command.request \in Requests

\* make_file_key()
FileKey(path, schema) == <<"file", [schema |-> schema, path |-> Canonical(path)], NoKey>>

CarrierOf(path, schema) ==
    [key |-> FileKey(path, schema), dep |-> NoKey,
     request |-> [make |-> "file", source |-> 0, args |-> [path |-> path, schema |-> schema]]]

SourceKey(r) ==
    IF r.source \in DOMAIN created /\ created[r.source].keys # <<>> THEN created[r.source].keys[1]
    ELSE NoKey

DepKey(r) ==
    LET kind == KindOf[r.make] IN
    IF kind.from = "path" THEN FileKey(r.args.path, kind.schema)
    ELSE IF kind.from = "asset" THEN SourceKey(r)
    ELSE NoKey

\* A range that is not used is left out of the key.
Identity(r) ==
    LET key == KindOf[r.make].key \cup (IF r.make = "series" /\ r.args.use_range THEN RangeKey ELSE {})
    IN [field \in key |-> r.args[field]]
KeyOf(r) == <<r.make, Identity(r), DepKey(r)>>

\* The checks of create_...() before anything is registered.
Accepted(r) ==
    /\ KindOf[r.make].from = "asset" => SourceKey(r) # NoKey
    /\ KindOf[r.make].named => r.args.name # ""
    /\ r.make = "table" => TableValid(r.args.table)
    /\ r.make = "series" => DescAccepted(r.args)
    /\ r.make = "summary" => FrameDescAccepted(r.args)
    /\ r.make = "cloud" => SphereAccepted(r.args)

-----------------------------------------------------------------------------
(* Creating assets *)

HasKey(ns, key) == \E n \in DOMAIN ns : ns[n].key = key

\* register_file_node() does not look whether the carrier is new.
WithCarrier(ns, path, schema) ==
    IF HasKey(ns, FileKey(path, schema)) THEN ns ELSE Append(ns, CarrierOf(path, schema))

\* One create_...(): the nodes it leaves and the keys it returns.  The carrier
\* stays when its dependent is refused.
Register(ns, r) ==
    LET kind == KindOf[r.make]
        carried == IF kind.from = "path" THEN WithCarrier(ns, r.args.path, kind.schema) ELSE ns
    IN IF ~Accepted(r) THEN [nodes |-> ns, keys |-> <<>>]
       ELSE IF HasKey(carried, KeyOf(r)) THEN [nodes |-> carried, keys |-> <<>>]
       ELSE [nodes |-> Append(carried, [key |-> KeyOf(r), dep |-> DepKey(r), request |-> r]),
             keys |-> <<KeyOf(r)>>]

RegisterFile(ns, r) ==
    [nodes |-> WithCarrier(ns, r.args.path, r.args.schema),
     keys |-> <<FileKey(r.args.path, r.args.schema)>>]

Shader(args) == [make |-> "hlsl", source |-> 0, args |-> args]
PairSwapped(ns, r) ==
    LET pixel == Register(ns, Shader(r.args.pixel))
        vertex == Register(pixel.nodes, Shader(r.args.vertex))
    IN IF pixel.keys = <<>> THEN pixel
       ELSE [nodes |-> vertex.nodes, keys |-> IF vertex.keys = <<>> THEN <<>> ELSE pixel.keys \o vertex.keys]

\* The pixel shader is not tried when the vertex shader was refused.
RegisterPair(ns, r) ==
    LET vertex == Register(ns, Shader(r.args.vertex))
        pixel == Register(vertex.nodes, Shader(r.args.pixel))
    IN IF vertex.keys = <<>> THEN vertex
       ELSE [nodes |-> pixel.nodes, keys |-> IF pixel.keys = <<>> THEN <<>> ELSE vertex.keys \o pixel.keys]

Created(ns, r) ==
    CASE r.make = "file"    -> RegisterFile(ns, r)
      [] r.make = "shaders" -> RegisterPair(ns, r)
      [] OTHER              -> Register(ns, r)

Command == program.script[at]
Ready(do) == at \in DOMAIN program.script /\ Command.do = do /\ ~pass.on /\ Free(Main)

Create ==
    /\ Ready("create") /\ ~committed
    /\ \E r \in Command.one_of :
        LET c == Created(nodes, r) IN
        /\ nodes' = c.nodes
        /\ created' = Append(created, [request |-> r, keys |-> c.keys])
    /\ at' = at + 1
    /\ UNCHANGED <<program, committed, handles, payload, tables, pass, fileVars>>

\* Refused when a prerequisite was never registered.
Commit ==
    /\ Ready("commit") /\ ~committed
    /\ committed' = \A n \in DOMAIN nodes : nodes[n].dep = NoKey \/ HasKey(nodes, nodes[n].dep)
    /\ at' = at + 1
    /\ UNCHANGED <<program, created, nodes, handles, payload, tables, pass, fileVars>>

-----------------------------------------------------------------------------
(* The compilers *)

IndexOf(key) == CHOOSE n \in DOMAIN nodes : nodes[n].key = key
Dep(n) == IndexOf(nodes[n].dep)
Compiled(n) == n \in DOMAIN handles

Get(h) == tables[h.table][h.id]

\* A compiler each, of the node's arguments and the bytes or the value of its
\* prerequisite.
CsvResult(a, bytes) == ParseCsv(Field(bytes, "bytes", <<>>), a.header_mode)
JsonResult(bytes) == IF "json" \in DOMAIN bytes THEN [document |-> bytes.json] ELSE Rejected
TomlResult(bytes) == IF "toml" \in DOMAIN bytes THEN [document |-> bytes.toml] ELSE Rejected
ShaderResult(a, bytes) ==
    IF <<a.stage, a.entry>> \in Field(bytes, "hlsl", {}) THEN [stage |-> a.stage, target |-> a.target] ELSE Rejected
FieldResult(a, bytes) == RawField(a, AsFloats(bytes))
GlbResult(bytes) == ImportMesh(Field(bytes, "glb", <<>>))
PlyResults(bytes) == {ImportCloud(Field(bytes, "ply", <<>>), g) : g \in Garbage}
TableResult(a) == a.table
SeriesResults(a, table) ==
    {IF CanResample(table, a) /\ SeriesValid(Resample(table, a, how)) THEN Resample(table, a, how)
     ELSE Rejected : how \in Casts}
SummaryResult(a, table) == IF CanSummarize(table, a) THEN Summarize(table, a) ELSE Rejected
SeriesViewResult(series, args) ==
    LET t == SeriesTable(series, args) IN IF TableValid(t) THEN t ELSE Rejected
SummaryViewResult(summary, args) ==
    LET t == SummaryTable(summary, args) IN IF TableValid(t) THEN t ELSE Rejected
ExportResult(a, table) ==
    IF ~TableValid(table) THEN Rejected
    ELSE [csv_text |-> BuildCsv(table, a.separator, a.include_header),
          column_count |-> Len(table.columns), row_count |-> Len(table.rows)]
MeshShownResult(key, mesh) == IF MeshValid(mesh) THEN MeshRenderable(key) ELSE Rejected

\* What a compiler may make of a request: from the bytes or the value of the
\* prerequisite, its key, and the arguments it was made from.
MadeOf(r, key, bytes, source, madeFrom) ==
    LET make == r.make  a == r.args
    IN CASE make = "csv"         -> {CsvResult(a, bytes)}
         [] make = "json"        -> {JsonResult(bytes)}
         [] make = "toml"        -> {TomlResult(bytes)}
         [] make = "hlsl"        -> {ShaderResult(a, bytes)}
         [] make = "field"       -> {FieldResult(a, bytes)}
         [] make = "pattern"     -> {MadeField(a)}
         [] make = "mesh"        -> {ProceduralMesh(a.kind)}
         [] make = "glb"         -> {GlbResult(bytes)}
         [] make = "cloud"       -> {SphereCloud(a)}
         [] make = "ply"         -> PlyResults(bytes)
         [] make = "table"       -> {TableResult(a)}
         [] make = "series"      -> SeriesResults(a, source)
         [] make = "summary"     -> {SummaryResult(a, source)}
         [] make = "seriesView"  -> {SeriesViewResult(source, madeFrom)}
         [] make = "summaryView" -> {SummaryViewResult(source, madeFrom)}
         [] make = "export"      -> {ExportResult(a, source)}
         [] make = "meshShown"   -> {MeshShownResult(key, source)}
         [] make = "fieldShown"  -> {FieldRenderable(key)}
         [] make = "cloudShown"  -> {CloudRenderable(key, source)}

\* A carrier has bytes and no handle, and the get() of a table refuses a handle
\* of another type.
SourceFits(n) ==
    LET takes == KindOf[nodes[n].request.make].takes IN
    CASE takes = "nothing" -> TRUE
      [] takes = "bytes"   -> Dep(n) \in DOMAIN payload
      [] OTHER             -> handles[Dep(n)].table = takes

\* What the compiler of node n may make of what its prerequisite holds now.
Results(n) ==
    IF SourceFits(n)
    THEN MadeOf(nodes[n].request, nodes[n].dep, payload[Dep(n)], Get(handles[Dep(n)]),
                nodes[Dep(n)].request.args)
    ELSE {Rejected}

-----------------------------------------------------------------------------
(* resolve_all() *)

BeginPass ==
    /\ Ready("resolve") /\ committed
    /\ pass' = [NoPass EXCEPT !.on = TRUE, !.todo = DOMAIN nodes]
    /\ UNCHANGED <<program, at, created, nodes, committed, handles, payload, tables, fileVars>>

\* The next node of compilation_order(), whose prerequisite came before it.
VisitNode ==
    /\ pass.on /\ pass.goal = 0
    /\ \E n \in pass.todo :
        /\ nodes[n].dep # NoKey => Dep(n) \notin pass.todo
        /\ pass' = IF Compiled(n) THEN [pass EXCEPT !.todo = @ \ {n}, !.resolved = @ + 1]
                   ELSE [pass EXCEPT !.todo = @ \ {n}, !.goal = n]
    /\ UNCHANGED <<program, at, created, nodes, committed, handles, payload, tables, fileVars>>

EndPass ==
    /\ pass.on /\ pass.goal = 0 /\ pass.todo = {}
    /\ pass' = [pass EXCEPT !.on = FALSE]
    /\ at' = at + 1
    /\ UNCHANGED <<program, created, nodes, committed, handles, payload, tables, fileVars>>

\* The node that resolve(goal) compiles next: the first of its chain that is
\* not in the cache.
FirstMissing[n \in DOMAIN nodes] ==
    IF nodes[n].dep = NoKey \/ Compiled(Dep(n)) THEN n ELSE FirstMissing[Dep(n)]
Current == FirstMissing[pass.goal]

Resolving == pass.on /\ pass.goal # 0
IsCarrier(n) == nodes[n].request.make = "file"

\* A map with one more entry.
With(f, n, v) == [m \in DOMAIN f \cup {n} |-> IF m = n THEN v ELSE f[m]]

Succeed(n, handle) ==
    /\ handles' = With(handles, n, handle)
    /\ pass' = IF n = pass.goal THEN [pass EXCEPT !.goal = 0, !.resolved = @ + 1] ELSE pass

Fail(n) ==
    /\ pass' = [pass EXCEPT !.goal = 0,
                            !.failures = Append(@, <<pass.goal, IF n = pass.goal THEN "CompileFailed"
                                                                ELSE "DependencyFailed">>)]
    /\ UNCHANGED <<handles, payload, tables>>

LastHandle(table) == [table |-> table, id |-> Len(tables[table])]

\* Every table appends, and slots are numbered from 1 behind the sentinel.
NewHandle(table) == [table |-> table, id |-> Len(tables[table]) + 1]
Stored(slots, value) == Append(slots, value)

CompileNode ==
    /\ Resolving /\ ~IsCarrier(Current)
    /\ \E value \in Results(Current) :
        \/ /\ value = Rejected
           /\ Fail(Current)
        \/ /\ value # Rejected
           /\ LET table == KindOf[nodes[Current].request.make].table IN
              /\ Succeed(Current, NewHandle(table))
              /\ tables' = [tables EXCEPT ![table] = Stored(@, value)]
           /\ UNCHANGED payload
    /\ UNCHANGED <<program, at, created, nodes, committed, fileVars>>

\* compile_file_byte_carrier(): the main thread reads the file.
ReadCarrier ==
    /\ Resolving /\ IsCarrier(Current)
    /\ Call([doing |-> "read", place |-> FullPath(nodes[Current].request.args.path),
             data |-> Empty, overwrite |-> TRUE])
    /\ UNCHANGED libVars

CarrierRead ==
    /\ Resolving /\ IsCarrier(Current) /\ Look
    /\ \/ /\ done[Main].error # "None"
          /\ Fail(Current)
       \/ /\ done[Main].error = "None"
          /\ Succeed(Current, NoHandle)
          /\ payload' = With(payload, Current, done[Main].value)
          /\ UNCHANGED tables
    /\ UNCHANGED <<program, at, created, nodes, committed>>

-----------------------------------------------------------------------------
(* The getters, and the commands that use them *)

\* get_...(): the handle of an asset, which is not valid before it is compiled.
Handle(i) ==
    IF created[i].keys # <<>> /\ Compiled(IndexOf(created[i].keys[1]))
    THEN handles[IndexOf(created[i].keys[1])] ELSE NoHandle

\* write_export_to_file() replaces the file; a handle that is not that of an
\* export ends it at once.
WriteExport ==
    /\ Ready("write")
    /\ LET handle == Handle(Command.export) IN
       IF handle.table # "export" THEN at' = at + 1 /\ UNCHANGED fileVars
       ELSE /\ Call([doing |-> "write", place |-> Command.place,
                     data |-> [bytes |-> Get(handle).csv_text], overwrite |-> TRUE])
            /\ UNCHANGED at
    /\ UNCHANGED <<program, created, nodes, committed, handles, payload, tables, pass>>

CallFile ==
    /\ Ready("call") /\ Call(Command.request)
    /\ UNCHANGED libVars

CallEnds ==
    /\ ~pass.on /\ Look
    /\ at' = at + 1
    /\ UNCHANGED <<program, created, nodes, committed, handles, payload, tables, pass>>

Post ==
    /\ Ready("async") /\ Async(Command.call, Command.request)
    /\ at' = at + 1
    /\ UNCHANGED <<program, created, nodes, committed, handles, payload, tables, pass>>

InstallExecutor ==
    /\ Ready("executor") /\ SetExecutor
    /\ at' = at + 1
    /\ UNCHANGED <<program, created, nodes, committed, handles, payload, tables, pass>>

-----------------------------------------------------------------------------
(* Files, workers and crashes *)

MainIO == FileStep(Main) /\ (~program.faulty => faults' = faults) /\ UNCHANGED libVars

Work(w) == WorkerStep(w) /\ (~program.faulty => faults' = faults) /\ UNCHANGED libVars

\* The process ends and its program is run again on the files it left.
Restart == program.faulty /\ FileCrash /\ Memory /\ UNCHANGED program

Next ==
    \/ Create \/ Commit \/ BeginPass \/ VisitNode \/ EndPass
    \/ CompileNode \/ ReadCarrier \/ CarrierRead
    \/ WriteExport \/ CallFile \/ CallEnds \/ Post \/ InstallExecutor
    \/ MainIO \/ \E w \in Workers : Work(w)
    \/ Restart

Spec == Init /\ [][Next]_vars

\* The executor runs what was posted at some point in the future
\* (async/async.h).
FairSpec == Spec /\ \A w \in Workers : WF_vars(Work(w))
-----------------------------------------------------------------------------
(* Properties *)

\* The assets that were created, as <<create, key>>, and have been compiled.
Assets ==
    {a \in (DOMAIN created) \X (1..2) :
        a[2] \in DOMAIN created[a[1]].keys /\ Compiled(IndexOf(created[a[1]].keys[a[2]]))}
NodeOf(a) == IndexOf(created[a[1]].keys[a[2]])
Made(make) == {a \in Assets : created[a[1]].request.make = make}
Request(a) == created[a[1]].request
ValueOfAsset(a) == Get(handles[NodeOf(a)])

\* The value of the asset that a was made from, as the program knows it.
SourceOf(a) == Get(Handle(Request(a).source))

Slots == UNION {{[table |-> x, id |-> id] : id \in DOMAIN tables[x]} : x \in TableNames}
Valued == {n \in DOMAIN handles : ~IsCarrier(n)}

\* Keys are registered once and after their prerequisites; a compiled carrier
\* has its bytes and no handle; every other compiled node has a slot of its
\* kind's table to itself, and no slot is without its node; a pass reports each
\* node once
\* (engine_asset_library.cpp:105, the add() of the tables).
TypeOK ==
    /\ \A m, n \in DOMAIN nodes : nodes[m].key = nodes[n].key => m = n
    /\ \A n \in DOMAIN nodes : nodes[n].dep # NoKey => HasKey(nodes, nodes[n].dep) /\ Dep(n) < n
    /\ DOMAIN handles \subseteq DOMAIN nodes
    /\ DOMAIN payload = {n \in DOMAIN handles : IsCarrier(n)}
    /\ \A n \in DOMAIN payload : handles[n] = NoHandle
    /\ \A n \in Valued : handles[n].table = KindOf[nodes[n].request.make].table
    /\ {handles[n] : n \in Valued} = Slots
    /\ \A m, n \in Valued : handles[m] = handles[n] => m = n
    /\ pass.on => pass.resolved + Len(pass.failures) + Cardinality(pass.todo)
                     = Len(nodes) - (IF pass.goal = 0 THEN 0 ELSE 1)

\* No value is stale or in the wrong slot: each is one that the compiler of its
\* node makes of that node's arguments and of what its prerequisite holds now,
\* and a carrier that is read is read before its dependents
\* (system.cpp:77-110).
ValuesCurrent ==
    \A n \in DOMAIN handles :
        /\ nodes[n].dep # NoKey => Compiled(Dep(n))
        /\ ~IsCarrier(n) => Get(handles[n]) \in Results(n) \ {Rejected}

\* The request that one key of a create_...() stands for.
Part(r, j) ==
    IF r.make = "shaders" THEN Shader(IF j = 1 THEN r.args.vertex ELSE r.args.pixel) ELSE r
Wanted(a) == Part(Request(a), a[2])

\* Every handle a getter returns leads to a value that the compiler of that
\* asset makes of the very arguments of its create_...(), of the bytes of the
\* file it names or of the asset it was made from, whatever else shares the
\* carrier, was refused as a duplicate or was compiled in between (the
\* create_...() and get_...() of the asset modules).
GettersAnswer ==
    \A a \in Assets : Request(a).make # "file" =>
        LET source == DepKey(Wanted(a)) IN
        ValueOfAsset(a) \in MadeOf(Wanted(a), source, payload[IndexOf(source)], SourceOf(a),
                                   created[Request(a).source].request.args) \ {Rejected}

\* What an asset of each kind promises of its value, from the arguments of its
\* own create_...() and the value of the asset it was made from.
Describes(a) ==
    LET r == Request(a)  args == r.args  value == ValueOfAsset(a)
        bytes == payload[Dep(NodeOf(a))]
        sourceKey == created[r.source].keys[1]
    IN CASE r.make = "json"  -> value.document = bytes.json
         [] r.make = "toml"  -> value.document = bytes.toml
         [] r.make = "csv"   -> value.has_header => value.headers # <<>> /\ args.header_mode # "ForceData"
         [] r.make = "shaders" ->
              LET wanted == IF a[2] = 1 THEN args.vertex ELSE args.pixel IN
              value.stage = wanted.stage /\ value.target = wanted.target
         [] r.make = "field" -> SizesFit(args) =>
              FieldDescribes(args, value) /\ value.values = AsFloats(bytes).floats
         [] r.make = "pattern" -> SizesFit(args) =>
              FieldDescribes(args, value) /\ PatternDescribes(args, value)
         [] r.make = "mesh"  -> MeshDescribes(value) /\ (args.kind = "Cube" => Closed(value))
         [] r.make = "glb"   -> value.vertices = FlattenSeq(bytes.glb)[1].positions /\ MeshValid(value)
         [] r.make = "cloud" -> SphereDescribes(args, value)
         [] r.make = "ply"   ->
              \E i \in DOMAIN bytes.ply :
                  LET t == bytes.ply[i] IN
                  /\ t.element = "vertex" /\ \A j \in 1..i - 1 : bytes.ply[j].element # "vertex"
                  /\ CloudDescribes(t, value)
         [] r.make = "table" -> value = args.table
         [] r.make \in {"seriesView", "summaryView"} ->
              TableValid(value) /\ Len(value.rows) = Len(SourceOf(a).buckets)
         [] r.make = "meshShown"  -> value.source_asset = sourceKey /\ value.kind = "Mesh"
         [] r.make = "fieldShown" -> value.source_asset = sourceKey /\ value.kind = "ScalarField"
         [] r.make = "cloudShown" ->
              /\ value.source_asset = sourceKey
              /\ value.bounds_min = SourceOf(a).ranges.min /\ value.bounds_max = SourceOf(a).ranges.max
         [] OTHER -> TRUE

\* Every handle a getter returns leads to what that asset's own arguments, its
\* file and its prerequisite make: the harmonics of a PLY file in the order of
\* their numbers, a field with all its samples, meshes whose triangles agree,
\* renderables of their own source, through shared carriers, duplicate
\* requests, failed and repeated passes (the create_...() and get_...() of the
\* asset modules).  Left out are a field whose size wraps, and the colour of a
\* PLY header with only a part of one, of which the rest is read at index -1.
BuiltFromArguments == \A a \in Assets : Describes(a)

Plain(args, csv) ==
    \/ args.include_header /\ csv.header_mode = "ForceHeader"
    \/ ~args.include_header /\ csv.header_mode = "ForceData"

\* A CSV asset that reads the very text of an export has the cells of the
\* exported table, row by row, when it treats the header as it was written:
\* quotes, commas and line ends in cells survive build_csv() and the scanner
\* (csv_export_compilers.cpp:17, csv_compilers.cpp:77).
ExportReadsBack ==
    \A e \in Made("export"), c \in Made("csv") :
        /\ payload[Dep(NodeOf(c))] = [bytes |-> ValueOfAsset(e).csv_text]
        /\ Request(e).args.separator = Comma
        /\ Plain(Request(e).args, Request(c).args)
        => /\ ValueOfAsset(c).rows = SourceOf(e).rows
           /\ ValueOfAsset(c).headers =
                  IF Request(e).args.include_header THEN SourceOf(e).columns ELSE <<>>

\* Every row of a table is in one bucket of its series or summary, or is
\* counted out, also at the end of the range, when the width does not divide
\* it, and for numbers that are no finite ones.  In a finite range with fewer
\* buckets than a word counts, a bucket's rows are those whose axis value it
\* covers, rows without one (NaN) apart, and its statistics are those of its
\* rows unless one of their numbers is not finite
\* (diagnostic_resampled_time_series_compilers.cpp:174,
\* diagnostic_timeframe_summary_compilers.cpp:161).  Left out are summaries
\* whose labels would pass the last frame number there is.
RowsAccounted ==
    /\ \A a \in Made("series") : SeriesAccounts(SourceOf(a), Request(a).args, ValueOfAsset(a))
    /\ \A a \in Made("summary") :
        LET d == Request(a).args IN
        d.frame_end + d.fpb < Word => SummaryAccounts(SourceOf(a), d, ValueOfAsset(a))

\* Every asynchronous call is answered by its callback, whether its file could
\* be opened, read or written or not, unless the process crashes
\* (filesystem.cpp:405, 424).
AsyncAnswered ==
    \A c \in Calls : calls[c].state = "posted" ~> calls[c].state \in {"answered", "none"}
=============================================================================
