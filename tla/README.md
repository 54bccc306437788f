# Formal models of the Wozzits window engine

This directory holds TLA+ models of the engine in `src/` (C++20, Win32 and
Direct3D 12), the configurations with which TLC checks them, and proofs about
them checked by the TLA+ proof system.  Paths below are relative to the
repository: `src/...` is the implementation, `window_engine/...` the headers.

## 1. The system

The engine opens a window, collects its events, runs a fixed graph of jobs each
frame, compiles a scene into a frame of render commands, and draws it.  Assets
(meshes, shaders, tables, point clouds) are compiled on demand through a
dependency graph.  A logger with its own thread serves everything else.

| Component | State it keeps | Operations | Interacts with |
| --- | --- | --- | --- |
| Logging (`src/logging`) | MPSC ring, accepting flag, sequence and drop counters, in-flight count, idle mutex and condition variable, tool sink, worker thread | `init_logger`, `log`, `wait_until_idle`, `set_log_sink`, `shutdown_logger`; the worker's loop and final drain | every thread that logs; sinks |
| Asset graph (`src/assets`, `window_engine/asset`) | pending registrations, DAG storage, handle cache, compiled nodes, compiler table | `register_asset`, `commit`, `resolve`, `resolve_all`, `invalidate`, `evict`, `clear`, queries | compilers (callbacks), the asset library |
| Jobs (`src/jobs`) | job graph template, per-frame counters and ready stack, bindings, profile | `add_job`, `add_dependency`, `commit`, `begin_frame`, `bind`, `execute` | the application's job callbacks |
| Engine loop and input (`src/engine`, `src/event`, `src/input`, `src/raw_input`, `src/window`) | event queue of the frame, window-event queue, input state, running and close flags | `run`, `shutdown`, `build_input`, `poll_window_event`, `pump_messages`, the window procedure | the operating system's message queue, the application |
| Application frame (`game_app.cpp`) | scene, transforms and their dirty flag, compiled scene and its validity flag, path of this frame's compilation, IR, render frame | seven jobs in a chain: platform events, shutdown input, view, camera and mode, compile scene, build IR, build frame; then `render` | input, jobs, GPU |
| Asset library (`src/engine/assets`) | registered nodes and their keys, compiled carriers and handles | `create_*` of every asset module, `commit`, `resolve_all`, the getters, `write_export_to_file` | asset graph, file system, resource tables |
| Compilers and importers (`src/engine/assets/*`) | none that lasts | one compiler per schema: CSV, JSON, TOML, HLSL, fields, meshes, clouds, tables, series, summaries, exports, renderables | files' bytes, resource tables |
| Resource tables (`types.h`, `scalar_field.cpp`, `dx12_internal.cpp`, ...) | slot vectors, handles with index and epoch | `add`, `get`, `destroy` | asset library, rendering caches |
| Files and the async hook (`src/file`, `src/async`) | the files; one pointer to an executor | `read_file`, `write_file`, `file_size`, `remove_file`, the async calls | the operating system, the host's executor, carriers and exports |
| Rendering caches (`src/engine/rendering`) | AssetKey to GPU handle maps | `find`, `realize`, `clear` | resource tables, the device |
| DX12 backend (`src/gpu`) | device, swapchain, one command allocator, fence value and event, descriptor heap, GPU tables | `create`, `begin_frame`, `end_frame`, `present`, `resize`, `destroy` | the operating system, the GPU |
| Application context (`app_context.cpp`) | window, device, asset library, caches | `init`, `shutdown` | all of the above |
| Time, parsers | none that lasts | wrappers | |

What is hard about it:

- *Concurrency* lives in the logger: producers, waiters, the worker and the
  thread that shuts it down, over an atomic counter, a lock-free ring and one
  mutex with a condition variable.
- *Recursion, failure and retry* live in the asset graph: compilers fail today
  and succeed tomorrow, results are dropped from the cache and rebuilt.
- *Counters and order* live in the job scheduler: unsigned counters, a LIFO
  ready stack, state that is reused from one frame to the next.
- *Ordering of events* lives in the input path: two bounded queues fed by one
  window procedure, read at different moments of a frame.
- *Stale state* lives in the frame: dirty flags and validity flags which decide
  what is recompiled.
- *Files under several hands* live in the file system: a read or a write is three or
  four Win32 calls, workers run them beside the main thread, and a write replaces
  the file in place.
- *Boundaries of data* live in the compilers: the last bucket of a range, quotes in a
  cell, columns in any order, sizes that wrap.
- *Life of resources* lives in the tables and caches: handles that outlive what
  they name.

The list of hazards, each at its line, is in `PROJECT.json`.

What makes each modelled component correct, in one line each:

- *Logging*: an accepted record is delivered once, in order, before shutdown
  frees the queue; a waiter returns only after delivery and always returns.
- *Asset graph*: a compiler sees all its prerequisites; nothing is compiled twice
  in a call; a call ends, whatever the graph and whatever fails.
- *Jobs*: each job runs once a frame, after what it depends on, with this frame's
  data, and no job is stranded.
- *Engine loop and input*: what the application sees of a key, of the window's
  size and of a request to close is what happened, no later than a frame after.
- *Application frame*: what is submitted belongs to the scene, the transforms
  and the view of the moment, whichever path prepared it.
- *Asset library and compilers*: a getter leads to the value that the asset's own
  arguments, file and prerequisite make, whatever else was created, shared, refused or
  failed before; no row of a table is lost; an export can be read back.
- *Files*: a read returns what a write stored, not what it was storing; an async
  call is answered.
- *GPU*: nothing the GPU may still use is released or reset, every object has one
  owner and goes with the device, a remembered handle names what it was given for.

## 2. The modules

| Module | Models | Checked by | Proved in |
| --- | --- | --- | --- |
| `Logger` | the logger, one step per atomic operation or critical section | `logger_racing`, `logger_fair`, `logger_drain_race` | `LoggerProofs` |
| `LogChannel` | what the logger promises: a FIFO channel | as `ChannelSpec` of `logger_fair` | `LoggerIsChannel` (its safety) |
| `AssetSystem` | `AssetGraphSystem`, the recursion of `resolve()` as an explicit stack | `asset_graph`, `asset_retry`, `asset_reload` | `AssetSystemProofs` |
| `DemandBuild` | what the asset graph promises: builds from ready prerequisites | as `DemandSpec` of `asset_graph` | `DemandImplemented` |
| `JobGraph` | template, `FrameExecution`, `DagScheduler` | `jobs_frames` | `JobGraphProofs` |
| `JobOrder` | what a frame promises: every job once, in order | as `OrderSpec` of `jobs_frames` | `OrderImplemented` |
| `InputLoop` | `run()`, `pump_messages()`, the window procedure, `build_input()`, the platform jobs | `input_loop`, `input_repeat` | `InputLoopProofs` |
| `FramePrep` | scene modes, animation, the three compilation paths, `render()` | `frame_prep` | `FramePrepProofs` |
| `GpuDevice` | the D3D12 device: frames, uploads, resize, fence, release; the caches of GPU handles | `gpu_frames` | `GpuDeviceProofs` |
| `FileStore` | `wz::fs` on several threads, the executor, faults and crashes | `asset_library` | `AssetLibraryProofs` |
| `TextTables` | the CSV scanner, its header rule, the CSV writer, tables of cells | `asset_library` | `CompilerProofs` |
| `TimeSeries` | the resampler, the frame summary, their table views | `asset_library` | `CompilerProofs` |
| `SplatClouds` | the PLY schema and importer, procedural clouds | `asset_library` | `CompilerProofs` |
| `FieldsAndMeshes` | raw and procedural fields, meshes, GLB, renderables | `asset_library` | `CompilerProofs` |
| `AssetLibrary` | the asset modules, keys, carriers, passes and getters; composes the five above | `asset_library` | `AssetLibraryProofs` |

`MC*.tla` hold the constants and refinement mappings of the runs.
Three modules are abstract specifications: they have no lines of code of their own.

In the modules, the operators directly before an action are sometimes a pair:
the one the action uses, and one that a plausible slip in the code would have
produced (`DownAny` before `Down`, `CountInForgotten` before `CountIn`).
`PROJECT.json` lists these under `mutants`: exchanging them must break the named
property, which is how we know that each property says something about the code.

### 2.1 Logger

State is `LoggerState` and its `LoggerQueue`, field by field, with a program
counter for each producer, each waiter, the worker and the thread that shuts
down.  `log()` is `PushBegin .. PushNotify`: the level filter, the in-flight
count, the test of `accepting_`, the sequence number, the push on the ring, the
submitted count, and on rejection the way back with its notification.  The
worker is `WorkerTest .. WorkerExit`; its final drain is the same loop
after `running_` is false, with the decrement that does not notify.
`wait_until_idle()` is `WaitBegin .. WaitReturn`; `idle_mutex_` is explicit
(`idleHolder`), the predicate is read inside it and the counter it reads changes
outside, as in the code; spurious wakeups are possible.  `shutdown_logger()` is
`StopClose .. StopDelete`.  The MPSC ring belongs to wozzits-core and is external:
an atomic bounded FIFO.

`OrderlyShutdown` chooses between callers that stay out once shutdown has begun
(what the code base does) and callers that race it (what the API permits).
`CallersOut` is no check of the code but this discipline: in an orderly run
`StopClose` waits for it, and `init_logger()` is called again only when no call of the
last state is left.  `StopDelete` has no guard: once `shutdown_logger()` frees the
state under a call in progress the behaviour is undefined, and the model stops there.

A waiter that has found the count above zero and sleeps must be woken by somebody:
`SleepersNoticed` says that as long as the count is zero and someone sleeps, a
notification is still to come (`NoticeDue`).  In `logger_racing` waiters sleep through
`stop()` and the final drain, whose decrements do not notify and which notifies once at
its end.

### 2.2 AssetSystem

`known`, `deps`, `intact` are the pending registrations and then the storage;
`valid`, `stale`, `handle` are `AssetCache`; `nodes`, `payload` are
`compiled_nodes_`.  A call of `resolve()` is a frame on `stack` with the
prerequisites it has still to visit, its return value is in `ret`, and
`resolve_all()` is a loop (`all`) whose body calls `resolve()`.  `commit()` is
one step that succeeds or is refused; a refused one leaves `intact` empty, since
the nodes have been moved.  A key may be its own prerequisite: that is a cycle, which
`commit()` refuses.  Prerequisites are a set: `resolve()` finds the second mention of a
key in the cache, or has returned before it.  Compilers are callbacks: a key in `broken` fails, and
what is broken may change between calls (`Flip`).  `invalidate`, `evict` and
`clear` happen between calls.

### 2.3 JobGraph

The template (`jobs`, `pre`, `indegree`, `roots`), `FrameExecution` (`status`,
`inputs`, `bindings`, `remaining`) and the scheduler's ready stack.  `reset()`,
`bind()`, `execute()` are called as `game_app.cpp` calls them.  Running a job is two
steps, so that "while a job runs" is a state.  The order in which the template
lists roots and dependents is the core library's, so every listing is allowed.

### 2.4 InputLoop

`os` is the operating system's message queue; `Dispatch` takes its head through
`ri_process_input()` and `WindowProc()` into `events` and `window`, which drop what
does not fit; `Poll`, `PollEnds` are `job_platform_events()`, `Jobs` the shutdown
and view jobs with the rest of the frame, `Frame` the drain and `build_input()`.
A key stands for a key or a mouse button; "other" messages are those that
only take a place in a queue.  `held`, `client` and the `lost*` flags are history:
what the user did, and which last edge or size did not fit, so that the
properties can say exactly when the application may be wrong.

### 2.5 FramePrep

One frame is `mode, animate, view, compile, ir, frame, render`.  A world transform is
the sequence of local transforms from below the root down, which is what
multiplication of matrices keeps apart, and each compiled product carries
the number of the build it points into, so a view into replaced buffers is
visible.  `SwitchFails` is `build()` refusing a scene after the configuration
has changed.  Animation gives each moved node a pose of its own.

The first frame after a change of scene shows every node at the pose it was
built with although `local` has been animated already: the full compilation reads
the worlds that `build()` propagated, and clears the dirty flag.
`FrameSubmitted` states it so (its part on transforms); the next frame is right again.

### 2.6 GpuDevice

`tables` are the slots of the device's tables (and of the pointers to its contexts),
by the item each slot holds; `cache` is whoever remembers a handle: the asset
library for shaders, `RenderableGpuCache`, `RenderablePipelineCache`.  `live` is the set
of D3D12 objects that exist, named by table, slot and part, so that a leak or a second
release is visible.  Making an item is `Realize`, `CreateObject` for each object, then
`Store`; `CreateFails` may come at every point where the code handles a failure.
A texture is copied by a command list of its own (`RecordCopy .. FinishUpload`), a frame is
`BeginFrame, Draw*, Execute .. FinishFrame, Present`; `resize()` and `destroy_device()`
share the steps of the wait, of which the fence's value, the comparison, the arming
of the event and the sleep are steps of their own.  Between any two of them the GPU
may finish what is first in its queue (`GpuStep`).

A wait for an upload that fails returns without advancing `fence_value`, while the
copy may still run.  The next wait signals the same value again and may be
satisfied by the first signal; the one after that is sound.  `MadeGood` says so, and
the two properties about memory in use exempt exactly that window; an exemption
shorter by one signal is violated.

### 2.7 FileStore

A call of `wz::fs` on a thread is `op[t]`: opening the file (`Open`, `OpenFails`), taking its
size (`GetSize`), the transfer (`ReadFile`, `WriteFile`, `TransferFails`), each a step of its
own, because each is a Win32 call that other threads may come between.  Whether a file may
be opened beside the handles of others is what the share modes in `CreateFileW` say:
`Shares` is the third argument of those calls and `Compatible` the rule of the operating system.
`write_file()` opens with `CREATE_ALWAYS`, so `Open` leaves an empty file, and a transfer that
fails, or a crash, leaves that or some beginning of the data (`Left`).  An async
call is posted to the executor (`Async`), taken by any worker at any later time (`TakeJob`), and
answered by its callback with the result of the call; without an executor the
callback comes at once, with an error.  `FileCrash` ends all calls and keeps the files.

`stored`, `damaged` and `reads` are history: what the last write that completed left, where a write
has broken off since, and what each thread's last read returned against what was stored
when it opened the file.

### 2.8 TextTables, TimeSeries, SplatClouds, FieldsAndMeshes

The compilers as operators: from the bytes or the value of the prerequisite, and the
arguments of the request, to the value or `Rejected`.  A text is a sequence of characters, of
which the separators, the quote and the line ends are themselves and every other is a token.
A file is a record that says what each parser would find in it (`bytes`, `floats`, `ply`,
`glb`, `json`, `toml`, `hlsl`); a parser given another kind of file rejects it, but for
raw fields, which take any bytes: four characters of a text are one float (`TextFloat`).  The doubles of
cells, axes and statistics are whole counts of 1/`PerOne`, the last decimal that
`std::to_string()` prints, or one of `NaN`, `PosInf`, `NegInf`, which `strtod()` reads from a
cell as well: comparisons, sums and differences treat them as IEEE 754 does, so that
NaN is neither below nor above a range.  Sums are exact, and a mean is rounded to the unit.
The conversion of a double that does not fit a `uint32_t` is undefined in C++: `Cast`
takes either of the outcomes of the instructions that a compiler emits for it.
Other coordinates and samples are integers; `NotFinite` is a value no validity check accepts.
Sizes wrap at `WordSize`, frame numbers at `Word`: any
positive numbers (`WordSizeAssumption`, `WordAssumption`).
What an importer reads at index -1 of a table of floats is any member of `Garbage`.

The properties do not use these operators where they describe a result: they state it
anew.  `SeriesAccounts` speaks of the rows of each bucket as a set given by the
interval of the bucket, `CloudDescribes` of the columns by name, `MeshDescribes` and
`Closed` of the sides of triangles, each passed once in each direction.

### 2.9 AssetLibrary

`created` is what the program knows (what each `create_...()` was given and returned), `nodes`
what is registered.  `KindOf` tells for each asset module where its prerequisite comes from,
which table its value goes to, which arguments its key is made of, and whether a name is
required.  `Register` is the whole of a `create_...()`: its checks, the carrier that is registered
first when it is new and stays when the dependent is refused, the refusal of a
key that is there already.  A shader pair is two of them, and the first stays when the second is refused.
`resolve_all()` is `BeginPass`, one `VisitNode` per node, `EndPass`; between them the compilers run,
those of carriers through the file system, where workers and faults come in.  Every asset
has at most one prerequisite, so `Current` is the next node of one chain (`FirstMissing`); `resolve()` on
general graphs, with its recursion, is `AssetSystem`'s.

`Results` is one call of a compiler.  Each looks its prerequisite up where it expects it: among the
carriers' bytes, or in one resource table, whose `get()` refuses the handle of another (`SourceFits`);
an asset made from one of the wrong kind is registered and then rejected.  What the compiler computes
is `MadeOf`, of nothing but the request, the bytes or value of the prerequisite, its key, and the
arguments the prerequisite was made from (a table view copies the names of its series' columns from them).

The properties come in three layers.  `ValuesCurrent` speaks of the nodes: what is in a node's slot is
what its compiler makes of what its prerequisite holds now.  `GettersAnswer` speaks of the callers: the
key that a `create_...()` returned leads, through the keys, the nodes and the cache, to a value made of
that very request and of that very source.  `BuiltFromArguments`, `ExportReadsBack` and `RowsAccounted`
say of the values themselves what they must be, without the operators that made them.

A program is data (`Programs`: the files it finds, and its commands), so that one run checks many of them.

## 3. The runs

| Run | Instance | What happens in it | What it shows |
| --- | --- | --- | --- |
| `logger_racing` | 2 producers, 2 calls and 1, 1 waiter, ring of 2, disorderly shutdown | the ring fills, drops, and is closed under every producer position | in-flight count exact; waiters return after delivery and no wakeup is lost, by the final drain either; each producer's order; shutdown ends with callers still pushing |
| `logger_fair` | 2 producers, 1 waiter, 1 sink, ring of 1, two `init_logger()` | two `LoggerState`s in succession, sink replaced while in use | `LogChannel` refinement; waiters return; shutdown delivers |
| `logger_drain_race` | 1 producer, 2 calls | shutdown overtakes a push | *violation*: see 5 |
| `asset_graph` | 3 keys, every graph (cyclic ones and keys that need themselves too), a compiler for two keys or for all, 1 commit, 1 drop, 1 carrier | failure and retry of a build, diamonds, a key without compiler, reload | `DemandBuild` refinement, recursion bounded, every call returns |
| `asset_retry`, `asset_reload` | 2 keys | refused commit; reload after `invalidate()` | *violations*: see 5 |
| `jobs_frames` | 4 jobs, every graph, 2 frames | diamonds, chains, cycles, empty graph | `JobOrder` refinement, counters, no job stranded |
| `input_loop` | 2 keys, 3 sizes, queues of 2, 4 messages | both queues overflow, masked buttons, minimise, close | input follows, edges, sizes, the loop ends |
| `input_repeat` | 2 keys, 2 messages | a held key repeats | *violation*: see 5 |
| `gpu_frames` | shaders, mesh, 2 textures, a program, a context; 2 descriptors, fence values to 4, 1 failed wait, 1 `clear()` | any order of frames, uploads, resizes, destruction; GPU of any speed; every failure of a creation | nothing in use is released, one owner each, true handles, every call returns |
| `frame_prep` | 2 groups, 2 members, 1 still object, a mode per animation, 3 builds | all sequences of modes, failures, poses, views | what is submitted is current |
| `asset_library` | about thirty programs of 2 to 8 commands, most of them with sets of requests to choose from; 2 files, 2 workers, 2 async calls; in two of the programs 1 failed transfer and 1 crash | every kind of asset; all tables of one or two rows out of 9 (of 7 for summaries) and of three of the first four, against 9 series and 6 summaries; cells with quotes, commas and line ends; shared carriers under two spellings, duplicates, half registered pairs, prerequisites of another kind, a file written between two passes, workers on the same file | no value stale or in another's slot, getters lead to what was asked for, values as promised by their arguments, all rows accounted for, exports read back, no half written file read, async calls answered |

Bounds of `asset_library`.  Three rows are enough for one in the first bucket, one in the last and
one on the border of the range or outside; the widths 1, 2 and 3 divide the ranges and do not.
`Word = WordSize = 64` lets sizes and frame labels wrap within reach, and a range of 132
halves has more buckets of half a unit than a word counts.  `PerOne = 2` gives cells and buckets with a
half; `nan`, `inf` and `-inf` are among the cells of axes and metrics.  Cells are sequences of up
to three characters, so that a quote stands first, last and doubled, and a line end beside it.
One fault and one crash are enough: what they leave is a damaged file, and a second
one damages it again.  Two workers and the main thread make every pair of a reader, a writer and a second
writer; `ReadsWhole` has no such bounds.

Bounds.  `MaxCalls`, `MaxInits`, `MaxSetSinks`, `MaxDrops`, `MaxCommits`, `MaxFrames`,
`MaxPosts`, `MaxBuilds`, `MaxFence`, `MaxFaults`, `MaxClears` bound how often the environment acts and appear only in
guards of its actions.  They are small because the state does not remember
more: a ring of one or two slots is full after one or two records, and the third
is the first that is dropped; two `LoggerState`s are needed to see that one does
not leak into the next, and a third repeats the second; three keys and four jobs
are the least that make a chain beside a shared prerequisite and a
diamond; a second frame is what could see a stale first one (a commit retried after
a refused one is `asset_retry`'s case); a failed wait is made good by the second
signal after it, so that fence value 4 is the first to show it; four
messages overflow both queues of two and leave one that corrects a lost
edge.  No run uses symmetry.

`CHECK_DEADLOCK FALSE` is set where the system stops: the logger after its last
shutdown, the asset graph and the jobs after the last allowed call, the loop when it
has ended, the GPU after its device, a program of the library after its last command.  `FramePrep` never stops, and deadlock is checked.

## 4. Fairness

- *Logger*: weak fairness of each thread's steps, which the operating system's
  scheduler gives; strong fairness of the steps that take `idle_mutex_`, since a
  mutex is contended again and again and is granted eventually.  None for callers:
  nobody has to log.
- *Assets, jobs*: weak fairness of the call in progress: the code is sequential
  and does not block.  None for the caller.
- *InputLoop*: weak fairness of the main thread.  The pump drains until the queue
  of the operating system is empty, so that the loop goes on at all depends on
  messages arriving more slowly than they are dispatched; `MaxPosts` states it.
- *GpuDevice*: weak fairness of the call that the thread has begun, and of the GPU with
  its queue: a fence that is signalled is reached unless the device is lost, which the
  code does not handle either.
- *AssetLibrary*: weak fairness of each worker, which is the executor's promise in
  `async/async.h` that a job "will be executed by the executor at some point in the future".
  None for the main thread: nothing has to be created or resolved.
- *FramePrep*: none; its properties are safety properties.

## 5. Where code and documents disagree

1. `logger_drain_race`.  `threaded_logger_tests.cpp` says that after shutdown every
   accepted message has reached the sink.  A `log()` that has passed the test of
   `accepting_` may push after the final drain: it returns true and the record is
   destroyed with the state.  The test logs from
   one thread, the one that shuts down, and cannot meet this.
2. `asset_retry`.  `system.h` promises that a refused `commit()` may be corrected and
   tried again; the nodes have been moved out by then, so a retry freezes
   empty ones.
3. `asset_reload`.  `compiled_nodes_` is described as parallel to the cache; `emplace`
   keeps the old node when a key is compiled a second time.
4. `input_repeat`.  `input.h` defines `pressed` as a transition in this frame; the
   keyboard's automatic repeat sets it again for a held key, so a held F6 goes
   through the scene modes.

Two more were met while modelling.  No run is spent on them: the models do what the code does, and
the properties leave these cases out.

- The comment at `system.h:105-107` says that the calls of `resolve()` in `resolve_all()` never
  recurse.  They do after a failure, which is not remembered: every dependent of a
  failed key compiles it once more (`system.cpp:80`).  `OncePerCall` is about `resolve()` alone.
- `gaussian_splat_ply_schema.cpp:203` says that the importer supplies defaults for fields
  that a header lacks.  For the colour it tests only the first of three
  (`gaussian_splat_ply_importer.cpp:181`): a header that has `f_dc_0` without `f_dc_1`, or
  `red` without `green`, is accepted, and the rest read at index -1.  `BuiltFromArguments` says
  nothing of such a colour.

## 6. Proofs

TLAPS proves the following for every value of the constants that satisfies the
modules' assumptions (finite sets of threads or jobs, a positive capacity, natural
bounds).

**LoggerProofs.**  `TypeCorrect`, `InFlightCorrect` and `IdleReturnCorrect`:
`Spec => []TypeOK`, `[]InFlightExact`, `[]IdleReturnDelivers`.
`InFlightExact` says that `in_flight_` is the number of producers between raise and
give-back, plus the length of the ring, plus the record in the worker's hands.  It is
inductive only together with what the program counters imply (`PushLocal`: a
producer before the push has its own record in hand; `WorkLocal`: the worker holds
a record exactly between pop and release), so `CountInv` is their conjunction.
The cardinality of the set of counting producers changes by one at each step that
matters (`CountedGrows`, `CountedShrinks`).  `IdleReturnDelivers` speaks of what
was accepted before the wait began; it needs `NothingLost` (what was accepted is
delivered, or counted) and `WaitLocal` (a waiter about to return saw zero while it
held the mutex); with `CountInv` zero means that nothing is between ring and sink.
`NoWakeupLost` (`[]SleepersNoticed`) is about all callers, those that race the shutdown too: that the
count is above zero when a waiter goes to sleep, and that whoever brings it to zero has
a notification before it, needs what the worker still does after its last test (`SleepInv`).
`DeliveryKeepsOrder` (`[]DeliveredInOrder`) holds also for callers that race the shutdown: what
has been delivered and what is pending form one stream, in which the records of each producer
ascend, and a record about to be pushed comes after all of its producer's (`OrderInv`).
`ReplacedSinkCalledOnce` (`[]StaleSinkAtMostOnce`) needs that a copy of the sink, once it is
stale, is used for the record in hand only.
`ShutdownDrains` and `LoggerIsChannel` assume `OrderlyShutdown`, and have to: run
`logger_drain_race` is the counterexample without it (see 5).  `DrainInv` says that nobody pushes
once `stop()` has begun, so that the ring the worker last found empty stays so.
`LoggerIsChannel`, `Spec => Channel!Safety`, is the refinement of `LogChannel`, step by step:
`WorkerDispatch` is its `Deliver`, `PushRing` that succeeds its `Accept`, `init_logger()` its `Reset`
and needs `DrainInv`, and every other step leaves the channel alone.  The channel's fairness is
not part of the theorem; `logger_fair` checks it.

**JobGraphProofs.**  `JobInvariant`: `Spec => []JobInv`, where
`JobInv = TypeOK /\ GraphInv /\ CountersExact /\ ReadyInv /\ AllRun`.  `CountersExact`
(the counter of a waiting job is the number of its unfinished prerequisites) is
not inductive alone: completion of a job decrements the counters of its dependents,
and that the ones that reach zero are exactly those to be pushed needs
`ReadyInv` (the ready stack holds, without repetition, just the jobs that are
waiting with counter zero).  `GraphInv` carries the ranking that a sortable
graph has; `AllRun` follows from it, since a least unfinished job would be ready, and
the stack is empty when `execute()` returns.  `JobTypeCorrect`, `CountersCorrect`,
`AllRunCorrect` are its parts, `NoStaleData` (`[]NoStaleBinding`) adds that `begin_frame()`
leaves no binding of an earlier frame (`BindInv`), and `OrderImplemented`, `Spec => OrderSpec`, is the
refinement of `JobOrder`, step by step.

**AssetSystemProofs.**  The inductive invariant is
`Inv = TypeOK /\ GraphInv /\ CallInv /\ LoopInv`.  `GraphInv`: a committed graph is closed and
numbered, prerequisites before dependents.  `CallInv` holds `StackDescends` and
`NodesPresent` together with what makes them inductive: every frame is for a known key
without a valid entry (`FramesOK`), a frame that is not innermost waits for the key of the
frame above (`Chained`), and a prerequisite that has just succeeded is valid (`Answered`).
The prerequisites that a frame has passed stay valid because entries are dropped only
between calls, and a popped key differs from the keys below it because the numbers strictly
descend.  `LoopInv` says where `resolve_all()` stands; that the key of its loop is the only one with
its number is a counting argument (a surjection between sets of equal size is injective).
Types need all of it: the key that the loop reports as failed is a key only because the
loop is inside the graph.  `AssetTyped`, `RecursionDescends` and `PrerequisitesPresent`
are its parts.  `CompiledOnce` adds that until a call fails, what it has compiled is valid
(`OnceInv`); `LoopAccounts`, that `resolve_all()` counts every node once (`AllAccounted`), is inductive relative to `Inv`; and `DemandImplemented`,
`Spec => DemandSpec`, is the refinement of `DemandBuild`, where a compilation is a `Build`
because of `NodesPresent`.

**InputLoopProofs.**  `LoopTyped`, `FrameEdges`, `FramesFollowKeys` and `SizesStay`:
`Spec => []TypeOK`, `[]EdgesExplain`, `[]KeysFollow` and `[]SizesAgree`, for queues of any capacity.
The lemmas say what one more event changes in `Down`, `SizeNow` and in what the polls will make
of the swapchain (`DownWithEdge`, `SizeWith`, `PolledWith`, `PolledTail`).  `KeysFollow` needs
that the last message about a key tells its state (`OsTells`).  `SizesAgree` needs that the view
follows the window even while messages wait (`ViewInv`), and that between the poll and the
next pump the window queue has nothing new for the swapchain (`QuietInv`): that is why a
view is wrong for one frame and not for longer.

**AssetLibraryProofs, files.**  `FileTyped` and `ReadsWhole`: `FileSpec => []FileTypeOK` and
`FileSpec => []ReadsAreWhole`, for any threads, files and contents, any number of faults and
crashes, and callers that call in any order; the programs of `AssetLibrary` are some of these.
`ReadsAreWhole` alone is not inductive: that the bytes a read finds are those stored when it
opened the file needs that nobody writes while it is open (`WritesAlone`, which is where the
share modes come in: a writer shares nothing, and a reader no writing), that a file nobody
writes holds what was last stored unless it is damaged (`Steady`), that a handle's file is there
(`HeldExist`, since deletion wants all handles closed), and that what an open handle remembers is
still what is stored (`OpenedWhole`).  `FileInv` is their conjunction.  Each step of
`wz::fs` is one case; `Open` is the one that uses `Compatible`, the transfers the ones that use
`WritesAlone`.

**GpuDeviceProofs.**  `DeviceTypes`, `ObjectsHaveOwners`, `HandlesStayTruthful` and `QueuedWorkIsSafe`:
`Spec => []TypeOK`, `[]ObjectsOwned`, `[]HandlesTruthful`, `[]QueuedAreSafe`, for any assets, any
bounds and any order of calls.  The invariant is built in three layers.  `ControlInv` is what the
program counter implies about the call under way: how many objects are in hand (`HandInv`), that a
call which will signal has a value left for it (`RoomInv`), when the event may be armed or set
(`EventInv`).  `OwnerInv` adds `ObjectsOwned`, `HandlesTruthful` and that the command list refers to
objects that exist; the lemmas say what one more object, one more slot, and the release of an
unfinished item do to the union of what is owned.  `SafeInv` is about the queue.  `UsedAreLive` is
not inductive: that a resize may release its backbuffers needs that the wait has emptied the queue,
which holds because the value signalled is the last in the queue and greater than all before it
(`FlushInv`), and that between calls no batch is queued and only presents of the present
backbuffers are (`RestInv`).  After a failed wait the value is signalled twice, and `FlushInv` is
silent for it; `MadeGood` is the window in which the theorem says nothing, and the code gives no
more.

**FramePrepProofs.**  `FrameTypes` and `SubmittedIsPresent`: `Spec => []TypeOK` and
`[]FrameSubmitted`, for any groups, members and modes.  `FrameInv` adds to the types where every
node stands that the mode does not animate (`SceneInv`), that the list of affected nodes names
just the animated ones, a parent before its children (`ListInv`), that what was compiled and built
is of this scene as long as `compiled_scene_valid` says so (`ProductInv`), and that from the
compilation to the submission it is of this frame (`FreshInv`).  The heart is `UpdatedWorlds`:
whatever the list's order within groups and within members, `update_world_for_nodes()` leaves every
listed node where propagation from the root would put it.  It is an induction over the list, which
the provers do with a set of numbers (`SetInduction`, from the well-foundedness of the naturals).

**AssetLibraryProofs, the library.**  `LibraryTyped`, `ValuesStayCurrent` and `GettersAnswerRequests`:
`Spec => []TypeOK`, `[]ValuesCurrent` and `[]GettersAnswer`, for any programs, files, workers, faults and
crashes.  What a compiler computes is left open in them: `MadeOfWhatItTakes` says only which of its
inputs it looks at.  `ProgramAssumption` is about the programs, which are parameters: they ask for the
kinds of assets there are, with arguments of the types the descriptors declare
(`ArgumentsTyped`: a table is made of texts, a width is a number, a frame label a word), and name files and requests among those there may be.  `LibraryInv` is the conjunction of what is registered (`NodesInv`: each key once,
prerequisites first, so that chains end and `FirstMissing` is a node whose prerequisite is
compiled), what was promised to the callers (`CreatedInv`: each key returned is that of a node of the same
request, with the prerequisite that the request names), the tables (`TablesInv`), the cache
(`CacheInv`: slots and nodes correspond one to one), the pass (`PassInv`) and `ValuesCurrent`.
A step either registers nodes or adds one entry to the cache and one slot to a table;
`SourceStays` says that neither changes what an older value was made from.  For `GettersAnswer` the source
that the caller named has to be the node that the compiler read: a source that is a file, or a pair of
shaders, has no value of the type the compiler takes, and so nothing made from it is ever stored.

`LibraryUsesFiles` and `LibraryReadsWhole`: `Spec /\ []TextsFit => FileSpec` and
`=> []ReadsAreWhole`.  Every step of the library, its callers and the workers is a step that
`FileStore` allows its callers, so what is proved of files holds while carriers are read, exports
written and async calls served.  `TextsFit` says that the texts the export compiler makes are
among the `Contents` that a file may hold; the texts are computed, so this is a hypothesis about
that constant, and the constant of `asset_library` holds all texts.

`ExportsReadBack` and `RowsAreAccounted`: `Spec => []ExportReadsBack` and `[]RowsAccounted`.  What
`CompilerProofs` shows of a compiler is about one call of it; these two take it into the running
library.  `LibraryInv` makes the value behind a getter one that the compiler made of the asset's own
arguments and of the value of its source (`AssetValue`, `MadeSeries`, `MadeSummary`), and
`RequestsInv`, that every asset's request is one of the program's, brings `ArgumentsTyped`.  A source is
a table of texts whatever made it: one given by the caller, one read from a CSV file, or a view of a
series or summary (`SourceIsTable`, with `SeriesTableIsTable` and `SummaryTableIsTable`).

`AssetsAreAsAsked`: `Spec /\ []TextsFit => []BuiltFromArguments`, for assets of all kinds at once, when
the files hold what `ContentsTyped` says.  Its invariant `BuildInv` adds to `LibraryInv` and
`RequestsInv` that a cloud was only registered after the checks of `create_procedural_cloud()`
(`SpheresInv`: the compiler does not repeat them, and a cloud without a splat would have no bounds), and
that every payload held by a carrier is a content of some file (`PayloadInv`: the disk of a program
to start with, an export or an async write later).  What the compilers promise then comes from `CompilerProofs`, one kind of
request after the other (`TextsDescribed`, `ShapesDescribed`, `CloudsDescribed`, `ViewsDescribed`).
`ContentsTyped` is a hypothesis about the vendored parsers, which are not modelled: of any
file they return sequences, of rows as long as the header says, and a PLY number or the samples of a
field are numbers.  `ProgramAssumption` says the same of the files that a program finds, and TLC evaluates it
for all of them; the model lets a text be read as floats, four characters each, so that a
field may be made of an exported table.

**CompilerProofs.**  Facts about the compilers for every input.  The provers cannot use an induction
principle that takes a predicate, so an induction is one over a set of numbers
(`NumbersInduct`, `UpTo`, from the well-foundedness of the naturals), and a fold is used only
after its values have been shown to exist step by step (`FoldIsDefined`, `IsRun`): over the rows of a
table in `SampleStats` and `ValueStats`, over the characters of a text in `AllRows`, over
the cells of a line in `Line`.

- `CsvRoundTrip`: what `build_csv()` writes of a valid table, the scanner reads back into the same rows
  and header.  The argument follows the scanner through one escaped cell (it adds the cell and is
  outside quotes behind it), then through the cells of a line, then through the lines.  The
  separator is a comma, and the header is treated as it was written: with `Auto` the scanner
  guesses, and a table whose header looks like numbers does not come back.
- `RowsHaveOneBucket` and `FramesHaveOneBucket` are about single rows of the two diagnostics: whatever
  the range and the width, the bucket that the compiler puts a row into is the one whose interval
  contains it, and no value of the range is left without one; the end of a range goes into the
  last bucket.  `SeriesAccounted` and `SummaryAccounted` are about whole tables: `SeriesAccounts` and
  `SummaryAccounts` hold of what the compiler makes of any table.  `SamplesDescribed` and `ValuesDescribed` are
  their core: the accumulator, run over the rows in order, has the count, sum, least, greatest,
  first and last value of the set of rows, when the values are finite.  With NaN or infinities what
  is proved is the count: every used row and every sample of it is in one bucket, whatever the
  conversions leave.  Over a finite range whose buckets a `uint32_t` counts, only a row whose axis is NaN
  is in a bucket that does not cover it, and all of those are in the first or all in the last.  The frames are words of any width (`WordAssumption`), and
  the theorems are about labels that do not wrap.
- `SphereIsDescribed`: the procedural cloud has the splats asked for, evenly from pole to pole, and none
  reaches out of its bounds.
- `CloudIsDescribed`: a cloud read from a PLY file is that of the first vertex element.  `RestOrder` sorts the
  harmonics by the numbers in their names, whatever their order in the header; that the k-th of the sorted
  columns is the one numbered k, when they are numbered without gaps, is a count of the columns
  before it (`HarmonicsInOrder`).  Every other field is the row's own or its default (`FieldsGiven`), but for a
  colour of which the header has only a part (see 5).  The bounds are a fold over the rows, whose value is attained and covers each
  row (`RangesCover`).
- `FieldIsDescribed` and `PatternIsDescribed`: fields whose size does not wrap have all their samples within
  their range, and patterns the shape of their generator.  A gradient is checked in units of 1/12, so that it
  rises at every step only up to 13 places and does not fall beyond; the code's floats do not
  have this limit.  A radial gradient and waves of negative amplitude are left out: the first is then
  largest inside, the others are below zero.
- `MeshIsDescribed` and `MeshIsImported`: the triangle, the quad and the cube, side by side, and the
  first primitive of a GLB document, found in the flattened list of its meshes.

Only model-checked:

- Liveness, since the provers know neither fairness nor ENABLED: that waiters, calls, loops and async
  calls end, and the fairness of `LogChannel`, `DemandBuild` and `JobOrder`.

Every safety property of the runs that pass is stated by a theorem.  Two hypotheses of theorems of the
library are not about the code under `src/`, and the run shows them of its own constants only: `TextsFit`,
that a file may hold the texts an export makes, and `ContentsTyped`, on what the vendored parsers return.

## 7. Not modelled

The reasons are with each component in `PROJECT.json`.  External, and modelled only
by how the code uses them: the rings and the graph, scene and render libraries
of wozzits-core, the operating system, the GPU, the executor, the parsers of JSON, TOML,
PLY and GLB and the HLSL compiler.  The lock-free rings' own memory
orders are theirs.  Logging calls, wording, ImGui panels and shaders' text are
left out.  So are collisions of the 64-bit key hash, and an empty resource root.
Files are shorter than 4 GiB: the sizes given to `ReadFile` and `WriteFile` are cast to a
`DWORD` (`filesystem.cpp:123`, `:168`).  Of doubles, rounding, the sign of NaN, and the six significant
digits of `%.6g` in the view of a summary are left out, and a series request has a finite range and
width; memory is never exhausted, however many buckets a request asks for.
`execute()` without a `reset()` before it, which `frame_execution.h` asks for and every caller gives, a mouse packet
with edges of two buttons, and threads that write the plain bool `running` beside the main thread are left out.
`type_extensions.h` and `system_1.h` are included by nothing.  Hazards that no property
covers have a note in `PROJECT.json`.

What the models showed about the code, without a document that says otherwise:

- A row at `frame_end` of a summary is counted in the last bucket although the bucket's label
  ends before it (`diagnostic_timeframe_summary_compilers.cpp:216`); `SummaryAccounts` says so.  Labels
  of a bucket near 2^32 wrap; `RowsAccounted` leaves such summaries out.
- A row whose axis cell is `nan` passes the test of the range and is counted in a bucket that depends on
  the conversion (`diagnostic_resampled_time_series_compilers.cpp:231`, `:324`); a number of buckets
  beyond a `uint32_t` is cut the same way (`:293`).  `SeriesAccounts` says what holds all the same.
- The byte count of a raw field is computed in 32 bits (`scalar_field_compilers.cpp:111`): sizes
  whose product wraps accept a short file.
- `from_win32()` tells neither a file that exists already nor a sharing violation from other
  failures: both become `IOError`.
- A write that fails leaves a truncated file; the count that `WriteFile` reports is not compared.
- `GLB`: `mesh_index` is part of the key, but the first mesh is the one compiled; indices are not
  compared with the number of vertices.
- The bounds of a mesh's renderable are always the cube from -1 to 1.

## 8. Plan
Later work, in this order.

1. *Tables* (`ResourceTables`): epochs and `destroy()` followed by `add()` against the contract in
   `types.h`, once a program makes a second device or library.
2. *Application start* (`AppStart`): what `init()` and `run_app()` leave when a step fails.
