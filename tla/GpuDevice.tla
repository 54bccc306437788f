----------------------------- MODULE GpuDevice -----------------------------
(***************************************************************************)
(* The Direct3D 12 device (src/src/gpu) and the caches that remember its   *)
(* handles (src/src/engine/rendering), from the creation of the device to  *)
(* its destruction.  One thread records a command list from one allocator, *)
(* executes it, signals a fence and sleeps until the GPU has reached it;   *)
(* the GPU works through its queue at its own pace.  What is uploaded is   *)
(* made of objects that only destroy_device() releases, and backbuffers of *)
(* objects that a resize replaces.                                         *)
(*                                                                         *)
(* External: the GPU with its queue and fence; a swapchain whose present() *)
(* takes its turn in that queue; and D3D12's failures, which may be any    *)
(* that the code does not assert away.  A wait on an event that exists     *)
(* does not fail.  As in all programs of the repository, resources are     *)
(* made between frames.                                                    *)
(***************************************************************************)
EXTENDS Integers, Sequences

CONSTANTS
    Items,        \* what may be made: assets, shaders, programs and contexts
    KindOf,       \* the kind of each item
    Needs,        \* items whose handles must be valid before it is made
    SrvCapacity,  \* scalar_field_srv_capacity
    MaxFence,     \* bound: no frame, resize or upload begins beyond this fence_value
    MaxFaults,    \* bound: waits for an upload that fail
    MaxClears     \* bound: calls of clear() on the caches

Kinds == {"Shader", "Mesh", "Cloud", "Texture", "Pipeline", "Context"}
Resources == {"Mesh", "Cloud", "Texture"}
ShownBy(i) == {j \in Needs[i] : KindOf[j] \in Resources}

ASSUME DeviceAssumption ==
    /\ Items \cap {"frame", "resize", "destroy"} = {}
    /\ KindOf \in [Items -> Kinds]
    /\ Needs \in [Items -> SUBSET Items]
    /\ \A i \in Items : \A j1, j2 \in ShownBy(i) : j1 = j2
    /\ SrvCapacity \in Nat /\ MaxFence \in Nat \ {0} /\ MaxFaults \in Nat /\ MaxClears \in Nat

VARIABLES
    tables,      \* per kind the slots after the sentinel: the item each holds
    srvs,        \* scalar_field_srv_count
    cache,       \* item -> id of the handle remembered for it, 0 if none: by the
                 \* asset library, a cache, or the pointer to the only context
    shown,       \* item -> ids of the handles a context was made with: one or none
    fence,       \* fence_value
    index,       \* the swapchain's current backbuffer
    generation,  \* of the backbuffers, one more with each ResizeBuffers()
    pc,          \* where the thread is: "idle" between calls, "gone" at the end
    task,        \* what it does: "frame", "resize", "destroy" or the item it makes
    hand,        \* number of objects made for the task, which no slot owns yet
    list,        \* the command list: is it recording, and what does it use?
    live,        \* objects that exist
    queue,       \* the GPU's queue: batches, presents and signals
    completed,   \* GetCompletedValue()
    armed,       \* the value that will set fence_event, 0 if none
    event        \* fence_event, which waking from it resets

(* History and bounds. *)
VARIABLES
    missed,      \* the fence_value of the last wait that failed, 0 if none
    faults, clears

handles == <<tables, srvs, cache, shown>>
swap == <<index, generation>>
gpu == <<queue, completed, armed, event>>
history == <<missed, faults, clears>>
vars == <<handles, fence, swap, pc, task, hand, list, live, gpu, history>>

Closed == [open |-> FALSE, uses |-> {}]
Recording(os) == [open |-> TRUE, uses |-> os]
Batch(os) == [op |-> "batch", uses |-> os, value |-> 0]
Shown(o) == [op |-> "present", uses |-> {o}, value |-> 0]
Signal(v) == [op |-> "signal", uses |-> {}, value |-> v]

\* The number of objects of one item, made in this order: a shader's blob, a
\* mesh's vertex and index buffer, a cloud's buffer, a texture and the buffer
\* it is copied from, a root signature and a pipeline state.
PartCount(k) == IF k \in {"Shader", "Cloud"} THEN 1 ELSE 2
Parts(k, id, ps) == {<<k, id, p>> : p \in ps}

\* What a slot owns; the buffer a texture was copied from is not kept.
Owned(k, id) == Parts(k, id, 1..(IF k = "Texture" THEN 1 ELSE PartCount(k)))
InTables == UNION {UNION {Owned(k, id) : id \in DOMAIN tables[k]} : k \in Kinds}
Backbuffers(g) == Parts("Backbuffer", g, {0, 1})

\* Objects made for the task: the slot they are for is the next of its table.
FromZero(k) == Len(tables[k])
NextId(k) == Len(tables[k]) + 1
InHand == IF task \in Items THEN Parts(KindOf[task], NextId(KindOf[task]), 1..hand) ELSE {}
Complete == hand = PartCount(KindOf[task])

-----------------------------------------------------------------------------
\* create_device(); the scene's program asserts that it succeeds.
Init ==
    /\ tables = [k \in Kinds |-> <<>>]
    /\ srvs = 0
    /\ cache = [i \in Items |-> 0]
    /\ shown = [i \in Items |-> {}]
    /\ fence = 1
    /\ index = 0 /\ generation = 0
    /\ pc = "idle" /\ task = "frame"
    /\ hand = 0
    /\ list = Closed
    /\ live = Backbuffers(0)
    /\ queue = <<>> /\ completed = 0 /\ armed = 0 /\ event = FALSE
    /\ missed = 0 /\ faults = 0 /\ clears = 0

(***************************************************************************)
(* Making an item.  What a cache remembers is not made again; a texture    *)
(* needs a free descriptor; a pipeline the handles of both its shaders; a  *)
(* context those of its shaders and of the resource it shows, and its      *)
(* creation asserts that there is none of its kind.                        *)
(***************************************************************************)
DescriptorFree == srvs < SrvCapacity

Realize(i) ==
    /\ pc = "idle"
    /\ cache[i] = 0
    /\ \A j \in Needs[i] : cache[j] # 0
    /\ KindOf[i] = "Texture" => DescriptorFree /\ fence < MaxFence
    /\ pc' = "make" /\ task' = i
    /\ UNCHANGED <<handles, fence, swap, hand, list, live, gpu, history>>

CreateObject ==
    /\ pc = "make" /\ ~Complete
    /\ live' = live \union Parts(KindOf[task], NextId(KindOf[task]), {hand + 1})
    /\ hand' = hand + 1
    /\ UNCHANGED <<handles, fence, swap, pc, task, list, gpu, history>>

\* Releasing what was made.
Leaked == live
Released == live \ InHand

\* The next object, or the map, reset or close before a copy, fails: what was
\* made is released.  The creation of a context asserts success.
CreateFails ==
    /\ pc = "make" /\ KindOf[task] # "Context"
    /\ ~Complete \/ KindOf[task] = "Texture"
    /\ live' = Released
    /\ hand' = 0
    /\ pc' = "idle"
    /\ UNCHANGED <<handles, fence, swap, task, list, gpu, history>>

\* The slot takes the objects over, and whoever asked remembers the handle.
Remembered(k) == [cache EXCEPT ![task] = NextId(k)]

Stored ==
    LET k == KindOf[task] IN
    /\ tables' = [tables EXCEPT ![k] = Append(@, task)]
    /\ cache' = Remembered(k)
    /\ shown' = IF k = "Context" THEN [shown EXCEPT ![task] = {cache[j] : j \in ShownBy(task)}] ELSE shown
    /\ hand' = 0

Store ==
    /\ pc = "make" /\ Complete /\ KindOf[task] # "Texture"
    /\ Stored
    /\ pc' = "idle"
    /\ UNCHANGED <<srvs, fence, swap, task, list, live, gpu, history>>

\* upload_scalar_field_texture_dx12() resets the one allocator and records.
RecordCopy ==
    /\ pc = "make" /\ Complete /\ KindOf[task] = "Texture"
    /\ list' = Recording(InHand)
    /\ pc' = "record"
    /\ UNCHANGED <<handles, fence, swap, task, hand, live, gpu, history>>

ClearResources ==
    /\ pc = "idle" /\ clears < MaxClears
    /\ cache' = [i \in Items |-> IF KindOf[i] \in Resources THEN 0 ELSE cache[i]]
    /\ clears' = clears + 1
    /\ UNCHANGED <<tables, srvs, shown, fence, swap, pc, task, hand, list, live, gpu, missed, faults>>

ClearPipelines ==
    /\ pc = "idle" /\ clears < MaxClears
    /\ cache' = [i \in Items |-> IF KindOf[i] = "Pipeline" THEN 0 ELSE cache[i]]
    /\ clears' = clears + 1
    /\ UNCHANGED <<tables, srvs, shown, fence, swap, pc, task, hand, list, live, gpu, missed, faults>>

-----------------------------------------------------------------------------
\* A frame: begin_frame() resets the one allocator and the list.
BeginFrame ==
    /\ pc = "idle" /\ fence < MaxFence
    /\ list' = Recording(Parts("Backbuffer", generation, {index}))
    /\ pc' = "record" /\ task' = "frame"
    /\ UNCHANGED <<handles, fence, swap, hand, live, gpu, history>>

Draw(os) ==
    /\ pc = "record" /\ task = "frame"
    /\ ~(os \subseteq list.uses)
    /\ list' = Recording(list.uses \union os)
    /\ UNCHANGED <<handles, fence, swap, pc, task, hand, live, gpu, history>>

\* A command of the frame, whose handle the resolver was given at any time,
\* with the pipeline that the cache has for its program, or with a context's.
DrawResolved ==
    \E k \in {"Mesh", "Cloud"}, p \in Items :
        /\ KindOf[p] \in {"Pipeline", "Context"} /\ cache[p] # 0
        /\ \E id \in DOMAIN tables[k] : Draw(Owned(k, id) \union Owned(KindOf[p], cache[p]))

\* A context draws the resource that it was created with.
DrawContext(c) ==
    /\ KindOf[c] = "Context" /\ cache[c] # 0
    /\ Draw(Owned("Context", cache[c]) \union
            UNION {Owned(KindOf[j], id) : j \in ShownBy(c), id \in shown[c]})

\* Present() on the swapchain, after end_frame().
Present ==
    /\ pc = "present"
    /\ queue' = Append(queue, Shown(<<"Backbuffer", generation, index>>))
    /\ index' = 1 - index
    /\ pc' = "idle"
    /\ UNCHANGED <<handles, fence, generation, task, hand, list, live, completed, armed, event, history>>

\* resize() and destroy_device() begin by waiting for the GPU.  The program
\* has dropped its asset library, with the shaders' handles, before the device.
ResizeAtOnce == "finish"
ResizeWaits == "signal"

StartResize ==
    /\ pc = "idle" /\ fence < MaxFence
    /\ pc' = ResizeWaits /\ task' = "resize"
    /\ UNCHANGED <<handles, fence, swap, hand, list, live, gpu, history>>

StartDestroy ==
    /\ pc = "idle"
    /\ cache' = [i \in Items |-> IF KindOf[i] = "Shader" THEN 0 ELSE cache[i]]
    /\ pc' = "signal" /\ task' = "destroy"
    /\ UNCHANGED <<tables, srvs, shown, fence, swap, hand, list, live, gpu, history>>

-----------------------------------------------------------------------------
(***************************************************************************)
(* Waiting for the GPU: end_frame(), wait_for_gpu(), wait_for_gpu_upload().*)
(***************************************************************************)
Execute ==
    /\ pc = "record"
    /\ queue' = Append(queue, Batch(list.uses))
    /\ list' = Closed
    /\ pc' = "signal"
    /\ UNCHANGED <<handles, fence, swap, task, hand, live, completed, armed, event, history>>

LastValue == fence - 1
ValueAfter == fence + 1
SignalValue == fence

SignalFence ==
    /\ pc = "signal"
    /\ queue' = Append(queue, Signal(SignalValue))
    /\ pc' = "test"
    /\ UNCHANGED <<handles, fence, swap, task, hand, list, live, completed, armed, event, history>>

Passed == completed >= fence

TestFence ==
    /\ pc = "test"
    /\ pc' = IF Passed THEN "finish" ELSE "arm"
    /\ UNCHANGED <<handles, fence, swap, task, hand, list, live, gpu, history>>

\* SetEventOnCompletion() sets the event at once if the value was reached.
Arm ==
    /\ pc = "arm"
    /\ pc' = "sleep"
    /\ IF completed < fence
       THEN armed' = fence /\ event' = event
       ELSE event' = TRUE /\ armed' = armed
    /\ UNCHANGED <<handles, fence, swap, task, hand, list, live, queue, completed, history>>

Wake ==
    /\ pc = "sleep" /\ event
    /\ event' = FALSE
    /\ pc' = "finish"
    /\ UNCHANGED <<handles, fence, swap, task, hand, list, live, queue, completed, armed, history>>

\* Only the wait for an upload can fail, at Signal() or SetEventOnCompletion().
\* The upload's objects are released and fence_value stays.
WaitFails ==
    /\ pc \in {"signal", "arm"} /\ task \in Items /\ faults < MaxFaults
    /\ live' = Released
    /\ hand' = 0
    /\ pc' = "idle"
    /\ missed' = fence /\ faults' = faults + 1
    /\ UNCHANGED <<handles, fence, swap, task, list, gpu, clears>>

FinishFrame ==
    /\ pc = "finish" /\ task = "frame"
    /\ fence' = fence + 1
    /\ pc' = "present"
    /\ UNCHANGED <<handles, swap, task, hand, list, live, gpu, history>>

FinishUpload ==
    /\ pc = "finish" /\ task \in Items
    /\ fence' = fence + 1
    /\ live' = live \ Parts("Texture", NextId("Texture"), {2})
    /\ srvs' = srvs + 1
    /\ Stored
    /\ pc' = "idle"
    /\ UNCHANGED <<swap, task, list, gpu, history>>

FinishResize ==
    /\ pc = "finish" /\ task = "resize"
    /\ fence' = fence + 1
    /\ live' = (live \ Backbuffers(generation)) \union Backbuffers(generation + 1)
    /\ generation' = generation + 1 /\ index' = 0
    /\ pc' = "idle"
    /\ UNCHANGED <<handles, task, hand, list, gpu, history>>

FinishDestroy ==
    /\ pc = "finish" /\ task = "destroy"
    /\ fence' = fence + 1
    /\ live' = live \ (InTables \union Backbuffers(generation))
    /\ tables' = [k \in Kinds |-> <<>>]
    /\ pc' = "gone"
    /\ UNCHANGED <<srvs, cache, shown, swap, task, hand, list, gpu, history>>

-----------------------------------------------------------------------------
\* The GPU finishes what is first in its queue.
GpuStep ==
    /\ queue # <<>>
    /\ queue' = Tail(queue)
    /\ IF Head(queue).op = "signal"
       THEN /\ completed' = Head(queue).value
            /\ IF armed # 0 /\ armed <= Head(queue).value
               THEN event' = TRUE /\ armed' = 0
               ELSE UNCHANGED <<event, armed>>
       ELSE UNCHANGED <<completed, event, armed>>
    /\ UNCHANGED <<handles, fence, swap, pc, task, hand, list, live, history>>

Request ==
    \/ \E i \in Items : Realize(i)
    \/ ClearResources \/ ClearPipelines
    \/ BeginFrame \/ StartResize \/ StartDestroy

Proceed ==
    \/ CreateObject \/ CreateFails \/ Store \/ RecordCopy
    \/ Execute \/ SignalFence \/ TestFence \/ Arm \/ Wake \/ WaitFails
    \/ FinishFrame \/ Present \/ FinishUpload \/ FinishResize \/ FinishDestroy

Draws == DrawResolved \/ \E c \in Items : DrawContext(c)

Next == Request \/ Proceed \/ Draws \/ GpuStep

Spec == Init /\ [][Next]_vars

\* The thread goes on with a call it has begun, and the GPU with its queue.
FairSpec == Spec /\ WF_vars(Proceed) /\ WF_vars(GpuStep)

-----------------------------------------------------------------------------
Places == {"idle", "make", "record", "signal", "test", "arm", "sleep", "finish", "present", "gone"}

TypeOK ==
    /\ tables \in [Kinds -> Seq(Items)] /\ srvs \in Nat
    /\ \A k \in Kinds : \A id \in DOMAIN tables[k] : KindOf[tables[k][id]] = k
    /\ cache \in [Items -> Nat] /\ shown \in [Items -> SUBSET Nat]
    /\ fence \in 1..MaxFence + 1 /\ index \in {0, 1} /\ generation \in Nat
    /\ pc \in Places /\ task \in Items \union {"frame", "resize", "destroy"}
    /\ hand \in 0..2 /\ list.open \in BOOLEAN
    /\ completed \in 0..fence /\ armed \in 0..fence /\ event \in BOOLEAN
    /\ missed \in 0..MaxFence /\ faults \in 0..MaxFaults /\ clears \in 0..MaxClears

\* A failed wait for an upload leaves a batch that nobody has waited for; the
\* value is signalled twice then, so that only the second wait makes up for it.
MadeGood == missed = 0 \/ fence > missed + 1

\* What the GPU has still to do uses only objects that exist: no upload, resize
\* or destruction releases what a batch or a present in the queue refers to,
\* unless a wait for an upload failed one or two signals ago.
UsedAreLive ==
    MadeGood => \A n \in DOMAIN queue : queue[n].uses \subseteq live

\* The one allocator is reset only when no batch recorded from it is queued:
\* begin_frame() and upload_scalar_field_texture_dx12() rely on the waits of
\* whoever came before.
AllocatorIdle ==
    MadeGood /\ list.open => \A n \in DOMAIN queue : queue[n].op # "batch"

\* Nothing that the queued work refers to, object or allocator, is released or
\* reset under it (dx12_device.cpp:285, 562).
QueuedAreSafe == UsedAreLive /\ AllocatorIdle

\* Every object has exactly one owner and no other object exists, also after
\* any creation, upload or wait has failed halfway; after destroy_device()
\* none exists.  A descriptor belongs to each texture, and they fit the heap.
ObjectsOwned ==
    /\ live = InTables \union InHand \union (IF pc = "gone" THEN {} ELSE Backbuffers(generation))
    /\ pc # "gone" => srvs = Len(tables["Texture"]) /\ srvs <= SrvCapacity

\* Does the slot hold the item?
Holds(i, id) == id \in DOMAIN tables[KindOf[i]] /\ tables[KindOf[i]][id] = i

\* As long as the device exists, a remembered handle names the slot of the item
\* it is remembered for, and a context's handle that of the resource it shows,
\* even if the cache has forgotten that handle or made the resource again.
HandlesTruthful ==
    pc # "gone" =>
        \A i \in Items :
            /\ cache[i] # 0 => Holds(i, cache[i])
            /\ \A j \in ShownBy(i), id \in shown[i] : Holds(j, id)

\* Every call returns: the fence is signalled after the event is armed or has
\* been reached before, so the thread never sleeps forever.
CallsEnd == pc # "idle" ~> pc \in {"idle", "gone"}
=============================================================================
