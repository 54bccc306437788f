-------------------------- MODULE GpuDeviceProofs ---------------------------
(***************************************************************************)
(* For any assets, shaders and contexts, any number of frames, resizes and *)
(* failed waits: the device releases nothing that the GPU still uses, no   *)
(* object has two owners or none, and no cache names a slot of another     *)
(* item.                                                                   *)
(***************************************************************************)
EXTENDS GpuDevice, SequenceTheorems, TLAPS

Awaiting == {"test", "arm", "sleep", "finish"}
Waiting == {"signal"} \cup Awaiting

\* Objects are in hand only while an item is made, and an upload that records
\* or waits has all of its objects.
HandInv ==
    /\ hand # 0 => task \in Items /\ pc \in {"make", "record"} \cup Waiting
    /\ task \in Items => hand <= PartCount(KindOf[task])
    /\ pc \in {"record"} \cup Waiting /\ task \in Items => KindOf[task] = "Texture" /\ hand = 2

\* What the thread can be doing at each place.
TaskInv ==
    /\ pc = "make" => task \in Items /\ \A j \in Needs[task] : cache[j] # 0
    /\ pc \in {"record"} \cup Waiting /\ task \in Items => \A j \in Needs[task] : cache[j] # 0
    /\ pc = "record" => task \in Items \cup {"frame"}
    /\ pc = "present" => task = "frame"
    /\ pc = "gone" => task = "destroy"

\* A call that will signal begins below the bound, and an upload has its
\* descriptor.
RoomInv ==
    /\ pc # "gone" => fence <= MaxFence
    /\ pc \in {"make", "record"} \cup Waiting /\ (task \in Items => KindOf[task] = "Texture")
           => fence < MaxFence \/ task = "destroy"
    /\ pc \in {"make", "record"} \cup Waiting /\ task \in Items
           => (KindOf[task] = "Texture" => srvs < SrvCapacity)

\* The event is armed or set only while the thread sleeps on it.
EventInv ==
    /\ pc # "sleep" => event = FALSE /\ armed = 0
    /\ pc = "sleep" => \/ event = FALSE /\ armed = fence
                       \/ event = TRUE /\ armed = 0

Objects == (Kinds \cup {"Backbuffer"}) \X Nat \X (0..2)
Entry == [op : {"batch", "present", "signal"}, uses : SUBSET Objects, value : Nat]
IsSignal(n) == queue[n].op = "signal"

\* The command list and the GPU's queue refer to objects, and no signal passes
\* fence_value.
QueueTyped ==
    /\ list \in [open : BOOLEAN, uses : SUBSET Objects]
    /\ queue \in Seq(Entry)
    /\ \A n \in DOMAIN queue : IsSignal(n) => queue[n].value \in 1..fence

ListInv ==
    /\ pc = "record" => list = Recording(list.uses) /\ list.uses \subseteq live
    /\ pc # "record" => list = Closed

\* The conjuncts of TypeOK, by what their variables are about.
TablesTyped ==
    /\ tables \in [Kinds -> Seq(Items)]
    /\ \A k \in Kinds : \A id \in DOMAIN tables[k] : KindOf[tables[k][id]] = k
CachesTyped == cache \in [Items -> Nat] /\ shown \in [Items -> SUBSET Nat]
ThreadTyped ==
    /\ pc \in Places /\ task \in Items \union {"frame", "resize", "destroy"}
    /\ srvs \in Nat /\ hand \in 0..2 /\ index \in {0, 1} /\ generation \in Nat
FenceTyped ==
    /\ fence \in 1..MaxFence + 1 /\ completed \in 0..fence /\ armed \in 0..fence
    /\ event \in BOOLEAN /\ list.open \in BOOLEAN
    /\ missed \in 0..MaxFence /\ faults \in 0..MaxFaults /\ clears \in 0..MaxClears

ControlInv == TypeOK /\ HandInv /\ TaskInv /\ RoomInv /\ EventInv /\ QueueTyped
OwnerInv == ObjectsOwned /\ HandlesTruthful /\ ListInv

\* Unless a wait failed at this very value, the value is in the queue once,
\* and last, from SignalFence until the GPU has reached it, and nothing is
\* left in the queue then.
FlushInv ==
    fence # missed =>
        /\ pc \notin Awaiting =>
               /\ completed < fence
               /\ \A n \in DOMAIN queue : IsSignal(n) => queue[n].value < fence
        /\ pc \in Awaiting =>
               \/ completed = fence /\ queue = <<>>
               \/ /\ completed < fence
                  /\ queue # <<>> /\ queue[Len(queue)] = Signal(fence)
                  /\ \A n \in 1..Len(queue) - 1 : IsSignal(n) => queue[n].value < fence
        /\ pc = "finish" \/ event => completed = fence

\* Between the waits only presents of the present backbuffers are queued.
RestInv ==
    MadeGood =>
        /\ pc \in {"idle", "make", "record"} =>
               \A n \in DOMAIN queue : queue[n].op # "batch" /\ queue[n].uses \subseteq Backbuffers(generation)
        /\ pc \in {"present", "gone"} => queue = <<>>

SafeInv == missed <= fence /\ FlushInv /\ RestInv /\ UsedAreLive


-----------------------------------------------------------------------------
(* Objects and sequences *)

USE DeviceAssumption DEF DeviceAssumption, handles, swap, gpu, history, vars

LEMMA PartsAreObjects ==
    ASSUME NEW k \in Kinds \cup {"Backbuffer"}, NEW id \in Nat, NEW ps \in SUBSET (0..2)
    PROVE  Parts(k, id, ps) \subseteq Objects
BY DEF Parts, Objects

LEMMA OwnedAreObjects ==
    ASSUME NEW k \in Kinds, NEW id \in Nat
    PROVE  Owned(k, id) \subseteq Objects
<1>1. 1..(IF k = "Texture" THEN 1 ELSE PartCount(k)) \subseteq 0..2  BY DEF PartCount
<1> QED  BY <1>1, PartsAreObjects DEF Owned

\* One more entry at the end of the queue, one less at its head.
LEMMA QueueGrows ==
    ASSUME queue \in Seq(Entry), NEW e \in Entry, queue' = Append(queue, e)
    PROVE  /\ queue' \in Seq(Entry) /\ queue' # <<>>
           /\ Len(queue) \in Nat /\ DOMAIN queue = 1..Len(queue)
           /\ Len(queue') = Len(queue) + 1 /\ DOMAIN queue' = 1..Len(queue) + 1
           /\ \A n \in 1..Len(queue) : queue'[n] = queue[n]
           /\ queue'[Len(queue) + 1] = e
BY AppendProperties, LenProperties

LEMMA QueueShrinks ==
    ASSUME queue \in Seq(Entry), queue # <<>>, queue' = Tail(queue)
    PROVE  /\ queue' \in Seq(Entry) /\ Head(queue) = queue[1] /\ Head(queue) \in Entry
           /\ Len(queue) \in Nat \ {0} /\ DOMAIN queue = 1..Len(queue)
           /\ Len(queue') = Len(queue) - 1 /\ DOMAIN queue' = 1..Len(queue) - 1
           /\ \A n \in 1..Len(queue) - 1 : queue'[n] = queue[n + 1]
           /\ Len(queue) = 1 => queue' = <<>>
BY HeadTailProperties, LenProperties, EmptySeq

LEMMA TableGrows ==
    ASSUME TypeOK, NEW k \in Kinds, NEW i \in Items, KindOf[i] = k,
           tables' = [tables EXCEPT ![k] = Append(@, i)]
    PROVE  /\ tables' \in [Kinds -> Seq(Items)]
           /\ Len(tables[k]) \in Nat /\ NextId(k) \in Nat /\ NextId(k) # 0
           /\ NextId(k) \notin DOMAIN tables[k]
           /\ \A l \in Kinds \ {k} : tables'[l] = tables[l]
           /\ DOMAIN tables'[k] = DOMAIN tables[k] \cup {NextId(k)}
           /\ \A id \in DOMAIN tables[k] : tables'[k][id] = tables[k][id]
           /\ tables'[k][NextId(k)] = i
           /\ \A l \in Kinds : \A id \in DOMAIN tables'[l] : KindOf[tables'[l][id]] = l
<1>1. tables[k] \in Seq(Items)  BY DEF TypeOK
<1>2. tables'[k] = Append(tables[k], i)  BY DEF TypeOK
<1>3. \A l \in Kinds \ {k} : tables'[l] = tables[l]  BY DEF TypeOK
<1>4. /\ Append(tables[k], i) \in Seq(Items)
      /\ Len(tables[k]) \in Nat /\ DOMAIN tables[k] = 1..Len(tables[k])
      /\ DOMAIN Append(tables[k], i) = 1..Len(tables[k]) + 1
      /\ \A n \in 1..Len(tables[k]) : Append(tables[k], i)[n] = tables[k][n]
      /\ Append(tables[k], i)[Len(tables[k]) + 1] = i
  BY <1>1, AppendProperties, LenProperties
<1>5. tables' \in [Kinds -> Seq(Items)]  BY <1>4 DEF TypeOK
<1>6. /\ DOMAIN tables'[k] = DOMAIN tables[k] \cup {NextId(k)}
      /\ \A id \in DOMAIN tables[k] : tables'[k][id] = tables[k][id]
      /\ tables'[k][NextId(k)] = i
      /\ NextId(k) \notin DOMAIN tables[k]
  BY <1>2, <1>4 DEF NextId
<1>7. \A l \in Kinds : \A id \in DOMAIN tables'[l] : KindOf[tables'[l][id]] = l
  BY <1>3, <1>6 DEF TypeOK
<1> QED  BY <1>3, <1>4, <1>5, <1>6, <1>7 DEF NextId

-----------------------------------------------------------------------------
(* The thread, the fence and the queue *)

LEMMA TypeParts == TypeOK <=> TablesTyped /\ CachesTyped /\ ThreadTyped /\ FenceTyped
BY DEF TypeOK, TablesTyped, CachesTyped, ThreadTyped, FenceTyped

LEMMA ControlInit == Init => ControlInv
<1>1. SUFFICES ASSUME Init PROVE ControlInv  OBVIOUS
<1>2. queue \in Seq(Entry)  BY <1>1, EmptySeq DEF Init
<1>3. tables \in [Kinds -> Seq(Items)] /\ \A k \in Kinds : DOMAIN tables[k] = {}
  BY <1>1, EmptySeq DEF Init
<1>4. TypeOK
  <2>1. TablesTyped  BY <1>3 DEF TablesTyped
  <2>2. CachesTyped  BY <1>1 DEF Init, CachesTyped
  <2>3. ThreadTyped  BY <1>1 DEF Init, ThreadTyped, Places
  <2>4. FenceTyped
    <3>1. list.open \in BOOLEAN /\ event \in BOOLEAN  BY <1>1 DEF Init, Closed
    <3> QED  BY <1>1, <3>1 DEF Init, FenceTyped
  <2> QED  BY <2>1, <2>2, <2>3, <2>4, TypeParts
<1>5. QueueTyped  BY <1>1, <1>2 DEF Init, QueueTyped, Closed
<1> QED  BY <1>1, <1>4, <1>5
    DEF Init, ControlInv, HandInv, TaskInv, RoomInv, EventInv, Waiting, Awaiting, PartCount

\* What has its type stays of its type, and the thread, its task and what it
\* holds agree, at each step.
LEMMA ControlStep ==
    ASSUME ControlInv, Next
    PROVE  ControlInv'
<1> USE DEF ControlInv
<1>a. TablesTyped /\ CachesTyped /\ ThreadTyped /\ FenceTyped  BY TypeParts
<1>b. ASSUME TablesTyped', CachesTyped', ThreadTyped', FenceTyped'
      PROVE  TypeOK'
  BY <1>b DEF TypeOK, TablesTyped, CachesTyped, ThreadTyped, FenceTyped
<1>1. ASSUME NEW i \in Items, Realize(i)
      PROVE  ControlInv'
  <2>2. TablesTyped' /\ CachesTyped'
    BY <1>1, <1>a DEF Realize, DescriptorFree, TablesTyped, CachesTyped
  <2>4. ThreadTyped' /\ HandInv' /\ TaskInv' /\ RoomInv'
    BY <1>1, <1>a DEF Realize, DescriptorFree, ThreadTyped, FenceTyped, HandInv, TaskInv, RoomInv, Places, PartCount, Waiting, Awaiting
  <2>5. FenceTyped' /\ EventInv'
    BY <1>1, <1>a DEF Realize, DescriptorFree, FenceTyped, EventInv, RoomInv, Waiting, Awaiting
  <2>6. QueueTyped'
    BY <1>1, <1>a DEF Realize, DescriptorFree, QueueTyped, FenceTyped, IsSignal
  <2> QED  BY <1>b, <2>2, <2>4, <2>5, <2>6
<1>2. ASSUME ClearResources
      PROVE  ControlInv'
  <2>2. TablesTyped' /\ CachesTyped'
    BY <1>2, <1>a DEF ClearResources, TablesTyped, CachesTyped
  <2>4. ThreadTyped' /\ HandInv' /\ TaskInv' /\ RoomInv'
    BY <1>2, <1>a DEF ClearResources, ThreadTyped, FenceTyped, HandInv, TaskInv, RoomInv, Places, PartCount, Waiting, Awaiting
  <2>5. FenceTyped' /\ EventInv'
    BY <1>2, <1>a DEF ClearResources, FenceTyped, EventInv, RoomInv, Waiting, Awaiting
  <2>6. QueueTyped'
    BY <1>2, <1>a DEF ClearResources, QueueTyped, FenceTyped, IsSignal
  <2> QED  BY <1>b, <2>2, <2>4, <2>5, <2>6
<1>3. ASSUME ClearPipelines
      PROVE  ControlInv'
  <2>2. TablesTyped' /\ CachesTyped'
    BY <1>3, <1>a DEF ClearPipelines, TablesTyped, CachesTyped
  <2>4. ThreadTyped' /\ HandInv' /\ TaskInv' /\ RoomInv'
    BY <1>3, <1>a DEF ClearPipelines, ThreadTyped, FenceTyped, HandInv, TaskInv, RoomInv, Places, PartCount, Waiting, Awaiting
  <2>5. FenceTyped' /\ EventInv'
    BY <1>3, <1>a DEF ClearPipelines, FenceTyped, EventInv, RoomInv, Waiting, Awaiting
  <2>6. QueueTyped'
    BY <1>3, <1>a DEF ClearPipelines, QueueTyped, FenceTyped, IsSignal
  <2> QED  BY <1>b, <2>2, <2>4, <2>5, <2>6
<1>4. ASSUME BeginFrame
      PROVE  ControlInv'
  <2>0. Parts("Backbuffer", generation, {index}) \in SUBSET Objects
    BY <1>a, PartsAreObjects DEF ThreadTyped
  <2>2. TablesTyped' /\ CachesTyped'
    BY <1>4, <1>a DEF BeginFrame, Recording, TablesTyped, CachesTyped
  <2>4. ThreadTyped' /\ HandInv' /\ TaskInv' /\ RoomInv'
    BY <1>4, <1>a DEF BeginFrame, Recording, ThreadTyped, FenceTyped, HandInv, TaskInv, RoomInv, Places, PartCount, Waiting, Awaiting
  <2>5. FenceTyped' /\ EventInv'
    BY <1>4, <1>a, <2>0 DEF BeginFrame, Recording, FenceTyped, EventInv, RoomInv, Waiting, Awaiting
  <2>6. QueueTyped'
    BY <1>4, <1>a, <2>0 DEF BeginFrame, Recording, QueueTyped, FenceTyped, IsSignal
  <2> QED  BY <1>b, <2>2, <2>4, <2>5, <2>6
<1>5. ASSUME StartResize
      PROVE  ControlInv'
  <2>2. TablesTyped' /\ CachesTyped'
    BY <1>5, <1>a DEF StartResize, ResizeWaits, TablesTyped, CachesTyped
  <2>4. ThreadTyped' /\ HandInv' /\ TaskInv' /\ RoomInv'
    BY <1>5, <1>a DEF StartResize, ResizeWaits, ThreadTyped, FenceTyped, HandInv, TaskInv, RoomInv, Places, PartCount, Waiting, Awaiting
  <2>5. FenceTyped' /\ EventInv'
    BY <1>5, <1>a DEF StartResize, ResizeWaits, FenceTyped, EventInv, RoomInv, Waiting, Awaiting
  <2>6. QueueTyped'
    BY <1>5, <1>a DEF StartResize, ResizeWaits, QueueTyped, FenceTyped, IsSignal
  <2> QED  BY <1>b, <2>2, <2>4, <2>5, <2>6
<1>6. ASSUME StartDestroy
      PROVE  ControlInv'
  <2>2. TablesTyped' /\ CachesTyped'
    BY <1>6, <1>a DEF StartDestroy, TablesTyped, CachesTyped
  <2>4. ThreadTyped' /\ HandInv' /\ TaskInv' /\ RoomInv'
    BY <1>6, <1>a DEF StartDestroy, ThreadTyped, FenceTyped, HandInv, TaskInv, RoomInv, Places, PartCount, Waiting, Awaiting
  <2>5. FenceTyped' /\ EventInv'
    BY <1>6, <1>a DEF StartDestroy, FenceTyped, EventInv, RoomInv, Waiting, Awaiting
  <2>6. QueueTyped'
    BY <1>6, <1>a DEF StartDestroy, QueueTyped, FenceTyped, IsSignal
  <2> QED  BY <1>b, <2>2, <2>4, <2>5, <2>6
<1>7. ASSUME CreateObject
      PROVE  ControlInv'
  <2>2. TablesTyped' /\ CachesTyped'
    BY <1>7, <1>a DEF CreateObject, Complete, TablesTyped, CachesTyped
  <2>4. ThreadTyped' /\ HandInv' /\ TaskInv' /\ RoomInv'
    BY <1>7, <1>a DEF CreateObject, Complete, ThreadTyped, FenceTyped, HandInv, TaskInv, RoomInv, Places, PartCount, Waiting, Awaiting
  <2>5. FenceTyped' /\ EventInv'
    BY <1>7, <1>a DEF CreateObject, Complete, FenceTyped, EventInv, RoomInv, Waiting, Awaiting
  <2>6. QueueTyped'
    BY <1>7, <1>a DEF CreateObject, Complete, QueueTyped, FenceTyped, IsSignal
  <2> QED  BY <1>b, <2>2, <2>4, <2>5, <2>6
<1>8. ASSUME CreateFails
      PROVE  ControlInv'
  <2>2. TablesTyped' /\ CachesTyped'
    BY <1>8, <1>a DEF CreateFails, Complete, TablesTyped, CachesTyped
  <2>4. ThreadTyped' /\ HandInv' /\ TaskInv' /\ RoomInv'
    BY <1>8, <1>a DEF CreateFails, Complete, ThreadTyped, FenceTyped, HandInv, TaskInv, RoomInv, Places, PartCount, Waiting, Awaiting
  <2>5. FenceTyped' /\ EventInv'
    BY <1>8, <1>a DEF CreateFails, Complete, FenceTyped, EventInv, RoomInv, Waiting, Awaiting
  <2>6. QueueTyped'
    BY <1>8, <1>a DEF CreateFails, Complete, QueueTyped, FenceTyped, IsSignal
  <2> QED  BY <1>b, <2>2, <2>4, <2>5, <2>6
<1>9. ASSUME Store
      PROVE  ControlInv'
  <2>0. task \in Items /\ KindOf[task] \in Kinds
    BY <1>9, <1>a DEF Store, TaskInv
  <2>1. tables' = [tables EXCEPT ![KindOf[task]] = Append(@, task)]
    BY <1>9 DEF Store, Stored
  <2>2. TablesTyped' /\ NextId(KindOf[task]) \in Nat \ {0}
    BY <2>0, <2>1, TableGrows DEF TablesTyped
  <2>3. CachesTyped'
    <3>1. cache' = [cache EXCEPT ![task] = NextId(KindOf[task])]
      BY <1>9 DEF Store, Stored, Remembered
    <3>2. \/ shown' = shown
          \/ shown' = [shown EXCEPT ![task] = {cache[j] : j \in ShownBy(task)}]
      BY <1>9 DEF Store, Stored
    <3>3. ShownBy(task) \subseteq Items
      BY <2>0 DEF ShownBy
    <3> QED  BY <1>a, <2>0, <2>2, <3>1, <3>2, <3>3 DEF CachesTyped
  <2>4. ThreadTyped' /\ HandInv' /\ TaskInv' /\ RoomInv'
    BY <1>9, <1>a DEF Store, Complete, Stored, ThreadTyped, FenceTyped, HandInv, TaskInv, RoomInv, Places, PartCount, Waiting, Awaiting
  <2>5. FenceTyped' /\ EventInv'
    BY <1>9, <1>a DEF Store, Complete, Stored, FenceTyped, EventInv, RoomInv, Waiting, Awaiting
  <2>6. QueueTyped'
    BY <1>9, <1>a DEF Store, Complete, Stored, QueueTyped, FenceTyped, IsSignal
  <2> QED  BY <1>b, <2>2, <2>3, <2>4, <2>5, <2>6
<1>10. ASSUME RecordCopy
      PROVE  ControlInv'
  <2>0. InHand \in SUBSET Objects
    <3>1. /\ KindOf[task] \in Kinds /\ NextId(KindOf[task]) \in Nat /\ 1..hand \in SUBSET (0..2) /\ task \in Items
      BY <1>10, <1>a DEF RecordCopy, TaskInv, ThreadTyped, TablesTyped, NextId
    <3> QED  BY <3>1, PartsAreObjects DEF InHand
  <2>2. TablesTyped' /\ CachesTyped'
    BY <1>10, <1>a DEF RecordCopy, Complete, Recording, TablesTyped, CachesTyped
  <2>4. ThreadTyped' /\ HandInv' /\ TaskInv' /\ RoomInv'
    BY <1>10, <1>a DEF RecordCopy, Complete, Recording, ThreadTyped, FenceTyped, HandInv, TaskInv, RoomInv, Places, PartCount, Waiting, Awaiting
  <2>5. FenceTyped' /\ EventInv'
    BY <1>10, <1>a, <2>0 DEF RecordCopy, Complete, Recording, FenceTyped, EventInv, RoomInv, Waiting, Awaiting
  <2>6. QueueTyped'
    BY <1>10, <1>a, <2>0 DEF RecordCopy, Complete, Recording, QueueTyped, FenceTyped, IsSignal
  <2> QED  BY <1>b, <2>2, <2>4, <2>5, <2>6
<1>11. ASSUME Execute
      PROVE  ControlInv'
  <2>0. Batch(list.uses) \in Entry  BY <1>a DEF Batch, Entry, QueueTyped
  <2>q. /\ queue' \in Seq(Entry) /\ Len(queue) \in Nat
        /\ DOMAIN queue = 1..Len(queue) /\ DOMAIN queue' = 1..Len(queue) + 1
        /\ \A n \in 1..Len(queue) : queue'[n] = queue[n]
        /\ queue'[Len(queue) + 1] = Batch(list.uses)
    BY <1>11, <2>0, QueueGrows DEF Execute, QueueTyped
  <2>2. TablesTyped' /\ CachesTyped'
    BY <1>11, <1>a DEF Execute, Batch, Closed, TablesTyped, CachesTyped
  <2>4. ThreadTyped' /\ HandInv' /\ TaskInv' /\ RoomInv'
    BY <1>11, <1>a DEF Execute, Batch, Closed, ThreadTyped, FenceTyped, HandInv, TaskInv, RoomInv, Places, PartCount, Waiting, Awaiting
  <2>5. FenceTyped' /\ EventInv'
    BY <1>11, <1>a DEF Execute, Batch, Closed, FenceTyped, EventInv, RoomInv, Waiting, Awaiting
  <2>6. QueueTyped'
    BY <1>11, <1>a, <2>q DEF Execute, Batch, Closed, QueueTyped, FenceTyped, IsSignal
  <2> QED  BY <1>b, <2>2, <2>4, <2>5, <2>6
<1>12. ASSUME SignalFence
      PROVE  ControlInv'
  <2>0. Signal(SignalValue) \in Entry  BY <1>a DEF Signal, SignalValue, Entry, FenceTyped
  <2>q. /\ queue' \in Seq(Entry) /\ Len(queue) \in Nat
        /\ DOMAIN queue = 1..Len(queue) /\ DOMAIN queue' = 1..Len(queue) + 1
        /\ \A n \in 1..Len(queue) : queue'[n] = queue[n]
        /\ queue'[Len(queue) + 1] = Signal(SignalValue)
    BY <1>12, <2>0, QueueGrows DEF SignalFence, QueueTyped
  <2>2. TablesTyped' /\ CachesTyped'
    BY <1>12, <1>a DEF SignalFence, Signal, SignalValue, TablesTyped, CachesTyped
  <2>4. ThreadTyped' /\ HandInv' /\ TaskInv' /\ RoomInv'
    BY <1>12, <1>a DEF SignalFence, Signal, SignalValue, ThreadTyped, FenceTyped, HandInv, TaskInv, RoomInv, Places, PartCount, Waiting, Awaiting
  <2>5. FenceTyped' /\ EventInv'
    BY <1>12, <1>a DEF SignalFence, Signal, SignalValue, FenceTyped, EventInv, RoomInv, Waiting, Awaiting
  <2>6. QueueTyped'
    BY <1>12, <1>a, <2>q DEF SignalFence, Signal, SignalValue, QueueTyped, FenceTyped, IsSignal
  <2> QED  BY <1>b, <2>2, <2>4, <2>5, <2>6
<1>13. ASSUME TestFence
      PROVE  ControlInv'
  <2>2. TablesTyped' /\ CachesTyped'
    BY <1>13, <1>a DEF TestFence, Passed, TablesTyped, CachesTyped
  <2>4. ThreadTyped' /\ HandInv' /\ TaskInv' /\ RoomInv'
    BY <1>13, <1>a DEF TestFence, Passed, ThreadTyped, FenceTyped, HandInv, TaskInv, RoomInv, Places, PartCount, Waiting, Awaiting
  <2>5. FenceTyped' /\ EventInv'
    BY <1>13, <1>a DEF TestFence, Passed, FenceTyped, EventInv, RoomInv, Waiting, Awaiting
  <2>6. QueueTyped'
    BY <1>13, <1>a DEF TestFence, Passed, QueueTyped, FenceTyped, IsSignal
  <2> QED  BY <1>b, <2>2, <2>4, <2>5, <2>6
<1>14. ASSUME Arm
      PROVE  ControlInv'
  <2>2. TablesTyped' /\ CachesTyped'
    BY <1>14, <1>a DEF Arm, TablesTyped, CachesTyped
  <2>4. ThreadTyped' /\ HandInv' /\ TaskInv' /\ RoomInv'
    BY <1>14, <1>a DEF Arm, ThreadTyped, FenceTyped, HandInv, TaskInv, RoomInv, Places, PartCount, Waiting, Awaiting
  <2>0. pc' = "sleep" /\ fence' = fence /\ completed' = completed /\ UNCHANGED <<list, missed, faults, clears>>
    BY <1>14 DEF Arm
  <2>e. event = FALSE /\ armed = 0
    BY <1>14 DEF Arm, EventInv
  <2>c. \/ event' = FALSE /\ armed' = fence
        \/ event' = TRUE /\ armed' = 0
    BY <1>14, <2>e DEF Arm
  <2>5. FenceTyped' /\ EventInv'
    <3>1. EventInv'  BY <2>0, <2>c, ZenonT(30) DEF EventInv
    <3>2. event' \in BOOLEAN /\ (armed' = fence \/ armed' = 0)  BY <2>c, Zenon
    <3>3. FenceTyped'  BY <1>a, <2>0, <3>2 DEF FenceTyped
    <3> QED  BY <3>1, <3>3
  <2>6. QueueTyped'
    BY <1>14, <1>a DEF Arm, QueueTyped, FenceTyped, IsSignal
  <2> QED  BY <1>b, <2>2, <2>4, <2>5, <2>6
<1>15. ASSUME Wake
      PROVE  ControlInv'
  <2>2. TablesTyped' /\ CachesTyped'
    BY <1>15, <1>a DEF Wake, TablesTyped, CachesTyped
  <2>4. ThreadTyped' /\ HandInv' /\ TaskInv' /\ RoomInv'
    BY <1>15, <1>a DEF Wake, ThreadTyped, FenceTyped, HandInv, TaskInv, RoomInv, Places, PartCount, Waiting, Awaiting
  <2>5. FenceTyped' /\ EventInv'
    BY <1>15, <1>a DEF Wake, FenceTyped, EventInv, RoomInv, Waiting, Awaiting
  <2>6. QueueTyped'
    BY <1>15, <1>a DEF Wake, QueueTyped, FenceTyped, IsSignal
  <2> QED  BY <1>b, <2>2, <2>4, <2>5, <2>6
<1>16. ASSUME WaitFails
      PROVE  ControlInv'
  <2>2. TablesTyped' /\ CachesTyped'
    BY <1>16, <1>a DEF WaitFails, TablesTyped, CachesTyped
  <2>4. ThreadTyped' /\ HandInv' /\ TaskInv' /\ RoomInv'
    BY <1>16, <1>a DEF WaitFails, ThreadTyped, FenceTyped, HandInv, TaskInv, RoomInv, Places, PartCount, Waiting, Awaiting
  <2>5. FenceTyped' /\ EventInv'
    BY <1>16, <1>a DEF WaitFails, FenceTyped, EventInv, RoomInv, Waiting, Awaiting
  <2>6. QueueTyped'
    BY <1>16, <1>a DEF WaitFails, QueueTyped, FenceTyped, IsSignal
  <2> QED  BY <1>b, <2>2, <2>4, <2>5, <2>6
<1>17. ASSUME FinishFrame
      PROVE  ControlInv'
  <2>2. TablesTyped' /\ CachesTyped'
    BY <1>17, <1>a DEF FinishFrame, TablesTyped, CachesTyped
  <2>4. ThreadTyped' /\ HandInv' /\ TaskInv' /\ RoomInv'
    BY <1>17, <1>a DEF FinishFrame, ThreadTyped, FenceTyped, HandInv, TaskInv, RoomInv, Places, PartCount, Waiting, Awaiting
  <2>5. FenceTyped' /\ EventInv'
    BY <1>17, <1>a DEF FinishFrame, FenceTyped, EventInv, RoomInv, Waiting, Awaiting
  <2>6. QueueTyped'
    BY <1>17, <1>a DEF FinishFrame, QueueTyped, FenceTyped, IsSignal
  <2> QED  BY <1>b, <2>2, <2>4, <2>5, <2>6
<1>18. ASSUME Present
      PROVE  ControlInv'
  <2>0. Shown(<<"Backbuffer", generation, index>>) \in Entry  BY <1>a DEF Shown, Entry, Objects, ThreadTyped
  <2>q. /\ queue' \in Seq(Entry) /\ Len(queue) \in Nat
        /\ DOMAIN queue = 1..Len(queue) /\ DOMAIN queue' = 1..Len(queue) + 1
        /\ \A n \in 1..Len(queue) : queue'[n] = queue[n]
        /\ queue'[Len(queue) + 1] = Shown(<<"Backbuffer", generation, index>>)
    BY <1>18, <2>0, QueueGrows DEF Present, QueueTyped
  <2>2. TablesTyped' /\ CachesTyped'
    BY <1>18, <1>a DEF Present, Shown, TablesTyped, CachesTyped
  <2>4. ThreadTyped' /\ HandInv' /\ TaskInv' /\ RoomInv'
    BY <1>18, <1>a DEF Present, Shown, ThreadTyped, FenceTyped, HandInv, TaskInv, RoomInv, Places, PartCount, Waiting, Awaiting
  <2>5. FenceTyped' /\ EventInv'
    BY <1>18, <1>a DEF Present, Shown, FenceTyped, EventInv, RoomInv, Waiting, Awaiting
  <2>6. QueueTyped'
    BY <1>18, <1>a, <2>q DEF Present, Shown, QueueTyped, FenceTyped, IsSignal
  <2> QED  BY <1>b, <2>2, <2>4, <2>5, <2>6
<1>19. ASSUME FinishUpload
      PROVE  ControlInv'
  <2>0. task \in Items /\ KindOf[task] \in Kinds
    BY <1>19, <1>a DEF FinishUpload, TaskInv
  <2>1. tables' = [tables EXCEPT ![KindOf[task]] = Append(@, task)]
    BY <1>19 DEF FinishUpload, Stored
  <2>2. TablesTyped' /\ NextId(KindOf[task]) \in Nat \ {0}
    BY <2>0, <2>1, TableGrows DEF TablesTyped
  <2>3. CachesTyped'
    <3>1. cache' = [cache EXCEPT ![task] = NextId(KindOf[task])]
      BY <1>19 DEF FinishUpload, Stored, Remembered
    <3>2. \/ shown' = shown
          \/ shown' = [shown EXCEPT ![task] = {cache[j] : j \in ShownBy(task)}]
      BY <1>19 DEF FinishUpload, Stored
    <3>3. ShownBy(task) \subseteq Items
      BY <2>0 DEF ShownBy
    <3> QED  BY <1>a, <2>0, <2>2, <3>1, <3>2, <3>3 DEF CachesTyped
  <2>4. ThreadTyped' /\ HandInv' /\ TaskInv' /\ RoomInv'
    BY <1>19, <1>a DEF FinishUpload, Stored, ThreadTyped, FenceTyped, HandInv, TaskInv, RoomInv, Places, PartCount, Waiting, Awaiting
  <2>5. FenceTyped' /\ EventInv'
    BY <1>19, <1>a DEF FinishUpload, Stored, FenceTyped, EventInv, RoomInv, Waiting, Awaiting
  <2>6. QueueTyped'
    BY <1>19, <1>a DEF FinishUpload, Stored, QueueTyped, FenceTyped, IsSignal
  <2> QED  BY <1>b, <2>2, <2>3, <2>4, <2>5, <2>6
<1>20. ASSUME FinishResize
      PROVE  ControlInv'
  <2>2. TablesTyped' /\ CachesTyped'
    BY <1>20, <1>a DEF FinishResize, TablesTyped, CachesTyped
  <2>4. ThreadTyped' /\ HandInv' /\ TaskInv' /\ RoomInv'
    BY <1>20, <1>a DEF FinishResize, ThreadTyped, FenceTyped, HandInv, TaskInv, RoomInv, Places, PartCount, Waiting, Awaiting
  <2>5. FenceTyped' /\ EventInv'
    BY <1>20, <1>a DEF FinishResize, FenceTyped, EventInv, RoomInv, Waiting, Awaiting
  <2>6. QueueTyped'
    BY <1>20, <1>a DEF FinishResize, QueueTyped, FenceTyped, IsSignal
  <2> QED  BY <1>b, <2>2, <2>4, <2>5, <2>6
<1>21. ASSUME FinishDestroy
      PROVE  ControlInv'
  <2>2. TablesTyped'
    <3>1. tables' \in [Kinds -> Seq(Items)] /\ \A k \in Kinds : DOMAIN tables'[k] = {}
      BY <1>21, EmptySeq DEF FinishDestroy
    <3> QED  BY <3>1 DEF TablesTyped
  <2>3. CachesTyped'
    BY <1>21, <1>a DEF FinishDestroy, CachesTyped
  <2>4. ThreadTyped' /\ HandInv' /\ TaskInv' /\ RoomInv'
    BY <1>21, <1>a DEF FinishDestroy, ThreadTyped, FenceTyped, HandInv, TaskInv, RoomInv, Places, PartCount, Waiting, Awaiting
  <2>5. FenceTyped' /\ EventInv'
    BY <1>21, <1>a DEF FinishDestroy, FenceTyped, EventInv, RoomInv, Waiting, Awaiting
  <2>6. QueueTyped'
    BY <1>21, <1>a DEF FinishDestroy, QueueTyped, FenceTyped, IsSignal
  <2> QED  BY <1>b, <2>2, <2>3, <2>4, <2>5, <2>6
<1>22. ASSUME NEW os \in SUBSET Objects, Draw(os)
      PROVE  ControlInv'
  <2>2. TablesTyped' /\ CachesTyped'
    BY <1>22, <1>a DEF Draw, Recording, TablesTyped, CachesTyped
  <2>4. ThreadTyped' /\ HandInv' /\ TaskInv' /\ RoomInv'
    BY <1>22, <1>a DEF Draw, Recording, ThreadTyped, FenceTyped, HandInv, TaskInv, RoomInv, Places, PartCount, Waiting, Awaiting
  <2>5. FenceTyped' /\ EventInv'
    BY <1>22, <1>a DEF Draw, Recording, FenceTyped, EventInv, RoomInv, Waiting, Awaiting
  <2>6. QueueTyped'
    BY <1>22, <1>a DEF Draw, Recording, QueueTyped, FenceTyped, IsSignal
  <2> QED  BY <1>b, <2>2, <2>4, <2>5, <2>6
<1>23. ASSUME GpuStep
      PROVE  ControlInv'
  <2>q. /\ queue' \in Seq(Entry) /\ Head(queue) = queue[1] /\ Head(queue) \in Entry
        /\ Len(queue) \in Nat \ {0} /\ DOMAIN queue = 1..Len(queue)
        /\ DOMAIN queue' = 1..Len(queue) - 1
        /\ \A n \in 1..Len(queue) - 1 : queue'[n] = queue[n + 1]
    BY <1>23, QueueShrinks DEF GpuStep, QueueTyped
  <2>h. Head(queue).op = "signal" => Head(queue).value \in 1..fence
    BY <2>q DEF QueueTyped, IsSignal
  <2>2. TablesTyped' /\ CachesTyped'
    BY <1>23, <1>a DEF GpuStep, TablesTyped, CachesTyped
  <2>4. ThreadTyped' /\ HandInv' /\ TaskInv' /\ RoomInv'
    BY <1>23, <1>a DEF GpuStep, ThreadTyped, FenceTyped, HandInv, TaskInv, RoomInv, Places, PartCount, Waiting, Awaiting
  <2>u. UNCHANGED <<pc, fence, list, missed, faults, clears>> /\ completed' \in 0..fence
    BY <1>23, <1>a, <2>h DEF GpuStep, FenceTyped
  <2>e. \/ event' = event /\ armed' = armed
        \/ armed # 0 /\ event' = TRUE /\ armed' = 0
    BY <1>23 DEF GpuStep
  <2>5. FenceTyped' /\ EventInv'
    <3>1. CASE event' = event /\ armed' = armed  BY <1>a, <2>u, <3>1 DEF FenceTyped, EventInv
    <3>2. CASE armed # 0 /\ event' = TRUE /\ armed' = 0  BY <1>a, <2>u, <3>2 DEF FenceTyped, EventInv
    <3> QED  BY <2>e, <3>1, <3>2
  <2>6. QueueTyped'
    BY <1>23, <1>a, <2>q, <2>h DEF GpuStep, QueueTyped, FenceTyped, IsSignal
  <2> QED  BY <1>b, <2>2, <2>4, <2>5, <2>6
<1>24. ASSUME DrawResolved
       PROVE  ControlInv'
  <2>1. PICK k \in {"Mesh", "Cloud"}, p \in Items :
            \E id \in DOMAIN tables[k] : Draw(Owned(k, id) \union Owned(KindOf[p], cache[p]))
    BY <1>24 DEF DrawResolved
  <2>2. PICK id \in DOMAIN tables[k] : Draw(Owned(k, id) \union Owned(KindOf[p], cache[p]))
    BY <2>1
  <2>3. k \in Kinds /\ KindOf[p] \in Kinds /\ id \in Nat /\ cache[p] \in Nat
    BY <1>a, <2>1, <2>2, LenProperties DEF TablesTyped, CachesTyped, Kinds
  <2>4. Owned(k, id) \union Owned(KindOf[p], cache[p]) \in SUBSET Objects
    BY <2>3, OwnedAreObjects
  <2> QED  BY <1>22, <2>2, <2>4
<1>25. ASSUME NEW c \in Items, DrawContext(c)
       PROVE  ControlInv'
  <2> DEFINE S == UNION {Owned(KindOf[j], id) : j \in ShownBy(c), id \in shown[c]}
  <2>1. S \in SUBSET Objects
    <3>1. \A j \in ShownBy(c), id \in shown[c] : KindOf[j] \in Kinds /\ id \in Nat
      BY <1>a DEF CachesTyped, ShownBy
    <3>2. \A j \in ShownBy(c), id \in shown[c] : Owned(KindOf[j], id) \subseteq Objects
      BY <3>1, OwnedAreObjects
    <3> QED  BY <3>2
  <2>2. "Context" \in Kinds /\ cache[c] \in Nat
    BY <1>a DEF CachesTyped, Kinds
  <2>3. Owned("Context", cache[c]) \union S \in SUBSET Objects
    BY <2>1, <2>2, OwnedAreObjects
  <2> QED  BY <1>22, <1>25, <2>3 DEF DrawContext
<1> QED
  BY <1>1, <1>2, <1>3, <1>4, <1>5, <1>6, <1>7, <1>8, <1>9, <1>10, <1>11, <1>12, <1>13, <1>14, <1>15,
     <1>16, <1>17, <1>18, <1>19, <1>20, <1>21, <1>23, <1>24, <1>25
  DEF Next, Request, Proceed, Draws

LEMMA ControlNext ==
    ASSUME ControlInv, [Next]_vars
    PROVE  ControlInv'
<1>1. CASE UNCHANGED vars
  BY <1>1 DEF ControlInv, TypeOK, HandInv, TaskInv, RoomInv, EventInv, QueueTyped, IsSignal
<1> QED  BY <1>1, ControlStep

\* Every variable of the device always has its type: no id, count, fence value
\* or place of the thread leaves its range, whatever fails.
THEOREM DeviceTypes == Spec => []TypeOK
<1>1. ControlInv => TypeOK  BY DEF ControlInv
<1> QED  BY ControlInit, ControlNext, <1>1, PTL DEF Spec

-----------------------------------------------------------------------------
(* Objects and handles *)

LEMMA PartsElements ==
    ASSUME NEW k, NEW id, NEW ps, NEW o
    PROVE  /\ o \in Parts(k, id, ps) <=> \E p \in ps : o = <<k, id, p>>
           /\ o \in Parts(k, id, ps) => o[1] = k /\ o[2] = id /\ o[3] \in ps
BY DEF Parts

LEMMA TableElements ==
    ASSUME NEW o
    PROVE  o \in InTables <=> \E k \in Kinds : \E id \in DOMAIN tables[k] : o \in Owned(k, id)
BY DEF InTables

\* What is in hand for the next slot is neither in a table nor a backbuffer.
LEMMA HandIsFresh ==
    ASSUME TypeOK, NEW k \in Kinds, NEW ps, NEW o \in Parts(k, NextId(k), ps)
    PROVE  o \notin InTables /\ o \notin Backbuffers(generation)
<1>1. o[1] = k /\ o[2] = NextId(k)  BY PartsElements
<1>2. NextId(k) \notin DOMAIN tables[k]
  BY LenProperties DEF TypeOK, NextId
<1>3. \A l, id : o \in Owned(l, id) => l = k /\ id = NextId(k)
  BY <1>1, PartsElements DEF Owned
<1>4. o \notin InTables  BY <1>2, <1>3, TableElements
<1>5. o \in Backbuffers(generation) => o[1] = "Backbuffer"
  BY PartsElements DEF Backbuffers
<1>6. "Backbuffer" \notin Kinds  BY DEF Kinds
<1> QED  BY <1>1, <1>4, <1>5, <1>6

\* An empty hand holds nothing.
LEMMA EmptyHand == hand = 0 => InHand = {}
BY DEF InHand, Parts

\* A new slot owns what was in hand for it.
LEMMA TablesOwnMore ==
    ASSUME TypeOK, NEW k \in Kinds, NEW i \in Items, KindOf[i] = k,
           tables' = [tables EXCEPT ![k] = Append(@, i)]
    PROVE  InTables' = InTables \cup Owned(k, NextId(k))
<1>1. /\ \A l \in Kinds \ {k} : tables'[l] = tables[l]
      /\ DOMAIN tables'[k] = DOMAIN tables[k] \cup {NextId(k)}
  BY TableGrows
<1>2. ASSUME NEW o
      PROVE  o \in InTables' <=> o \in InTables \cup Owned(k, NextId(k))
  <2>1. o \in InTables' <=> \E l \in Kinds : \E id \in DOMAIN tables'[l] : o \in Owned(l, id)
    BY DEF InTables
  <2> QED  BY <1>1, <2>1, TableElements
<1> QED  BY <1>2

\* The owners do not change when nothing is created, released or handed over.
LEMMA OwnersKept ==
    ASSUME ObjectsOwned, UNCHANGED <<live, tables, srvs, generation>>, InHand' = InHand,
           pc' = "gone" <=> pc = "gone"
    PROVE  ObjectsOwned'
BY DEF ObjectsOwned, InTables, Backbuffers

\* Forgetting handles leaves the others truthful.
LEMMA HandlesKept ==
    ASSUME HandlesTruthful, UNCHANGED <<tables, shown>>, pc' # "gone" => pc # "gone",
           \A i \in Items : cache'[i] \in {cache[i], 0}
    PROVE  HandlesTruthful'
BY DEF HandlesTruthful, Holds

\* A handle stays truthful when slots are added.
LEMMA HoldsStays ==
    ASSUME TypeOK, NEW k \in Kinds, NEW i \in Items, KindOf[i] = k,
           tables' = [tables EXCEPT ![k] = Append(@, i)], NEW j \in Items, NEW id, Holds(j, id)
    PROVE  Holds(j, id)'
<1>1. KindOf[j] \in Kinds  OBVIOUS
<1>2. /\ \A l \in Kinds \ {k} : tables'[l] = tables[l]
      /\ DOMAIN tables'[k] = DOMAIN tables[k] \cup {NextId(k)}
      /\ \A n \in DOMAIN tables[k] : tables'[k][n] = tables[k][n]
  BY TableGrows
<1> QED  BY <1>1, <1>2 DEF Holds

\* What the command list of a frame may refer to.
LEMMA HeldIsLive ==
    ASSUME ObjectsOwned, pc # "gone", NEW i \in Items, NEW id, Holds(i, id)
    PROVE  Owned(KindOf[i], id) \subseteq live
BY TableElements DEF ObjectsOwned, Holds

\* A resource or context in the making becomes a slot, and the handle of the
\* slot is the one remembered (Store, FinishUpload).
LEMMA StoredTruthful ==
    ASSUME ControlInv, HandlesTruthful, task \in Items, \A j \in Needs[task] : cache[j] # 0,
           pc # "gone", Stored
    PROVE  HandlesTruthful'
<1>1. TypeOK  BY DEF ControlInv
<1>2. PICK k \in Kinds, t \in Items : k = KindOf[t] /\ t = task  OBVIOUS
<1>3. tables' = [tables EXCEPT ![k] = Append(@, t)]  BY <1>2 DEF Stored
<1>4. NextId(k) \in DOMAIN tables'[k] /\ tables'[k][NextId(k)] = t
  <2>1. KindOf[t] = k  BY <1>2
  <2>2. DOMAIN tables'[k] = DOMAIN tables[k] \cup {NextId(k)} /\ tables'[k][NextId(k)] = t
    BY ONLY <1>1, <1>3, <2>1, TableGrows
  <2> QED  BY <2>2
<1>5. cache' = [cache EXCEPT ![t] = NextId(k)]  BY <1>2 DEF Stored, Remembered
<1>6. ASSUME NEW i \in Items, NEW id, id = cache'[i], id # 0
      PROVE  Holds(i, id)'
  <2>1. CASE i = t
    BY <1>1, <1>2, <1>4, <1>5, <1>6, <2>1 DEF TypeOK, Holds
  <2>2. CASE i # t
    <3>1. id = cache[i] /\ Holds(i, id)
      BY <1>1, <1>5, <1>6, <2>2 DEF TypeOK, HandlesTruthful
    <3> QED  BY <1>1, <1>2, <1>3, <3>1, HoldsStays
  <2> QED  BY <2>1, <2>2
<1>7. ASSUME NEW i \in Items, NEW j \in ShownBy(i), NEW id \in shown'[i]
      PROVE  Holds(j, id)'
  <2>1. j \in Items  BY DEF ShownBy
  <2>2. Holds(j, id)
    <3>1. CASE id \in shown[i]
      BY <3>1 DEF HandlesTruthful
    <3>2. CASE id \notin shown[i]
      <4>1. shown' = [shown EXCEPT ![t] = {cache[n] : n \in ShownBy(t)}]
        BY <1>2, <1>7, <3>2 DEF Stored
      <4>2. i = t /\ id \in {cache[n] : n \in ShownBy(t)}
        BY <1>1, <1>7, <3>2, <4>1 DEF TypeOK
      <4>3. PICK n \in ShownBy(t) : id = cache[n]  BY <4>2
      <4>4. n = j /\ n \in Needs[t]  BY <4>2, <4>3 DEF ShownBy
      <4> QED  BY <1>2, <2>1, <4>3, <4>4 DEF HandlesTruthful
    <3> QED  BY <3>1, <3>2
  <2> QED  BY <1>1, <1>2, <1>3, <2>1, <2>2, HoldsStays
<1> QED  BY <1>6, <1>7 DEF HandlesTruthful, Holds

-----------------------------------------------------------------------------
(* Owners and handles at each step *)

LEMMA OwnerInit == Init => OwnerInv
<1>1. SUFFICES ASSUME Init PROVE OwnerInv  OBVIOUS
<1>2. \A k \in Kinds : tables[k] = <<>>  BY <1>1 DEF Init
<1>3. InTables = {}
  <2>1. \A k \in Kinds : DOMAIN tables[k] = {}  BY <1>2, EmptySeq
  <2> QED  BY <2>1, TableElements
<1>4. ObjectsOwned
  <2>1. InHand = {}  BY <1>1, EmptyHand DEF Init
  <2>2. Len(tables["Texture"]) = 0  BY <1>2, EmptySeq DEF Kinds
  <2> QED  BY <1>1, <1>3, <2>1, <2>2 DEF Init, ObjectsOwned
<1>5. HandlesTruthful  BY <1>1 DEF Init, HandlesTruthful, ShownBy
<1>6. ListInv  BY <1>1 DEF Init, ListInv
<1> QED  BY <1>4, <1>5, <1>6 DEF OwnerInv

\* No step leaves an object without an owner or with two, makes a remembered
\* handle lead to another item's slot, or records the use of an object that
\* does not exist.
LEMMA OwnerStep ==
    ASSUME ControlInv, OwnerInv, Next
    PROVE  OwnerInv'
<1> USE DEF ControlInv, OwnerInv
<1>a. ASSUME hand = 0, hand' = 0
      PROVE  InHand' = InHand
  <2>1. InHand = {}  BY <1>a, EmptyHand
  <2>2. InHand' = {}
    <3>1. 1..hand' = {}  BY <1>a
    <3> QED  BY <3>1 DEF InHand, Parts
  <2> QED  BY <2>1, <2>2
<1>b. ASSUME UNCHANGED <<tables, task, hand>>
      PROVE  InHand' = InHand
  BY <1>b DEF InHand, NextId
<1>t. ThreadTyped /\ TablesTyped /\ CachesTyped  BY TypeParts
<1>1. ASSUME NEW i \in Items, Realize(i)
      PROVE  OwnerInv'
  <2>1. InHand' = InHand  BY <1>1, <1>a DEF Realize, HandInv, Waiting, Awaiting
  <2>2. ObjectsOwned'  BY <1>1, <2>1, OwnersKept DEF Realize
  <2>3. HandlesTruthful'  BY <1>1, <1>t, HandlesKept DEF Realize, CachesTyped
  <2>4. ListInv'  BY <1>1 DEF Realize, ListInv
  <2> QED  BY <2>2, <2>3, <2>4
<1>2. ASSUME ClearResources
      PROVE  OwnerInv'
  <2>1. InHand' = InHand  BY <1>2, <1>b DEF ClearResources
  <2>2. ObjectsOwned'  BY <1>2, <2>1, OwnersKept DEF ClearResources
  <2>3. HandlesTruthful'  BY <1>2, <1>t, HandlesKept DEF ClearResources, CachesTyped
  <2>4. ListInv'  BY <1>2 DEF ClearResources, ListInv
  <2> QED  BY <2>2, <2>3, <2>4
<1>3. ASSUME ClearPipelines
      PROVE  OwnerInv'
  <2>1. InHand' = InHand  BY <1>3, <1>b DEF ClearPipelines
  <2>2. ObjectsOwned'  BY <1>3, <2>1, OwnersKept DEF ClearPipelines
  <2>3. HandlesTruthful'  BY <1>3, <1>t, HandlesKept DEF ClearPipelines, CachesTyped
  <2>4. ListInv'  BY <1>3 DEF ClearPipelines, ListInv
  <2> QED  BY <2>2, <2>3, <2>4
<1>4. ASSUME StartResize
      PROVE  OwnerInv'
  <2>1. InHand' = InHand  BY <1>4, <1>a DEF StartResize, ResizeWaits, HandInv, Waiting, Awaiting
  <2>2. ObjectsOwned'  BY <1>4, <2>1, OwnersKept DEF StartResize, ResizeWaits
  <2>3. HandlesTruthful'  BY <1>4, <1>t, HandlesKept DEF StartResize, ResizeWaits, CachesTyped
  <2>4. ListInv'  BY <1>4 DEF StartResize, ResizeWaits, ListInv
  <2> QED  BY <2>2, <2>3, <2>4
<1>5. ASSUME StartDestroy
      PROVE  OwnerInv'
  <2>1. InHand' = InHand  BY <1>5, <1>a DEF StartDestroy, HandInv, Waiting, Awaiting
  <2>2. ObjectsOwned'  BY <1>5, <2>1, OwnersKept DEF StartDestroy
  <2>3. HandlesTruthful'  BY <1>5, <1>t, HandlesKept DEF StartDestroy, CachesTyped
  <2>4. ListInv'  BY <1>5 DEF StartDestroy, ListInv
  <2> QED  BY <2>2, <2>3, <2>4
<1>6. ASSUME Execute
      PROVE  OwnerInv'
  <2>1. InHand' = InHand  BY <1>6, <1>b DEF Execute
  <2>2. ObjectsOwned'  BY <1>6, <2>1, OwnersKept DEF Execute
  <2>3. HandlesTruthful'  BY <1>6, <1>t, HandlesKept DEF Execute, CachesTyped
  <2>4. ListInv'  BY <1>6 DEF Execute, ListInv
  <2> QED  BY <2>2, <2>3, <2>4
<1>7. ASSUME SignalFence
      PROVE  OwnerInv'
  <2>1. InHand' = InHand  BY <1>7, <1>b DEF SignalFence
  <2>2. ObjectsOwned'  BY <1>7, <2>1, OwnersKept DEF SignalFence
  <2>3. HandlesTruthful'  BY <1>7, <1>t, HandlesKept DEF SignalFence, CachesTyped
  <2>4. ListInv'  BY <1>7 DEF SignalFence, ListInv
  <2> QED  BY <2>2, <2>3, <2>4
<1>8. ASSUME TestFence
      PROVE  OwnerInv'
  <2>1. InHand' = InHand  BY <1>8, <1>b DEF TestFence
  <2>2. ObjectsOwned'  BY <1>8, <2>1, OwnersKept DEF TestFence
  <2>3. HandlesTruthful'  BY <1>8, <1>t, HandlesKept DEF TestFence, CachesTyped
  <2>4. ListInv'  BY <1>8 DEF TestFence, ListInv
  <2> QED  BY <2>2, <2>3, <2>4
<1>9. ASSUME Arm
      PROVE  OwnerInv'
  <2>1. InHand' = InHand  BY <1>9, <1>b DEF Arm
  <2>2. ObjectsOwned'  BY <1>9, <2>1, OwnersKept DEF Arm
  <2>3. HandlesTruthful'  BY <1>9, <1>t, HandlesKept DEF Arm, CachesTyped
  <2>4. ListInv'  BY <1>9 DEF Arm, ListInv
  <2> QED  BY <2>2, <2>3, <2>4
<1>10. ASSUME Wake
      PROVE  OwnerInv'
  <2>1. InHand' = InHand  BY <1>10, <1>b DEF Wake
  <2>2. ObjectsOwned'  BY <1>10, <2>1, OwnersKept DEF Wake
  <2>3. HandlesTruthful'  BY <1>10, <1>t, HandlesKept DEF Wake, CachesTyped
  <2>4. ListInv'  BY <1>10 DEF Wake, ListInv
  <2> QED  BY <2>2, <2>3, <2>4
<1>11. ASSUME FinishFrame
      PROVE  OwnerInv'
  <2>1. InHand' = InHand  BY <1>11, <1>b DEF FinishFrame
  <2>2. ObjectsOwned'  BY <1>11, <2>1, OwnersKept DEF FinishFrame
  <2>3. HandlesTruthful'  BY <1>11, <1>t, HandlesKept DEF FinishFrame, CachesTyped
  <2>4. ListInv'  BY <1>11 DEF FinishFrame, ListInv
  <2> QED  BY <2>2, <2>3, <2>4
<1>12. ASSUME Present
      PROVE  OwnerInv'
  <2>1. InHand' = InHand  BY <1>12, <1>b DEF Present
  <2>2. ObjectsOwned'  BY <1>12, <2>1, OwnersKept DEF Present
  <2>3. HandlesTruthful'  BY <1>12, HandlesKept DEF Present
  <2>4. ListInv'  BY <1>12 DEF Present, ListInv
  <2> QED  BY <2>2, <2>3, <2>4
<1>13. ASSUME GpuStep
      PROVE  OwnerInv'
  <2>1. InHand' = InHand  BY <1>13, <1>b DEF GpuStep
  <2>2. ObjectsOwned'  BY <1>13, <2>1, OwnersKept DEF GpuStep
  <2>3. HandlesTruthful'  BY <1>13, <1>t, HandlesKept DEF GpuStep, CachesTyped
  <2>4. ListInv'  BY <1>13 DEF GpuStep, ListInv
  <2> QED  BY <2>2, <2>3, <2>4
<1>14. ASSUME BeginFrame
       PROVE  OwnerInv'
  <2>1. InHand' = InHand  BY <1>14, <1>a DEF BeginFrame, HandInv, Waiting, Awaiting
  <2>2. ObjectsOwned'  BY <1>14, <2>1, OwnersKept DEF BeginFrame
  <2>3. HandlesTruthful'  BY <1>14, HandlesKept DEF BeginFrame
  <2>4. Parts("Backbuffer", generation, {index}) \subseteq live
    BY <1>14, <1>t DEF BeginFrame, ObjectsOwned, Backbuffers, Parts, ThreadTyped
  <2>5. ListInv'  BY <1>14, <2>4 DEF BeginFrame, ListInv, Recording
  <2> QED  BY <2>2, <2>3, <2>5
<1>15. ASSUME CreateObject
       PROVE  OwnerInv'
  <2>1. task \in Items /\ hand' = hand + 1 /\ UNCHANGED <<task, tables>>
    BY <1>15 DEF CreateObject, TaskInv
  <2>2. InHand' = InHand \cup Parts(KindOf[task], NextId(KindOf[task]), {hand + 1})
    <3>1. 1..hand + 1 = 1..hand \cup {hand + 1}  BY <1>t DEF ThreadTyped
    <3> QED  BY <2>1, <3>1 DEF InHand, Parts, NextId
  <2>3. ObjectsOwned'
    BY <1>15, <2>2 DEF CreateObject, ObjectsOwned, InTables, Backbuffers
  <2>4. HandlesTruthful'  BY <1>15, HandlesKept DEF CreateObject
  <2>5. ListInv'  BY <1>15 DEF CreateObject, ListInv
  <2> QED  BY <2>3, <2>4, <2>5
<1>16. ASSUME task \in Items, pc # "gone", live' = Released, hand' = 0, UNCHANGED <<tables, srvs, generation>>,
              pc' # "gone"
       PROVE  ObjectsOwned'
  <2>1. PICK k \in Kinds : k = KindOf[task]  BY <1>16
  <2>2. InHand = Parts(k, NextId(k), 1..hand)  BY <1>16, <2>1 DEF InHand
  <2>3. \A o \in InHand : o \notin InTables /\ o \notin Backbuffers(generation)
    BY <2>2, HandIsFresh
  <2>4. InHand' = {}  BY <1>16 DEF InHand, Parts
  <2>5. InTables' = InTables /\ Backbuffers(generation)' = Backbuffers(generation)
    BY <1>16 DEF InTables, Backbuffers
  <2> QED  BY <1>16, <2>3, <2>4, <2>5 DEF ObjectsOwned, Released
<1>17. ASSUME CreateFails
       PROVE  OwnerInv'
  <2>1. ObjectsOwned'  BY <1>16, <1>17 DEF CreateFails, TaskInv
  <2>2. HandlesTruthful'  BY <1>17, HandlesKept DEF CreateFails
  <2>3. ListInv'  BY <1>17 DEF CreateFails, ListInv
  <2> QED  BY <2>1, <2>2, <2>3
<1>18. ASSUME WaitFails
       PROVE  OwnerInv'
  <2>1. ObjectsOwned'  BY <1>16, <1>18 DEF WaitFails
  <2>2. HandlesTruthful'  BY <1>18, HandlesKept DEF WaitFails
  <2>3. ListInv'  BY <1>18 DEF WaitFails, ListInv
  <2> QED  BY <2>1, <2>2, <2>3
<1>19. ASSUME RecordCopy
       PROVE  OwnerInv'
  <2>1. InHand' = InHand  BY <1>19, <1>b DEF RecordCopy
  <2>2. ObjectsOwned'  BY <1>19, <2>1, OwnersKept DEF RecordCopy
  <2>3. HandlesTruthful'  BY <1>19, HandlesKept DEF RecordCopy
  <2>4. ListInv'  BY <1>19 DEF RecordCopy, ListInv, Recording, ObjectsOwned
  <2> QED  BY <2>2, <2>3, <2>4
<1>20. ASSUME Store
       PROVE  OwnerInv'
  <2>1. task \in Items /\ pc # "gone" /\ pc' = "idle" /\ hand' = 0 /\ UNCHANGED <<live, srvs, generation, list>>
    BY <1>20 DEF Store, Stored, TaskInv
  <2>2. PICK k \in Kinds, t \in Items : k = KindOf[t] /\ t = task  BY <2>1
  <2>3. tables' = [tables EXCEPT ![k] = Append(@, t)] /\ k # "Texture" /\ hand = PartCount(k)
    BY <1>20, <2>2 DEF Store, Stored, Complete
  <2>4. InTables' = InTables \cup Owned(k, NextId(k))  BY <2>2, <2>3, TablesOwnMore
  <2>5. InHand = Owned(k, NextId(k)) /\ InHand' = {}
    BY <2>1, <2>2, <2>3 DEF InHand, Owned, Parts
  <2>6. tables'["Texture"] = tables["Texture"]  BY <1>t, <2>3 DEF TablesTyped, Kinds
  <2>7. ObjectsOwned'  BY <2>1, <2>4, <2>5, <2>6 DEF ObjectsOwned, Backbuffers
  <2>8. HandlesTruthful'  BY <1>20, <2>1, StoredTruthful DEF Store, TaskInv
  <2>9. ListInv'  BY <1>20, <2>1 DEF Store, ListInv
  <2> QED  BY <2>7, <2>8, <2>9
<1>21. ASSUME FinishUpload
       PROVE  OwnerInv'
  <2>1. /\ task \in Items /\ pc = "finish" /\ pc' = "idle" /\ UNCHANGED <<generation, list>> /\ hand' = 0
        /\ KindOf[task] = "Texture" /\ hand = 2 /\ srvs < SrvCapacity
    BY <1>21 DEF FinishUpload, Stored, HandInv, RoomInv, Waiting, Awaiting
  <2>2. PICK k \in Kinds, t \in Items : k = KindOf[t] /\ t = task  BY <2>1
  <2>3. tables' = [tables EXCEPT ![k] = Append(@, t)] /\ k = "Texture"
    BY <1>21, <2>1, <2>2 DEF FinishUpload, Stored
  <2>4. InTables' = InTables \cup Owned(k, NextId(k))  BY <2>2, <2>3, TablesOwnMore
  <2>5. InHand = Parts(k, NextId(k), 1..2) /\ InHand' = {}
    BY <2>1, <2>2, <2>3 DEF InHand, Parts
  <2>6. Owned(k, NextId(k)) = InHand \ Parts(k, NextId(k), {2})
    <3>1. Owned(k, NextId(k)) = Parts(k, NextId(k), 1..1)  BY <2>3 DEF Owned
    <3>2. ASSUME NEW o
          PROVE  o \in Parts(k, NextId(k), 1..1) <=> o \in InHand \ Parts(k, NextId(k), {2})
      <4>1. 1..1 = {1} /\ 1..2 = {1, 2}  OBVIOUS
      <4>2. <<k, NextId(k), 1>> # <<k, NextId(k), 2>>  OBVIOUS
      <4> QED  BY <2>5, <4>1, <4>2, PartsElements
    <3> QED  BY <3>1, <3>2
  <2>7. live' = live \ Parts(k, NextId(k), {2})  BY <1>21, <2>3 DEF FinishUpload
  <2>8. \A o \in Parts(k, NextId(k), {2}) : o \notin InTables /\ o \notin Backbuffers(generation)
    BY HandIsFresh
  <2>9. live' = InTables' \cup InHand' \cup Backbuffers(generation)'
    BY <2>1, <2>4, <2>5, <2>6, <2>7, <2>8 DEF ObjectsOwned, Backbuffers
  <2>10. srvs' = Len(tables'["Texture"]) /\ srvs' <= SrvCapacity
    <3>1. tables["Texture"] \in Seq(Items) /\ tables'["Texture"] = Append(tables["Texture"], t)
      BY <1>t, <2>3 DEF TablesTyped, Kinds
    <3>2. Len(tables'["Texture"]) = Len(tables["Texture"]) + 1  BY <3>1, AppendProperties
    <3>3. srvs = Len(tables["Texture"]) /\ srvs' = srvs + 1 /\ srvs \in Nat
      BY <1>21, <1>t, <2>1 DEF FinishUpload, ObjectsOwned, ThreadTyped
    <3> QED  BY <2>1, <3>2, <3>3
  <2>11. ObjectsOwned'  BY <2>1, <2>9, <2>10 DEF ObjectsOwned
  <2>12. HandlesTruthful'
    BY <1>21, <2>1, StoredTruthful DEF FinishUpload, TaskInv, Waiting, Awaiting
  <2>13. ListInv'  BY <2>1 DEF ListInv
  <2> QED  BY <2>11, <2>12, <2>13
<1>22. ASSUME FinishResize
       PROVE  OwnerInv'
  <2>1. hand = 0 /\ task \notin Items /\ UNCHANGED <<tables, srvs, task, hand, list>> /\ pc = "finish" /\ pc' = "idle"
    BY <1>22 DEF FinishResize, HandInv
  <2>2. InHand = {} /\ InHand' = {} /\ InTables' = InTables  BY <2>1 DEF InHand, InTables
  <2>3. \A o \in InTables : o \notin Backbuffers(generation)
    <3>1. "Backbuffer" \notin Kinds  BY DEF Kinds
    <3> QED  BY <3>1, TableElements, PartsElements DEF Owned, Backbuffers
  <2>4. ObjectsOwned'
    BY <1>22, <2>1, <2>2, <2>3 DEF FinishResize, ObjectsOwned, Backbuffers
  <2>5. HandlesTruthful'  BY <1>22, HandlesKept DEF FinishResize
  <2>6. ListInv'  BY <2>1 DEF ListInv
  <2> QED  BY <2>4, <2>5, <2>6
<1>23. ASSUME FinishDestroy
       PROVE  OwnerInv'
  <2>1. hand = 0 /\ task \notin Items /\ UNCHANGED <<task, hand, list>> /\ pc = "finish" /\ pc' = "gone"
    BY <1>23 DEF FinishDestroy, HandInv
  <2>2. InHand = {} /\ InHand' = {}  BY <2>1 DEF InHand
  <2>3. InTables' = {}
    <3>1. \A k \in Kinds : DOMAIN tables'[k] = {}  BY <1>23, EmptySeq DEF FinishDestroy
    <3> QED  BY <3>1 DEF InTables
  <2>4. ObjectsOwned'  BY <1>23, <2>1, <2>2, <2>3 DEF FinishDestroy, ObjectsOwned
  <2>5. HandlesTruthful' /\ ListInv'  BY <2>1 DEF HandlesTruthful, ListInv
  <2> QED  BY <2>4, <2>5
<1>24. ASSUME NEW os \in SUBSET live, Draw(os)
       PROVE  OwnerInv'
  <2>1. InHand' = InHand  BY <1>24, <1>b DEF Draw
  <2>2. ObjectsOwned'  BY <1>24, <2>1, OwnersKept DEF Draw
  <2>3. HandlesTruthful'  BY <1>24, HandlesKept DEF Draw
  <2>4. ListInv'  BY <1>24 DEF Draw, ListInv, Recording
  <2> QED  BY <2>2, <2>3, <2>4
<1>25. ASSUME DrawResolved
       PROVE  OwnerInv'
  <2>1. PICK k \in {"Mesh", "Cloud"}, p \in Items :
            /\ cache[p] # 0
            /\ \E id \in DOMAIN tables[k] : Draw(Owned(k, id) \union Owned(KindOf[p], cache[p]))
    BY <1>25 DEF DrawResolved
  <2>2. PICK id \in DOMAIN tables[k] : Draw(Owned(k, id) \union Owned(KindOf[p], cache[p]))
    BY <2>1
  <2>3. pc # "gone" /\ k \in Kinds  BY <2>1, <2>2 DEF Draw, Kinds
  <2>4. Owned(k, id) \subseteq live  BY <2>2, <2>3, TableElements DEF ObjectsOwned
  <2>5. Owned(KindOf[p], cache[p]) \subseteq live
    <3>1. Holds(p, cache[p])  BY <2>1, <2>3 DEF HandlesTruthful
    <3> QED  BY <2>3, <3>1, HeldIsLive
  <2> QED  BY <1>24, <2>2, <2>4, <2>5
<1>26. ASSUME NEW c \in Items, DrawContext(c)
       PROVE  OwnerInv'
  <2> DEFINE S == UNION {Owned(KindOf[j], id) : j \in ShownBy(c), id \in shown[c]}
  <2>1. pc # "gone" /\ KindOf[c] = "Context" /\ cache[c] # 0 /\ Draw(Owned("Context", cache[c]) \union S)
    BY <1>26 DEF DrawContext, Draw
  <2>2. Owned("Context", cache[c]) \subseteq live
    <3>1. Holds(c, cache[c])  BY <2>1 DEF HandlesTruthful
    <3> QED  BY <2>1, <3>1, HeldIsLive
  <2>3. \A j \in ShownBy(c), id \in shown[c] : Owned(KindOf[j], id) \subseteq live
    <3>1. \A j \in ShownBy(c), id \in shown[c] : j \in Items /\ Holds(j, id)
      BY <2>1 DEF HandlesTruthful, ShownBy
    <3> QED  BY <2>1, <3>1, HeldIsLive
  <2>4. S \subseteq live  BY <2>3
  <2> QED  BY <1>24, <2>1, <2>2, <2>4
<1> QED
  BY <1>1, <1>2, <1>3, <1>4, <1>5, <1>6, <1>7, <1>8, <1>9, <1>10, <1>11, <1>12, <1>13, <1>14, <1>15,
     <1>17, <1>18, <1>19, <1>20, <1>21, <1>22, <1>23, <1>25, <1>26
  DEF Next, Request, Proceed, Draws

LEMMA OwnerNext ==
    ASSUME ControlInv, OwnerInv, [Next]_vars
    PROVE  OwnerInv'
<1>1. CASE UNCHANGED vars
  BY <1>1 DEF OwnerInv, ObjectsOwned, HandlesTruthful, ListInv, InTables, InHand, NextId, Backbuffers, Holds
<1> QED  BY <1>1, OwnerStep

\* Always, after any failure and any number of frames, the objects that exist
\* are exactly those of the slots, of the item being made and of the present
\* backbuffers: destroy_device() and the error paths of the creations release
\* each of them and nothing else.
THEOREM ObjectsHaveOwners == Spec => []ObjectsOwned
<1>1. ControlInv /\ OwnerInv => ObjectsOwned  BY DEF OwnerInv
<1> QED  BY ControlInit, ControlNext, OwnerInit, OwnerNext, <1>1, PTL DEF Spec

\* Until the device is destroyed no remembered handle, and no handle that a
\* context was made with, leads to a slot of another item, whatever the caches
\* forgot and the tables were given since.
THEOREM HandlesStayTruthful == Spec => []HandlesTruthful
<1>1. ControlInv /\ OwnerInv => HandlesTruthful  BY DEF OwnerInv
<1> QED  BY ControlInit, ControlNext, OwnerInit, OwnerNext, <1>1, PTL DEF Spec

-----------------------------------------------------------------------------
(* What the GPU has still to do *)

Resting == {"idle", "make", "record"}

\* What is queued between two waits exists.
LEMMA RestIsLive ==
    ASSUME RestInv', ObjectsOwned', pc' \in Resting \cup {"present", "gone"}
    PROVE  UsedAreLive'
<1> SUFFICES ASSUME MadeGood', NEW n \in DOMAIN queue'
             PROVE  queue'[n].uses \subseteq live'
  BY DEF UsedAreLive
<1>1. CASE pc' \in Resting
  BY <1>1 DEF RestInv, ObjectsOwned, Resting
<1>2. CASE pc' \in {"present", "gone"}
  <2>1. queue' = <<>>  BY <1>2 DEF RestInv
  <2> QED  BY <2>1, EmptySeq
<1> QED  BY <1>1, <1>2

LEMMA SafeInit == Init => SafeInv
<1>1. SUFFICES ASSUME Init PROVE SafeInv  OBVIOUS
<1>2. DOMAIN queue = {}  BY <1>1, EmptySeq DEF Init
<1>3. event = FALSE /\ pc = "idle" /\ completed = 0 /\ fence = 1 /\ missed = 0  BY <1>1 DEF Init
<1> QED  BY <1>2, <1>3 DEF SafeInv, FlushInv, RestInv, UsedAreLive, Awaiting

LEMMA SafeStep ==
    ASSUME ControlInv, OwnerInv, OwnerInv', SafeInv, Next
    PROVE  SafeInv'
<1> USE DEF ControlInv, OwnerInv, SafeInv
<1>t. ThreadTyped /\ FenceTyped  BY TypeParts
<1>s. Len(queue) \in Nat /\ DOMAIN queue = 1..Len(queue)  BY LenProperties DEF QueueTyped
<1>1. ASSUME pc \in Resting, pc' \in Resting, UNCHANGED <<queue, completed, event, fence, missed, generation>>
      PROVE  SafeInv'
  <2>1. FlushInv'  BY <1>1 DEF FlushInv, EventInv, IsSignal, Resting, Awaiting
  <2>2. RestInv'  BY <1>1 DEF RestInv, Resting, MadeGood, Backbuffers
  <2>3. UsedAreLive'  BY <1>1, <2>2, RestIsLive
  <2> QED  BY <1>1, <2>1, <2>2, <2>3
<1>2. ASSUME StartResize \/ StartDestroy
      PROVE  SafeInv'
  <2>1. /\ pc = "idle" /\ pc' = "signal"
        /\ UNCHANGED <<queue, completed, event, fence, missed, generation, live>>
    BY <1>2 DEF StartResize, StartDestroy, ResizeWaits
  <2>2. FlushInv'  BY <2>1 DEF FlushInv, EventInv, IsSignal, Awaiting
  <2>3. RestInv' /\ UsedAreLive'  BY <2>1 DEF RestInv, UsedAreLive, MadeGood
  <2> QED  BY <2>1, <2>2, <2>3
<1>3. ASSUME Execute
      PROVE  SafeInv'
  <2>1. /\ pc = "record" /\ pc' = "signal" /\ queue' = Append(queue, Batch(list.uses))
        /\ UNCHANGED <<completed, event, fence, missed, live>> /\ list.uses \subseteq live
    BY <1>3 DEF Execute, ListInv
  <2>2. Batch(list.uses) \in Entry  BY DEF Batch, Entry, QueueTyped
  <2>3. /\ DOMAIN queue' = 1..Len(queue) + 1
        /\ \A n \in 1..Len(queue) : queue'[n] = queue[n]
        /\ queue'[Len(queue) + 1] = Batch(list.uses)
    BY <2>1, <2>2, QueueGrows DEF QueueTyped
  <2>4. FlushInv'
    BY <1>s, <2>1, <2>3 DEF FlushInv, EventInv, IsSignal, Awaiting, Batch
  <2>5. UsedAreLive'
    BY <1>s, <2>1, <2>3 DEF UsedAreLive, MadeGood, Batch
  <2>6. RestInv'  BY <2>1 DEF RestInv
  <2> QED  BY <2>1, <2>4, <2>5, <2>6
<1>4. ASSUME SignalFence
      PROVE  SafeInv'
  <2>1. /\ pc = "signal" /\ pc' = "test" /\ queue' = Append(queue, Signal(fence))
        /\ UNCHANGED <<completed, event, fence, missed, live>>
    BY <1>4 DEF SignalFence, SignalValue
  <2>2. Signal(fence) \in Entry  BY <1>t DEF Signal, Entry, FenceTyped
  <2>3. /\ DOMAIN queue' = 1..Len(queue) + 1 /\ Len(queue') = Len(queue) + 1 /\ queue' # <<>>
        /\ \A n \in 1..Len(queue) : queue'[n] = queue[n]
        /\ queue'[Len(queue) + 1] = Signal(fence)
    BY <2>1, <2>2, QueueGrows DEF QueueTyped
  <2>4. ASSUME fence' # missed'
        PROVE  /\ completed' < fence' /\ queue'[Len(queue')] = Signal(fence')
               /\ \A n \in 1..Len(queue') - 1 : IsSignal(n)' => queue'[n].value < fence'
    BY <1>s, <2>1, <2>3, <2>4 DEF FlushInv, IsSignal, Awaiting
  <2>5. event' = FALSE  BY <2>1 DEF EventInv
  <2>6. FlushInv'  BY <2>1, <2>3, <2>4, <2>5 DEF FlushInv, Awaiting
  <2>7. UsedAreLive'
    BY <1>s, <2>1, <2>3 DEF UsedAreLive, MadeGood, Signal
  <2>8. RestInv'  BY <2>1 DEF RestInv
  <2> QED  BY <2>1, <2>6, <2>7, <2>8
<1>5. ASSUME pc \in Awaiting, pc' \in Awaiting, UNCHANGED <<queue, completed, fence, missed, live>>,
             pc' = "finish" \/ event' => completed >= fence \/ event
      PROVE  SafeInv'
  <2>1. FlushInv'
    <3>1. fence' # missed' /\ (pc' = "finish" \/ event') => completed' = fence'
      BY <1>t, <1>5 DEF FlushInv, FenceTyped
    <3>2. IsSignal(1)' = IsSignal(1) /\ \A n : IsSignal(n)' = IsSignal(n)  BY <1>5 DEF IsSignal
    <3> QED  BY <1>5, <3>1, <3>2 DEF FlushInv
  <2>2. RestInv' /\ UsedAreLive'  BY <1>5 DEF RestInv, UsedAreLive, MadeGood, Awaiting
  <2> QED  BY <1>5, <2>1, <2>2
<1>6. ASSUME TestFence
      PROVE  SafeInv'
  BY <1>5, <1>6 DEF TestFence, Passed, Awaiting, EventInv
<1>7. ASSUME Arm
      PROVE  SafeInv'
  <2>1. pc \in Awaiting /\ pc' \in Awaiting /\ pc' # "finish" /\ UNCHANGED <<queue, completed, fence, missed, live>>
    BY <1>7 DEF Arm, Awaiting
  <2>2. event' => completed >= fence
    <3>1. event' = event \/ ~(completed < fence)  BY <1>7 DEF Arm
    <3>2. ~event  BY <1>7 DEF Arm, EventInv
    <3>3. event' => ~(completed < fence)  BY <3>1, <3>2, Zenon
    <3>4. ~(completed < fence) => completed >= fence  BY <1>t DEF FenceTyped
    <3> QED  BY <3>3, <3>4
  <2> QED  BY <1>5, <2>1, <2>2
<1>8. ASSUME Wake
      PROVE  SafeInv'
  BY <1>5, <1>8 DEF Wake, Awaiting
<1>9. ASSUME WaitFails
      PROVE  SafeInv'
  <2>1. missed' = fence /\ fence' = fence /\ fence \in 1..MaxFence + 1
    BY <1>9, <1>t DEF WaitFails, FenceTyped
  <2>2. ~MadeGood'  BY <2>1 DEF MadeGood
  <2> QED  BY <2>1, <2>2 DEF FlushInv, RestInv, UsedAreLive
<1>10. ASSUME pc = "finish", fence' = fence + 1, UNCHANGED <<queue, completed, event, missed>>,
              pc' \in {"idle", "present", "gone"}
       PROVE  SafeInv'
  <2>1. missed' <= fence' /\ event' = FALSE /\ completed' < fence' /\ fence' # missed'
    BY <1>10, <1>t DEF EventInv, FenceTyped
  <2>2. \A n \in DOMAIN queue' : IsSignal(n)' => queue'[n].value < fence'
    BY <1>10, <1>t DEF QueueTyped, IsSignal, FenceTyped
  <2>3. FlushInv'  BY <1>10, <2>1, <2>2 DEF FlushInv, Awaiting
  <2>4. MadeGood' => queue' = <<>>
    <3>1. MadeGood' => fence # missed  BY <1>10, <1>t DEF MadeGood, FenceTyped
    <3>2. fence # missed => queue = <<>>  BY <1>10, <1>t DEF FlushInv, Awaiting, FenceTyped
    <3> QED  BY <1>10, <3>1, <3>2
  <2>5. RestInv' /\ UsedAreLive'
    <3>1. MadeGood' => DOMAIN queue' = {}  BY <2>4, EmptySeq
    <3> QED  BY <2>4, <3>1 DEF RestInv, UsedAreLive
  <2> QED  BY <2>1, <2>3, <2>5
<1>11. ASSUME FinishFrame \/ FinishUpload \/ FinishResize \/ FinishDestroy
       PROVE  SafeInv'
  BY <1>10, <1>11 DEF FinishFrame, FinishUpload, FinishResize, FinishDestroy
<1>12. ASSUME Present
       PROVE  SafeInv'
  <2> DEFINE e == Shown(<<"Backbuffer", generation, index>>)
  <2>1. /\ pc = "present" /\ pc' = "idle" /\ queue' = Append(queue, e)
        /\ UNCHANGED <<completed, event, fence, missed, generation>>
    BY <1>12 DEF Present
  <2>2. e \in Entry  BY <1>t DEF Shown, Entry, Objects, ThreadTyped
  <2>3. e.op = "present" /\ e.uses \subseteq Backbuffers(generation)
    BY <1>t DEF Shown, Backbuffers, Parts, ThreadTyped
  <2> HIDE DEF e
  <2>4. /\ DOMAIN queue' = 1..Len(queue) + 1
        /\ \A n \in 1..Len(queue) : queue'[n] = queue[n]
        /\ queue'[Len(queue) + 1] = e
    BY <2>1, <2>2, QueueGrows DEF QueueTyped
  <2>5. FlushInv'
    BY <1>s, <2>1, <2>3, <2>4 DEF FlushInv, EventInv, IsSignal, Awaiting
  <2>6. RestInv'
    <3>1. SUFFICES ASSUME MadeGood', NEW n \in DOMAIN queue'
                   PROVE  queue'[n].op # "batch" /\ queue'[n].uses \subseteq Backbuffers(generation)'
      BY <2>1 DEF RestInv
    <3>2. queue = <<>>  BY <2>1, <3>1 DEF RestInv, MadeGood
    <3>3. Len(queue) = 0  BY <3>2, EmptySeq
    <3>4. n = Len(queue) + 1  BY <2>4, <3>1, <3>3
    <3>5. queue'[n] = e  BY <2>4, <3>4
    <3>6. Backbuffers(generation)' = Backbuffers(generation)  BY <2>1 DEF Backbuffers
    <3>7. e.op # "batch"  BY <2>3
    <3> QED  BY <2>3, <3>5, <3>6, <3>7
  <2>7. UsedAreLive'  BY <2>1, <2>6, RestIsLive DEF Resting
  <2> QED  BY <2>1, <2>5, <2>6, <2>7
<1>13. ASSUME GpuStep
       PROVE  SafeInv'
  <2>1. /\ queue # <<>> /\ queue' = Tail(queue) /\ UNCHANGED <<pc, fence, missed, live, generation>>
        /\ IF IsSignal(1) THEN completed' = queue[1].value ELSE completed' = completed
        /\ ~IsSignal(1) => event' = event
    BY <1>13, QueueShrinks DEF GpuStep, QueueTyped, IsSignal
  <2>2. /\ Len(queue) \in Nat \ {0}
        /\ Len(queue') = Len(queue) - 1 /\ DOMAIN queue' = 1..Len(queue) - 1
        /\ \A n \in 1..Len(queue) - 1 : queue'[n] = queue[n + 1]
        /\ Len(queue) = 1 => queue' = <<>>
    BY <2>1, QueueShrinks DEF QueueTyped
  <2>3. UsedAreLive'  BY <1>s, <2>1, <2>2 DEF UsedAreLive, MadeGood
  <2>4. RestInv'
    <3>1. ~(MadeGood /\ pc \in {"present", "gone"})  BY <2>1 DEF RestInv
    <3> QED  BY <1>s, <2>1, <2>2, <3>1 DEF RestInv, MadeGood, Backbuffers
  <2>5. FlushInv'
    <3>1. SUFFICES ASSUME fence # missed
                   PROVE  FlushInv'
      BY <2>1 DEF FlushInv
    <3>2. CASE pc \notin Awaiting
      <4>1. completed' < fence' /\ \A n \in DOMAIN queue' : IsSignal(n)' => queue'[n].value < fence'
        BY <1>s, <2>1, <2>2, <3>1, <3>2 DEF FlushInv, IsSignal
      <4>2. event' = FALSE
        BY <1>13, <3>2 DEF GpuStep, EventInv, Awaiting
      <4> QED  BY <2>1, <3>2, <4>1, <4>2 DEF FlushInv, Awaiting
    <3>3. CASE pc \in Awaiting
      <4>1. /\ completed < fence /\ queue[Len(queue)] = Signal(fence)
            /\ \A n \in 1..Len(queue) - 1 : IsSignal(n) => queue[n].value < fence
            /\ pc # "finish" /\ ~event
        BY <1>t, <2>1, <3>1, <3>3 DEF FlushInv, FenceTyped
      <4>2. CASE Len(queue) = 1
        <5>1. completed' = fence /\ queue' = <<>>
          BY <2>1, <2>2, <4>1, <4>2 DEF IsSignal, Signal
        <5> QED  BY <2>1, <3>3, <5>1 DEF FlushInv
      <4>3. CASE Len(queue) # 1
        <5>1. completed' < fence
          BY <2>1, <2>2, <4>1, <4>3
        <5>2. queue' # <<>>
          <6>1. Len(queue') # 0  BY <2>2, <4>3
          <6> QED  BY <6>1, EmptySeq
        <5>3. queue'[Len(queue')] = Signal(fence)
          BY <2>2, <4>1, <4>3
        <5>4. \A n \in 1..Len(queue') - 1 : IsSignal(n)' => queue'[n].value < fence
          BY <2>2, <4>1, <4>3 DEF IsSignal
        <5>5. ~event'
          <6>1. CASE ~IsSignal(1)  BY <2>1, <4>1, <6>1
          <6>2. CASE IsSignal(1)
            <7>1. queue[1].value < fence  BY <2>2, <4>1, <4>3, <6>2
            <7>2. armed = 0 \/ armed = fence  BY DEF EventInv
            <7>3. Head(queue) = queue[1] /\ queue[1].value \in Nat
              BY <1>s, <2>1, <2>2, <6>2, QueueShrinks DEF QueueTyped
            <7>4. ~(armed # 0 /\ armed <= Head(queue).value)
              BY <1>t, <7>1, <7>2, <7>3 DEF FenceTyped
            <7> QED  BY <1>13, <4>1, <7>4 DEF GpuStep
          <6> QED  BY <6>1, <6>2
        <5> QED  BY <2>1, <3>3, <4>1, <5>1, <5>2, <5>3, <5>4, <5>5 DEF FlushInv
      <4> QED  BY <4>2, <4>3
    <3> QED  BY <3>2, <3>3
  <2> QED  BY <2>1, <2>3, <2>4, <2>5
<1>14. ASSUME \/ \E i \in Items : Realize(i)
              \/ ClearResources \/ ClearPipelines \/ BeginFrame
              \/ CreateObject \/ CreateFails \/ Store \/ RecordCopy
       PROVE  SafeInv'
  <2>1. /\ pc \in Resting /\ pc' \in Resting
        /\ UNCHANGED <<queue, completed, event, fence, missed, generation>>
    <3>1. CASE \E i \in Items : Realize(i)  BY <3>1 DEF Realize, Resting
    <3>2. CASE ClearResources \/ ClearPipelines  BY <3>2 DEF ClearResources, ClearPipelines, Resting
    <3>3. CASE BeginFrame \/ CreateObject \/ CreateFails \/ RecordCopy
      BY <3>3 DEF BeginFrame, CreateObject, CreateFails, RecordCopy, Resting
    <3>4. CASE Store  BY <3>4 DEF Store, Resting
    <3> QED  BY <1>14, <3>1, <3>2, <3>3, <3>4
  <2> QED  BY <1>1, <2>1
<1>15. ASSUME Draws
       PROVE  SafeInv'
  <2>1. ASSUME NEW os, Draw(os)
        PROVE  SafeInv'
    BY <1>1, <2>1 DEF Draw, Resting
  <2>2. CASE DrawResolved  BY <2>1, <2>2 DEF DrawResolved
  <2>3. ASSUME NEW c \in Items, DrawContext(c)
        PROVE  SafeInv'
    <3> DEFINE S == UNION {Owned(KindOf[j], id) : j \in ShownBy(c), id \in shown[c]}
    <3>1. Draw(Owned("Context", cache[c]) \union S)  BY <2>3 DEF DrawContext
    <3> QED  BY <2>1, <3>1
  <2> QED  BY <1>15, <2>2, <2>3 DEF Draws
<1> QED
  BY <1>2, <1>3, <1>4, <1>6, <1>7, <1>8, <1>9, <1>11, <1>12, <1>13, <1>14, <1>15 DEF Next, Request, Proceed

LEMMA SafeNext ==
    ASSUME ControlInv, OwnerInv, OwnerInv', SafeInv, [Next]_vars
    PROVE  SafeInv'
<1>1. CASE UNCHANGED vars
  BY <1>1 DEF SafeInv, FlushInv, RestInv, UsedAreLive, MadeGood, IsSignal, Backbuffers
<1> QED  BY <1>1, SafeStep

\* No frame, upload, resize or destruction releases an object, or resets the
\* allocator, that work in the GPU's queue refers to, however the calls, the
\* presents and the GPU interleave, unless a wait for an upload failed one or
\* two signals ago.
THEOREM QueuedWorkIsSafe == Spec => []QueuedAreSafe
<1>1. ControlInv /\ OwnerInv /\ SafeInv => QueuedAreSafe
  <2>1. ASSUME OwnerInv, SafeInv
        PROVE  QueuedAreSafe
    <3>1. list.open => pc = "record"  BY <2>1 DEF OwnerInv, ListInv, Closed
    <3> QED  BY <2>1, <3>1 DEF SafeInv, RestInv, QueuedAreSafe, AllocatorIdle
  <2> QED  BY <2>1
<1> QED
  BY ControlInit, ControlNext, OwnerInit, OwnerNext, SafeInit, SafeNext, <1>1, PTL DEF Spec
=============================================================================
