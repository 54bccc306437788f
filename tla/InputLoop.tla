----------------------------- MODULE InputLoop -----------------------------
(***************************************************************************)
(* The main thread of the engine (src/src/engine/engine.cpp): the loop     *)
(* drains event_queue, reconstructs the frame's InputState and runs the    *)
(* application's update, whose first jobs pump the operating system's      *)
(* messages, poll the window's own queue and decide whether to stop.       *)
(*                                                                         *)
(* Messages are dispatched, and both queues filled, only while update      *)
(* pumps; the frame's input was drained before.  A window message thus     *)
(* takes two ways to the application: the window queue is read in the same *)
(* frame, event_queue in the next.  Both queues drop what does not fit.    *)
(*                                                                         *)
(* External: the operating system's message queue, in order, and the two   *)
(* rings of wozzits-core.  No message hook is installed by any program of  *)
(* the repository.                                                         *)
(***************************************************************************)
EXTENDS Integers, Sequences

CONSTANTS
    Keys,        \* keys and mouse buttons
    Buttons,     \* those whose packet may also carry mouse movement
    Esc,         \* the key that ends the program
    Sizes,       \* client sizes of the window; 0 is a minimised window
    Size0,       \* the size it is created with
    EventCap,    \* event_queue holds MAX_EVENTS
    WindowCap,   \* the window's queue holds QUEUE_SIZE
    MaxPosts     \* bound: messages the operating system posts

ASSUME InputAssumption ==
    /\ Buttons \subseteq Keys /\ Esc \in Keys \ Buttons
    /\ Sizes \subseteq Nat /\ 0 \in Sizes /\ Size0 \in Sizes \ {0}
    /\ EventCap \in Nat \ {0} /\ WindowCap \in Nat \ {0} /\ MaxPosts \in Nat

VARIABLES
    pc,        \* where the main thread is
    running,   \* Context::running
    prev,      \* prev_input.keyboard.down and mouse.down
    input,     \* fctx.input
    events,    \* wz::event::event_queue
    window,    \* NativeWindow::event_queue
    closing,   \* NativeWindow::should_close
    gpu,       \* size of the swapchain
    view,      \* size the view of the frame was built for; 0: the fallback

    os,        \* messages not yet dispatched
    held,      \* keys that are physically down
    client,    \* size of the window in the last WM_SIZE
    posts      \* bound

\* History: what the queues have dropped and not replaced since.
VARIABLES
    lostKeys,  \* keys whose last edge is not in event_queue's stream
    lostView,  \* the last WM_SIZE did not fit into event_queue
    lostGpu    \* the last WM_SIZE of a visible window did not fit into the window queue

lost == <<lostKeys, lostView, lostGpu>>
world == <<os, held, client, posts>>
app  == <<running, prev, input, gpu, view>>
vars == <<pc, app, events, window, closing, world, lost>>

Edge(k, on) == [kind |-> "edge", key |-> k, on |-> on]
Sized(s)    == [kind |-> "size", size |-> s]
Other       == [kind |-> "other"]
CloseMsg    == [kind |-> "close"]

IsEdge(e, k) == e.kind = "edge" /\ e.key = k
IsSize(e) == e.kind = "size"
Edges(q, k) == {i \in DOMAIN q : IsEdge(q[i], k)}
Resizes(q) == {i \in DOMAIN q : IsSize(q[i])}

\* The element of q with the greatest of the indices I.
LastAt(q, I) == q[CHOOSE i \in I : \A j \in I : j <= i]

\* create_window() has shown the window, which sends WM_SIZE, and the device
\* was created for that size; run() starts with an empty InputState.
Init ==
    /\ pc = "start" /\ running = TRUE
    /\ prev = {} /\ input = [down |-> {}, pressed |-> {}, released |-> {}, size |-> 0]
    /\ events = <<Sized(Size0)>> /\ window = <<Sized(Size0)>>
    /\ closing = FALSE /\ gpu = Size0 /\ view = 0
    /\ os = <<>> /\ held = {} /\ client = Size0 /\ posts = 0
    /\ lostKeys = {} /\ lostView = FALSE /\ lostGpu = FALSE

-----------------------------------------------------------------------------
(* The operating system, at any time *)

Post(m) == posts < MaxPosts /\ posts' = posts + 1 /\ os' = Append(os, m)
Alone == UNCHANGED <<pc, app, events, window, closing, client, lost>>

\* A key goes down, and is reported again and again while it is held.
KeyDown(k) ==
    /\ Post(Edge(k, TRUE))
    /\ held' = held \cup {k}
    /\ k \in Buttons => k \notin held
    /\ Alone

KeyUp(k) ==
    /\ k \in held
    /\ Post(Edge(k, FALSE))
    /\ held' = held \ {k}
    /\ Alone

\* A button changes in the same packet as the mouse moves.
ButtonWhileMoving(k) ==
    /\ Post([kind |-> "masked", key |-> k])
    /\ held' = IF k \in held THEN held \ {k} ELSE held \cup {k}
    /\ Alone

\* "other" is mouse movement, a wheel step, a change of focus.
PostOther ==
    /\ \E m \in {Other, CloseMsg, [kind |-> "mouse"]} \cup {Sized(s) : s \in Sizes} : Post(m)
    /\ UNCHANGED held /\ Alone

-----------------------------------------------------------------------------
(* run() *)

Run ==
    /\ pc = "start"
    /\ pc' = "test"
    /\ running' = TRUE
    /\ UNCHANGED <<prev, input, gpu, view, events, window, closing, world, lost>>

\* wz::engine::shutdown(), from anywhere in the program.
Shutdown ==
    /\ running' = FALSE
    /\ UNCHANGED <<pc, prev, input, gpu, view, events, window, closing, world, lost>>

\* build_input(): edges and sums of this frame only, states from the last one.
KeepPressed(old, es) == old.pressed \cup {k \in Keys : \E i \in DOMAIN es : es[i] = Edge(k, TRUE)}
Pressed(old, es) == {k \in Keys : \E i \in DOMAIN es : es[i] = Edge(k, TRUE)}
Released(es) == {k \in Keys : \E i \in DOMAIN es : es[i] = Edge(k, FALSE)}

DownAny(old, es) == (old.down \cup Pressed(old, es)) \ Released(es)
Down(old, es) ==
    {k \in Keys : IF Edges(es, k) # {} THEN LastAt(es, Edges(es, k)).on ELSE k \in old.down}

SizeNow(old, es) == IF Resizes(es) # {} THEN LastAt(es, Resizes(es)).size ELSE old.size

BuildInput(old, es) ==
    [down |-> Down(old, es), pressed |-> Pressed(old, es), released |-> Released(es),
     size |-> SizeNow(old, es)]

\* One turn of the loop: the queue is drained and the input built from it.
Frame ==
    /\ pc = "test" /\ running
    /\ prev' = input.down
    /\ input' = BuildInput(input, events)
    /\ events' = <<>>
    /\ pc' = "pump"
    /\ UNCHANGED <<running, gpu, view, window, closing, world, lost>>

Leave ==
    /\ pc = "test" /\ ~running
    /\ pc' = "ended"
    /\ UNCHANGED <<app, events, window, closing, world, lost>>

-----------------------------------------------------------------------------
(* pump_messages(): ri_process_input() and WindowProc() *)

PushEvent(e) == events' = IF Len(events) < EventCap THEN Append(events, e) ELSE events
PushWindow(e) == window' = IF Len(window) < WindowCap THEN Append(window, e) ELSE window

OnEdge(m) ==
    /\ m.kind = "edge"
    /\ PushEvent(m)
    /\ lostKeys' = IF Len(events) < EventCap THEN lostKeys \ {m.key} ELSE lostKeys \cup {m.key}
    /\ UNCHANGED <<window, closing, client, lostView, lostGpu>>

\* Movement comes first in ri_process_input(): a packet makes one event.
OnMasked(m) ==
    /\ m.kind = "masked"
    /\ PushEvent(Other)
    /\ lostKeys' = lostKeys \cup {m.key}
    /\ UNCHANGED <<window, closing, client, lostView, lostGpu>>

OnOther(m) ==
    /\ m.kind = "other"
    /\ PushEvent(Other)
    /\ UNCHANGED <<window, closing, client, lost>>

\* WM_MOUSEMOVE and WM_KEYDOWN take a place in the window queue.
OnMouse(m) ==
    /\ m.kind = "mouse"
    /\ PushWindow(Other)
    /\ UNCHANGED <<events, closing, client, lost>>

SizeToWindowOnly(s) == PushWindow(Sized(s)) /\ UNCHANGED events
SizeToBoth(s) == PushWindow(Sized(s)) /\ PushEvent(Sized(s))

OnSize(m) ==
    /\ m.kind = "size"
    /\ SizeToBoth(m.size)
    /\ client' = m.size
    /\ lostView' = (Len(events) >= EventCap)
    /\ lostGpu' = IF m.size = 0 THEN lostGpu ELSE Len(window) >= WindowCap
    /\ UNCHANGED <<closing, lostKeys>>

OnClose(m) ==
    /\ m.kind = "close"
    /\ closing' = TRUE
    /\ PushWindow(CloseMsg)
    /\ UNCHANGED <<events, client, lost>>

Dispatch ==
    /\ pc = "pump" /\ os # <<>>
    /\ os' = Tail(os)
    /\ LET m == Head(os) IN
          OnEdge(m) \/ OnMasked(m) \/ OnOther(m) \/ OnMouse(m) \/ OnSize(m) \/ OnClose(m)
    /\ UNCHANGED <<pc, app, held, posts>>

PumpEnds ==
    /\ pc = "pump" /\ os = <<>>
    /\ pc' = "poll"
    /\ UNCHANGED <<app, events, window, closing, world, lost>>

-----------------------------------------------------------------------------
(* The jobs platform_events, shutdown_input and build_view *)

\* The window queue is polled until it is empty; a size is given to the
\* swapchain unless the window is minimised.
AnySize(e) == IsSize(e)
Visible(e) == IsSize(e) /\ e.size > 0

Poll ==
    /\ pc = "poll" /\ window # <<>>
    /\ window' = Tail(window)
    /\ gpu' = IF Visible(Head(window)) THEN Head(window).size ELSE gpu
    /\ running' = (running /\ Head(window).kind # "close")
    /\ UNCHANGED <<pc, prev, input, view, events, closing, world, lost>>

CloseTest == running /\ ~closing

PollEnds ==
    /\ pc = "poll" /\ window = <<>>
    /\ running' = CloseTest
    /\ pc' = "jobs"
    /\ UNCHANGED <<prev, input, gpu, view, events, window, closing, world, lost>>

EscHeld == Esc \in input.down
EscPressed == Esc \in input.pressed

\* The later jobs build the view from the input of this frame, and render()
\* follows; then the loop tests its flag again.
Jobs ==
    /\ pc = "jobs"
    /\ running' = (running /\ ~EscPressed)
    /\ view' = input.size
    /\ pc' = "test"
    /\ UNCHANGED <<prev, input, gpu, events, window, closing, world, lost>>

-----------------------------------------------------------------------------
Main == Run \/ Frame \/ Leave \/ Dispatch \/ PumpEnds \/ Poll \/ PollEnds \/ Jobs

Next ==
    \/ \E k \in Keys : KeyDown(k) \/ KeyUp(k)
    \/ \E k \in Buttons : ButtonWhileMoving(k)
    \/ PostOther
    \/ Shutdown
    \/ Main

Spec == Init /\ [][Next]_vars

\* The main thread keeps running; nobody has to press, close or shut down.
FairSpec == Spec /\ WF_vars(Main)

-----------------------------------------------------------------------------
(* Properties *)

InputType == [down : SUBSET Keys, pressed : SUBSET Keys, released : SUBSET Keys, size : Sizes]
EdgeType == [kind : {"edge"}, key : Keys, on : BOOLEAN]
SizeType == [kind : {"size"}, size : Sizes]

\* Every variable of the loop has its type and no queue outgrows its ring.
TypeOK ==
    /\ pc \in {"start", "test", "pump", "poll", "jobs", "ended"}
    /\ running \in BOOLEAN /\ closing \in BOOLEAN
    /\ prev \subseteq Keys /\ input \in InputType
    /\ events \in Seq(EdgeType \cup SizeType \cup {Other}) /\ Len(events) <= EventCap
    /\ window \in Seq(SizeType \cup {Other, CloseMsg}) /\ Len(window) <= WindowCap
    /\ gpu \in Sizes \ {0} /\ view \in Sizes
    /\ os \in Seq(EdgeType \cup SizeType \cup [kind : {"masked"}, key : Keys]
                      \cup [kind : {"other", "close", "mouse"}])
    /\ held \subseteq Keys /\ client \in Sizes /\ posts \in 0..MaxPosts
    /\ lostKeys \subseteq Keys /\ lostView \in BOOLEAN /\ lostGpu \in BOOLEAN

Pending(k) == \E i \in DOMAIN os : os[i].kind \in {"edge", "masked"} /\ os[i].key = k

\* What the frames know of a key, with the edges that wait in event_queue, is
\* what the user is doing, unless its last edge was dropped: no frame boundary
\* loses, repeats or reorders an edge (run(), build_input()).
KeysFollow ==
    \A k \in Keys \ lostKeys : ~Pending(k) => (k \in Down(input, events) <=> k \in held)

\* Between the inputs of two frames a key changes only with the edge that
\* explains it, and every edge shown is explained by a state: edges of an
\* earlier frame never show again (phase 1 of build_input()).
EdgesExplain ==
    /\ input.down \ prev \subseteq input.pressed
    /\ prev \ input.down \subseteq input.released
    /\ input.pressed \subseteq input.down \cup input.released
    /\ input.released \cap input.down \subseteq input.pressed

Visibles(w) == {i \in DOMAIN w : Visible(w[i])}
Polled(w, g) == IF Visibles(w) # {} THEN LastAt(w, Visibles(w)).size ELSE g

\* The swapchain has the size of the visible window once the window queue is
\* polled, unless the last size was dropped or the window is minimised.
GpuFollows ==
    ~lostGpu /\ client > 0 => Polled(window, gpu) = client

\* When a frame is rendered with a view for another size than the swapchain's,
\* the window is minimised or the next frame's input brings the right size:
\* the two queues are never apart by more than one frame.
ViewOneFrameLate ==
    pc = "test" /\ view # gpu /\ ~lostView /\ ~lostGpu =>
        client = 0 \/ SizeNow(input, events) = gpu

\* The sizes that WM_SIZE puts in two queues, read at different moments of a
\* frame, stay with the window and with each other (win32.cpp:242-262).
SizesAgree == GpuFollows /\ ViewOneFrameLate

\* WM_CLOSE ends the loop, even when the window queue has no room for the
\* event: should_close is tested besides (job_platform_events()).
CloseEndsLoop == closing ~> pc = "ended"

\* A press of ESC that reached event_queue ends the loop, even when the key is
\* released before the frame sees it (job_shutdown_input()).
EscEndsLoop == (pc # "ended" /\ \E i \in DOMAIN events : events[i] = Edge(Esc, TRUE)) ~> pc = "ended"

\* A shutdown() while run() loops ends it; only one before run() is lost
\* (engine.cpp:22).
ShutdownEndsLoop == (pc # "start" /\ ~running) ~> pc = "ended"

\* Whichever way the user or the program asks for the end, the loop ends (run()).
AskedToEnd == CloseEndsLoop /\ EscEndsLoop /\ ShutdownEndsLoop

\* input.h: pressed means that the key went down in this frame.
PressedIsTransition == \A k \in input.pressed : k \in prev => k \in input.released
=============================================================================
