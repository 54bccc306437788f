-------------------------- MODULE InputLoopProofs --------------------------
(***************************************************************************)
(* For every set of keys and sizes, every capacity of the two queues and   *)
(* any number of messages: the types of InputLoop, and that what a frame   *)
(* sees of keys and sizes is what the user and the window did.             *)
(***************************************************************************)
EXTENDS InputLoop, SequenceTheorems, WellFoundedInduction, NaturalsInduction, TLAPS

Events == EdgeType \cup SizeType \cup {Other}
WindowEvents == SizeType \cup {Other, CloseMsg}
Messages ==
    EdgeType \cup SizeType \cup [kind : {"masked"}, key : Keys] \cup [kind : {"other", "close", "mouse"}]

USE DEF app, world, lost

-----------------------------------------------------------------------------
(* The last of several *)

\* What a message carries is told by its kind.
LEMMA KindTells ==
    ASSUME NEW m \in Messages \cup WindowEvents
    PROVE  /\ m.kind = "edge" => m \in EdgeType
           /\ m.kind = "size" => m \in SizeType
           /\ m.kind = "masked" => m.key \in Keys
<1>1. CASE m \in EdgeType  BY <1>1 DEF EdgeType
<1>2. CASE m \in SizeType  BY <1>2 DEF SizeType
<1>3. CASE m \in [kind : {"masked"}, key : Keys]  BY <1>3
<1>4. CASE m \in [kind : {"other", "close", "mouse"}] \cup {Other, CloseMsg}  BY <1>4 DEF Other, CloseMsg
<1> QED  BY <1>1, <1>2, <1>3, <1>4 DEF Messages, WindowEvents

\* A set of indices of a sequence has a greatest one.
LEMMA Greatest ==
    ASSUME NEW n \in Nat, NEW T, T \subseteq 1..n, T # {}
    PROVE  \E i \in T : \A j \in T : j <= i
<1> DEFINE Behind == {n - i : i \in T}
<1>0. \A i \in T : i \in Int /\ n - i \in Nat  OBVIOUS
<1>1. Behind \subseteq Nat /\ Behind # {}  BY <1>0
<1>2. PICK x \in Behind : \A y \in Behind : ~(<<y, x>> \in OpToRel(<, Nat))
  BY <1>1, NatLessThanWellFounded, WFMin
<1>3. \A y \in Behind : x <= y
  <2> TAKE y \in Behind
  <2>1. x \in Nat /\ y \in Nat  BY <1>1
  <2>2. ~(y < x)  BY <1>2, <2>1 DEF OpToRel
  <2> QED  BY <2>1, <2>2
<1>4. PICK i \in T : x = n - i  OBVIOUS
<1>5. \A j \in T : n - i <= n - j  BY <1>3, <1>4
<1>6. \A j \in T : j <= i  BY <1>0, <1>5
<1> QED  BY <1>6

\* LastAt is the element of the greatest index.
LEMMA LastIs ==
    ASSUME NEW q, NEW I, I \subseteq Int, NEW i \in I, \A j \in I : j <= i
    PROVE  LastAt(q, I) = q[i]
<1>1. \A x \in I : (\A j \in I : j <= x) => x = i  OBVIOUS
<1>2. (CHOOSE x \in I : \A j \in I : j <= x) = i  BY <1>1
<1> QED  BY <1>2 DEF LastAt

\* A non-empty set of indices of a sequence has a last element.
LEMMA LastFound ==
    ASSUME NEW S, NEW q \in Seq(S), NEW I, I \subseteq DOMAIN q, I # {}
    PROVE  \E i \in I : LastAt(q, I) = q[i] /\ \A j \in I : j <= i
<1>1. DOMAIN q = 1..Len(q) /\ Len(q) \in Nat  BY LenProperties
<1>2. PICK i \in I : \A j \in I : j <= i  BY <1>1, Greatest
<1>3. LastAt(q, I) = q[i]  BY <1>1, <1>2, LastIs
<1> QED  BY <1>2, <1>3

\* Of the same indices, the last element of a longer sequence is that of the shorter.
LEMMA LastKept ==
    ASSUME NEW S, NEW q \in Seq(S), NEW e \in S, NEW I, I \subseteq DOMAIN q, I # {}
    PROVE  LastAt(Append(q, e), I) = LastAt(q, I)
<1>1. PICK i \in I : LastAt(q, I) = q[i] /\ \A j \in I : j <= i  BY LastFound
<1>2. DOMAIN q = 1..Len(q) /\ Len(q) \in Nat /\ Append(q, e)[i] = q[i]
  BY LenProperties, AppendProperties
<1>3. I \subseteq Int  BY <1>2
<1>4. LastAt(Append(q, e), I) = Append(q, e)[i]
  <2> DEFINE a == Append(q, e)
  <2> HIDE DEF a
  <2>1. LastAt(a, I) = a[i]  BY <1>1, <1>3, LastIs
  <2> QED  BY <2>1 DEF a
<1> QED  BY <1>1, <1>2, <1>4

\* An element just appended is the last of the indices that contain its own.
LEMMA LastNew ==
    ASSUME NEW S, NEW q \in Seq(S), NEW e \in S, NEW I, I \subseteq DOMAIN q
    PROVE  LastAt(Append(q, e), I \cup {Len(q) + 1}) = e
<1>1. DOMAIN q = 1..Len(q) /\ Len(q) \in Nat /\ Append(q, e)[Len(q) + 1] = e
  BY LenProperties, AppendProperties
<1> DEFINE a == Append(q, e)
           n == Len(q) + 1
           J == I \cup {n}
<1>2. J \subseteq Int /\ n \in J /\ \A j \in J : j <= n  BY <1>1
<1> HIDE DEF a, n, J
<1>3. LastAt(a, J) = a[n]  BY <1>2, LastIs
<1> QED  BY <1>1, <1>3 DEF a, n, J

-----------------------------------------------------------------------------
(* What one more event changes *)

LEMMA DownTyped == ASSUME NEW old, NEW es PROVE Down(old, es) \subseteq Keys
  BY DEF Down

LEMMA DownEmpty ==
    ASSUME NEW old, old.down \subseteq Keys
    PROVE  Down(old, <<>>) = old.down
<1>1. \A k \in Keys : Edges(<<>>, k) = {}  BY DEF Edges
<1> QED  BY <1>1 DEF Down

LEMMA DownWithEdge ==
    ASSUME NEW old, NEW es \in Seq(Events), NEW m \in EdgeType, NEW x \in Keys
    PROVE  x \in Down(old, Append(es, m)) <=> IF x = m.key THEN m.on ELSE x \in Down(old, es)
<1> DEFINE q == Append(es, m)
<1>1. m \in Events /\ m.kind = "edge" /\ m.on \in BOOLEAN  BY DEF Events, EdgeType
<1>2. /\ DOMAIN q = 1..Len(es) + 1 /\ DOMAIN es = 1..Len(es) /\ Len(es) \in Nat
      /\ q[Len(es) + 1] = m /\ \A i \in 1..Len(es) : q[i] = es[i]
  BY <1>1, AppendProperties, LenProperties
<1>3. Edges(es, x) \subseteq DOMAIN es  BY DEF Edges
<1>4. CASE x = m.key
  <2>1. Edges(q, x) = Edges(es, x) \cup {Len(es) + 1}  BY <1>1, <1>2, <1>4 DEF Edges, IsEdge
  <2>2. LastAt(q, Edges(q, x)) = m  BY <1>1, <1>3, <2>1, LastNew
  <2> QED  BY <1>4, <2>1, <2>2 DEF Down
<1>5. CASE x # m.key
  <2>1. Edges(q, x) = Edges(es, x)  BY <1>1, <1>2, <1>5 DEF Edges, IsEdge
  <2>2. Edges(es, x) # {} => LastAt(q, Edges(es, x)) = LastAt(es, Edges(es, x))
    BY <1>1, <1>3, LastKept
  <2> QED  BY <1>5, <2>1, <2>2 DEF Down
<1> QED  BY <1>4, <1>5

\* An event that is no edge changes no key.
LEMMA DownWithOther ==
    ASSUME NEW old, NEW es \in Seq(Events), NEW m \in Events, m.kind # "edge", NEW x \in Keys
    PROVE  x \in Down(old, Append(es, m)) <=> x \in Down(old, es)
<1> DEFINE q == Append(es, m)
<1>1. /\ DOMAIN q = 1..Len(es) + 1 /\ DOMAIN es = 1..Len(es) /\ Len(es) \in Nat
      /\ q[Len(es) + 1] = m /\ \A i \in 1..Len(es) : q[i] = es[i]
  BY AppendProperties, LenProperties
<1>2. Edges(es, x) \subseteq DOMAIN es  BY DEF Edges
<1>3. Edges(q, x) = Edges(es, x)  BY <1>1 DEF Edges, IsEdge
<1>4. Edges(es, x) # {} => LastAt(q, Edges(es, x)) = LastAt(es, Edges(es, x))
  BY <1>2, LastKept
<1> QED  BY <1>3, <1>4 DEF Down

LEMMA SizeEmpty == ASSUME NEW old PROVE SizeNow(old, <<>>) = old.size
<1>1. Resizes(<<>>) = {}  BY DEF Resizes
<1> QED  BY <1>1 DEF SizeNow

LEMMA SizeWith ==
    ASSUME NEW old, NEW es \in Seq(Events), NEW m \in Events
    PROVE  SizeNow(old, Append(es, m)) = IF IsSize(m) THEN m.size ELSE SizeNow(old, es)
<1> DEFINE q == Append(es, m)
<1>1. /\ DOMAIN q = 1..Len(es) + 1 /\ DOMAIN es = 1..Len(es) /\ Len(es) \in Nat
      /\ q[Len(es) + 1] = m /\ \A i \in 1..Len(es) : q[i] = es[i]
  BY AppendProperties, LenProperties
<1>2. Resizes(es) \subseteq DOMAIN es  BY DEF Resizes
<1>3. CASE IsSize(m)
  <2>1. Resizes(q) = Resizes(es) \cup {Len(es) + 1}  BY <1>1, <1>3 DEF Resizes
  <2>2. LastAt(q, Resizes(q)) = m  BY <1>2, <2>1, LastNew
  <2> QED  BY <1>3, <2>1, <2>2 DEF SizeNow
<1>4. CASE ~IsSize(m)
  <2>1. Resizes(q) = Resizes(es)  BY <1>1, <1>4 DEF Resizes
  <2>2. Resizes(es) # {} => LastAt(q, Resizes(es)) = LastAt(es, Resizes(es))  BY <1>2, LastKept
  <2> QED  BY <1>4, <2>1, <2>2 DEF SizeNow
<1> QED  BY <1>3, <1>4

\* The size a frame takes is one of a window.
LEMMA SizeTyped ==
    ASSUME NEW old, old.size \in Sizes, NEW es \in Seq(Events)
    PROVE  SizeNow(old, es) \in Sizes
<1>1. CASE Resizes(es) = {}  BY <1>1 DEF SizeNow
<1>2. CASE Resizes(es) # {}
  <2>1. PICK i \in Resizes(es) : LastAt(es, Resizes(es)) = es[i]
    BY <1>2, LastFound DEF Resizes
  <2>2. es[i] \in Events /\ IsSize(es[i])  BY <2>1, ElementOfSeq, LenProperties DEF Resizes
  <2>3. es[i].size \in Sizes  BY <2>2 DEF Events, EdgeType, SizeType, Other, IsSize
  <2> QED  BY <1>2, <2>1, <2>3 DEF SizeNow
<1> QED  BY <1>1, <1>2

-----------------------------------------------------------------------------
(* What the window queue makes of the swapchain *)

LEMMA PolledEmpty == ASSUME NEW g PROVE Polled(<<>>, g) = g
<1>1. Visibles(<<>>) = {}  BY DEF Visibles
<1> QED  BY <1>1 DEF Polled

LEMMA PolledWith ==
    ASSUME NEW w \in Seq(WindowEvents), NEW e \in WindowEvents, NEW g
    PROVE  Polled(Append(w, e), g) = IF Visible(e) THEN e.size ELSE Polled(w, g)
<1> DEFINE q == Append(w, e)
<1>1. /\ DOMAIN q = 1..Len(w) + 1 /\ DOMAIN w = 1..Len(w) /\ Len(w) \in Nat
      /\ q[Len(w) + 1] = e /\ \A i \in 1..Len(w) : q[i] = w[i]
  BY AppendProperties, LenProperties
<1>2. Visibles(w) \subseteq DOMAIN w  BY DEF Visibles
<1>3. CASE Visible(e)
  <2>1. Visibles(q) = Visibles(w) \cup {Len(w) + 1}  BY <1>1, <1>3 DEF Visibles
  <2>2. LastAt(q, Visibles(q)) = e  BY <1>2, <2>1, LastNew
  <2> QED  BY <1>3, <2>1, <2>2 DEF Polled
<1>4. CASE ~Visible(e)
  <2>1. Visibles(q) = Visibles(w)  BY <1>1, <1>4 DEF Visibles
  <2>2. Visibles(w) # {} => LastAt(q, Visibles(w)) = LastAt(w, Visibles(w))  BY <1>2, LastKept
  <2> QED  BY <1>4, <2>1, <2>2 DEF Polled
<1> QED  BY <1>3, <1>4

\* A poll gives the swapchain what the queue then no longer does.
LEMMA PolledTail ==
    ASSUME NEW w \in Seq(WindowEvents), w # <<>>, NEW g
    PROVE  Polled(Tail(w), IF Visible(Head(w)) THEN Head(w).size ELSE g) = Polled(w, g)
<1> DEFINE t == Tail(w)
           V == Visibles(w)
<1>1. /\ DOMAIN w = 1..Len(w) /\ Len(w) \in Nat \ {0} /\ DOMAIN t = 1..Len(w) - 1
      /\ t \in Seq(WindowEvents) /\ Head(w) = w[1] /\ \A i \in DOMAIN t : t[i] = w[i + 1]
  BY HeadTailProperties, LenProperties, EmptySeq
<1>2. \A i \in DOMAIN t : i \in Visibles(t) <=> i + 1 \in V  BY <1>1 DEF Visibles
<1>3. CASE Visibles(t) # {}
  <2>1. PICK i \in Visibles(t) : LastAt(t, Visibles(t)) = t[i] /\ \A j \in Visibles(t) : j <= i
    BY <1>1, <1>3, LastFound DEF Visibles
  <2>2. i \in DOMAIN t /\ i + 1 \in V  BY <1>2, <2>1 DEF Visibles
  <2>3. \A j \in V : j <= i + 1
    <3> TAKE j \in V
    <3>1. j \in 1..Len(w) /\ i \in 1..Len(w) - 1  BY <1>1, <2>2 DEF Visibles
    <3>2. j = 1 \/ j - 1 \in DOMAIN t  BY <1>1, <3>1
    <3>3. j = 1 \/ j - 1 \in Visibles(t)  BY <1>2, <3>1, <3>2
    <3> QED  BY <2>1, <3>1, <3>3
  <2>4. LastAt(w, V) = w[i + 1]  BY <1>1, <2>2, <2>3, LastIs DEF Visibles
  <2> QED  BY <1>1, <1>3, <2>1, <2>2, <2>4 DEF Polled
<1>4. CASE Visibles(t) = {}
  <2>1. V \subseteq {1}
    <3> SUFFICES ASSUME NEW j \in V, j # 1 PROVE FALSE  OBVIOUS
    <3>1. j - 1 \in DOMAIN t  BY <1>1 DEF Visibles
    <3>2. j - 1 \in Visibles(t)  BY <1>1, <1>2, <3>1 DEF Visibles
    <3> QED  BY <1>4, <3>2
  <2>2. 1 \in V <=> Visible(Head(w))  BY <1>1 DEF Visibles
  <2>3. Visible(Head(w)) => LastAt(w, V) = w[1]  BY <2>1, <2>2, LastIs
  <2> QED  BY <1>1, <1>4, <2>1, <2>2, <2>3 DEF Polled
<1> QED  BY <1>3, <1>4

-----------------------------------------------------------------------------
(* Types *)

\* A push keeps a queue typed and within its ring.
LEMMA PushTyped ==
    ASSUME NEW S, NEW q \in Seq(S), NEW e \in S, NEW cap \in Nat, Len(q) <= cap,
           NEW r, r = IF Len(q) < cap THEN Append(q, e) ELSE q
    PROVE  r \in Seq(S) /\ Len(r) <= cap
BY AppendProperties, LenProperties

\* A packet that changes a button makes one message of a known kind.
LEMMA PostTyped ==
    ASSUME TypeOK, NEW m \in Messages, Post(m)
    PROVE  os' \in Seq(Messages) /\ posts' \in 0..MaxPosts
<1>1. os \in Seq(Messages)  BY DEF TypeOK, Messages
<1> QED  BY <1>1, AppendProperties, InputAssumption DEF Post, TypeOK

LEMMA HeadTyped ==
    ASSUME TypeOK, os # <<>>
    PROVE  Head(os) \in Messages /\ Tail(os) \in Seq(Messages)
<1>1. os \in Seq(Messages)  BY DEF TypeOK, Messages
<1> QED  BY <1>1, HeadTailProperties

\* What each message puts in the two queues.
LEMMA DispatchTyped ==
    ASSUME TypeOK, Dispatch
    PROVE  /\ os' \in Seq(Messages)
           /\ events' \in Seq(Events) /\ Len(events') <= EventCap
           /\ window' \in Seq(WindowEvents) /\ Len(window') <= WindowCap
           /\ client' \in Sizes /\ closing' \in BOOLEAN
           /\ lostKeys' \subseteq Keys /\ lostView' \in BOOLEAN /\ lostGpu' \in BOOLEAN
<1> DEFINE m == Head(os)
<1>1. m \in Messages /\ os' \in Seq(Messages)  BY HeadTyped DEF Dispatch
<1>2. /\ events \in Seq(Events) /\ Len(events) <= EventCap /\ EventCap \in Nat
      /\ window \in Seq(WindowEvents) /\ Len(window) <= WindowCap /\ WindowCap \in Nat
      /\ client \in Sizes /\ closing \in BOOLEAN
      /\ lostKeys \subseteq Keys /\ lostView \in BOOLEAN /\ lostGpu \in BOOLEAN
  BY InputAssumption DEF TypeOK, Events, WindowEvents
<1>3. \/ OnEdge(m) \/ OnMasked(m) \/ OnOther(m) \/ OnMouse(m) \/ OnSize(m) \/ OnClose(m)
  BY DEF Dispatch
<1>4. Other \in Events /\ Other \in WindowEvents /\ CloseMsg \in WindowEvents
  BY DEF Events, WindowEvents
<1> HIDE DEF m
<1>5. CASE OnEdge(m)
  <2>1. m \in EdgeType  BY <1>1, <1>5, KindTells DEF OnEdge
  <2>2. m \in Events /\ m.key \in Keys  BY <2>1 DEF Events, EdgeType
  <2>3. events' \in Seq(Events) /\ Len(events') <= EventCap
    BY <1>2, <1>5, <2>2, PushTyped DEF OnEdge, PushEvent
  <2> QED  BY <1>1, <1>2, <1>5, <2>2, <2>3 DEF OnEdge
<1>6. CASE OnMasked(m)
  <2>1. m.key \in Keys  BY <1>1, <1>6, KindTells DEF OnMasked
  <2>2. events' \in Seq(Events) /\ Len(events') <= EventCap
    BY <1>2, <1>4, <1>6, PushTyped DEF OnMasked, PushEvent
  <2> QED  BY <1>1, <1>2, <1>6, <2>1, <2>2 DEF OnMasked
<1>7. CASE OnOther(m)
  <2>1. events' \in Seq(Events) /\ Len(events') <= EventCap
    BY <1>2, <1>4, <1>7, PushTyped DEF OnOther, PushEvent
  <2> QED  BY <1>1, <1>2, <1>7, <2>1 DEF OnOther
<1>8. CASE OnMouse(m)
  <2>1. window' \in Seq(WindowEvents) /\ Len(window') <= WindowCap
    BY <1>2, <1>4, <1>8, PushTyped DEF OnMouse, PushWindow
  <2> QED  BY <1>1, <1>2, <1>8, <2>1 DEF OnMouse
<1>9. CASE OnSize(m)
  <2>1. m \in SizeType  BY <1>1, <1>9, KindTells DEF OnSize
  <2>2. m.size \in Sizes /\ Sized(m.size) \in SizeType  BY <2>1 DEF SizeType, Sized
  <2>3. Sized(m.size) \in Events /\ Sized(m.size) \in WindowEvents
    BY <2>2 DEF Events, WindowEvents
  <2>4. events' \in Seq(Events) /\ Len(events') <= EventCap
    BY <1>2, <1>9, <2>3, PushTyped DEF OnSize, SizeToBoth, PushEvent
  <2>5. window' \in Seq(WindowEvents) /\ Len(window') <= WindowCap
    BY <1>2, <1>9, <2>3, PushTyped DEF OnSize, SizeToBoth, PushWindow
  <2>6. lostView' \in BOOLEAN /\ lostGpu' \in BOOLEAN
    <3>1. /\ (Len(events) >= EventCap) \in BOOLEAN /\ (Len(window) >= WindowCap) \in BOOLEAN
      BY <1>2, LenProperties
    <3>2. lostView' = (Len(events) >= EventCap)  BY <1>9 DEF OnSize
    <3>3. lostGpu' = IF m.size = 0 THEN lostGpu ELSE Len(window) >= WindowCap
      BY <1>9 DEF OnSize
    <3>4. lostGpu' = lostGpu \/ lostGpu' = (Len(window) >= WindowCap)  BY <3>3, Zenon
    <3> QED  BY <1>2, <3>1, <3>2, <3>4, Zenon
  <2> QED  BY <1>1, <1>2, <1>9, <2>2, <2>4, <2>5, <2>6 DEF OnSize
<1>10. CASE OnClose(m)
  <2>1. window' \in Seq(WindowEvents) /\ Len(window') <= WindowCap
    BY <1>2, <1>4, <1>10, PushTyped DEF OnClose, PushWindow
  <2> QED  BY <1>1, <1>2, <1>10, <2>1 DEF OnClose
<1> QED  BY <1>3, <1>5, <1>6, <1>7, <1>8, <1>9, <1>10

LEMMA TypeInit == Init => TypeOK
<1> SUFFICES ASSUME Init PROVE TypeOK  OBVIOUS
<1>1. Sized(Size0) \in SizeType  BY InputAssumption DEF Sized, SizeType
<1>2. events \in Seq(Events) /\ Len(events) = 1 /\ window \in Seq(WindowEvents) /\ Len(window) = 1
  BY <1>1 DEF Init, Events, WindowEvents
<1>3. os \in Seq(Messages)  BY DEF Init
<1>4. input \in InputType  BY InputAssumption DEF Init, InputType
<1>5. /\ gpu \in Sizes \ {0} /\ view \in Sizes /\ client \in Sizes
      /\ posts \in 0..MaxPosts /\ 1 <= EventCap /\ 1 <= WindowCap
  BY InputAssumption DEF Init
<1> QED  BY <1>2, <1>3, <1>4, <1>5 DEF Init, TypeOK, Events, WindowEvents, Messages

LEMMA TypeStep == TypeOK /\ [Next]_vars => TypeOK'
<1> SUFFICES ASSUME TypeOK, [Next]_vars PROVE TypeOK'  OBVIOUS
<1> USE DEF TypeOK, Alone
<1>1. CASE \E k \in Keys : KeyDown(k)
  <2>1. PICK k \in Keys : KeyDown(k)  BY <1>1
  <2>2. Edge(k, TRUE) \in Messages  BY DEF Edge, EdgeType, Messages
  <2>3. os' \in Seq(Messages) /\ posts' \in 0..MaxPosts  BY <2>1, <2>2, PostTyped DEF KeyDown
  <2> QED  BY <2>1, <2>3 DEF KeyDown, Messages
<1>2. CASE \E k \in Keys : KeyUp(k)
  <2>1. PICK k \in Keys : KeyUp(k)  BY <1>2
  <2>2. Edge(k, FALSE) \in Messages  BY DEF Edge, EdgeType, Messages
  <2>3. os' \in Seq(Messages) /\ posts' \in 0..MaxPosts  BY <2>1, <2>2, PostTyped DEF KeyUp
  <2> QED  BY <2>1, <2>3 DEF KeyUp, Messages
<1>3. CASE \E k \in Buttons : ButtonWhileMoving(k)
  <2>1. PICK k \in Buttons : ButtonWhileMoving(k)  BY <1>3
  <2>2. k \in Keys /\ [kind |-> "masked", key |-> k] \in Messages
    BY InputAssumption DEF Messages
  <2>3. os' \in Seq(Messages) /\ posts' \in 0..MaxPosts
    BY <2>1, <2>2, PostTyped DEF ButtonWhileMoving
  <2> QED  BY <2>1, <2>2, <2>3 DEF ButtonWhileMoving, Messages
<1>4. CASE PostOther
  <2>1. PICK m \in {Other, CloseMsg, [kind |-> "mouse"]} \cup {Sized(s) : s \in Sizes} : Post(m)
    BY <1>4 DEF PostOther
  <2>2. m \in Messages  BY DEF Messages, Other, CloseMsg, Sized, SizeType
  <2>3. os' \in Seq(Messages) /\ posts' \in 0..MaxPosts  BY <2>1, <2>2, PostTyped
  <2> QED  BY <1>4, <2>3 DEF PostOther, Messages
<1>5. CASE Shutdown  BY <1>5 DEF Shutdown
<1>6. CASE Run  BY <1>6 DEF Run
<1>7. CASE Frame
  <2>1. /\ events \in Seq(Events) /\ input.size \in Sizes /\ input.down \subseteq Keys
    BY DEF InputType, Events
  <2>2. SizeNow(input, events) \in Sizes  BY <2>1, SizeTyped
  <2>3. Down(input, events) \subseteq Keys /\ Pressed(input, events) \subseteq Keys
        /\ Released(events) \subseteq Keys
    BY DEF Down, Pressed, Released
  <2>4. input' \in InputType  BY <1>7, <2>2, <2>3 DEF Frame, BuildInput, InputType
  <2>5. events' \in Seq(Events) /\ Len(events') <= EventCap
    BY <1>7, InputAssumption DEF Frame
  <2> QED  BY <1>7, <2>1, <2>4, <2>5 DEF Frame, Events
<1>8. CASE Leave  BY <1>8 DEF Leave
<1>9. CASE Dispatch
  <2>1. /\ os' \in Seq(Messages)
        /\ events' \in Seq(Events) /\ Len(events') <= EventCap
        /\ window' \in Seq(WindowEvents) /\ Len(window') <= WindowCap
        /\ client' \in Sizes /\ closing' \in BOOLEAN
        /\ lostKeys' \subseteq Keys /\ lostView' \in BOOLEAN /\ lostGpu' \in BOOLEAN
    BY <1>9, DispatchTyped
  <2> QED  BY <1>9, <2>1 DEF Dispatch, Events, WindowEvents, Messages
<1>10. CASE PumpEnds  BY <1>10 DEF PumpEnds
<1>11. CASE Poll
  <2>1. window \in Seq(WindowEvents) /\ window # <<>>  BY <1>11 DEF Poll, WindowEvents
  <2>2. /\ Head(window) \in WindowEvents /\ window' \in Seq(WindowEvents)
        /\ Len(window') = Len(window) - 1 /\ Len(window) \in Nat
    BY <1>11, <2>1, HeadTailProperties, LenProperties DEF Poll
  <2>3. gpu' \in Sizes \ {0}
    <3>1. Visible(Head(window)) => Head(window) \in SizeType
      BY <2>2, KindTells DEF Visible, IsSize
    <3>2. Visible(Head(window)) => Head(window).size \in Sizes \ {0}
      BY <3>1 DEF Visible, SizeType
    <3> QED  BY <1>11, <3>2 DEF Poll
  <2>4. running' \in BOOLEAN  BY <1>11 DEF Poll
  <2>5. Len(window') <= WindowCap  BY <2>2, InputAssumption
  <2> QED  BY <1>11, <2>2, <2>3, <2>4, <2>5 DEF Poll, WindowEvents
<1>12. CASE PollEnds  BY <1>12 DEF PollEnds, CloseTest
<1>13. CASE Jobs  BY <1>13 DEF Jobs, InputType, EscPressed
<1>14. CASE UNCHANGED vars  BY <1>14 DEF vars
<1> QED  BY <1>1, <1>2, <1>3, <1>4, <1>5, <1>6, <1>7, <1>8, <1>9, <1>10, <1>11, <1>12, <1>13, <1>14
  DEF Next, Main

\* Every variable of the loop has its type and no queue outgrows its ring,
\* whatever the capacities and however many messages come.
THEOREM LoopTyped == Spec => []TypeOK
BY TypeInit, TypeStep, PTL DEF Spec

-----------------------------------------------------------------------------
(* The edges of a frame *)

\* The last edge of a key is one of the edges of the queue.
LEMMA LastEdge ==
    ASSUME NEW es \in Seq(Events), NEW k \in Keys, Edges(es, k) # {}
    PROVE  \E i \in DOMAIN es : es[i] = Edge(k, LastAt(es, Edges(es, k)).on)
<1>1. PICK i \in Edges(es, k) : LastAt(es, Edges(es, k)) = es[i]
  BY LastFound DEF Edges
<1>2. i \in DOMAIN es /\ es[i] \in Events /\ IsEdge(es[i], k)
  BY <1>1, ElementOfSeq, LenProperties DEF Edges
<1>3. es[i] \in EdgeType /\ es[i].key = k
  BY <1>2 DEF Events, SizeType, Other, IsEdge
<1>4. es[i] = Edge(k, es[i].on)  BY <1>3 DEF EdgeType, Edge
<1> QED  BY <1>1, <1>2, <1>4

\* build_input() explains each state it changes and each edge it shows.
LEMMA FrameExplains == ASSUME TypeOK, Frame PROVE EdgesExplain'
<1>1. events \in Seq(Events) /\ input.down \subseteq Keys  BY DEF TypeOK, Events, InputType
<1>2. /\ prev' = input.down
      /\ input'.down = Down(input, events)
      /\ input'.pressed = Pressed(input, events)
      /\ input'.released = Released(events)
  BY DEF Frame, BuildInput
<1>3. ASSUME NEW k \in Keys, Edges(events, k) # {}
      PROVE  IF k \in Down(input, events) THEN k \in Pressed(input, events) ELSE k \in Released(events)
  <2>1. PICK i \in DOMAIN events : events[i] = Edge(k, LastAt(events, Edges(events, k)).on)
    BY <1>1, <1>3, LastEdge
  <2>2. k \in Down(input, events) <=> LastAt(events, Edges(events, k)).on
    BY <1>3 DEF Down
  <2>3. i \in Edges(events, k)  BY <2>1 DEF Edges, Edge, IsEdge
  <2>4. events[i].on \in BOOLEAN /\ events[i] = Edge(k, events[i].on)
    <3>1. events[i] \in Events /\ events[i].kind = "edge"
      BY <1>1, <2>1, ElementOfSeq, LenProperties DEF Edge
    <3>2. events[i] \in EdgeType  BY <3>1 DEF Events, SizeType, Other
    <3> QED  BY <2>1, <3>2 DEF EdgeType, Edge
  <2>5. events[i].on <=> LastAt(events, Edges(events, k)).on  BY <2>1 DEF Edge
  <2>6. CASE events[i].on = TRUE
    BY <2>1, <2>2, <2>4, <2>5, <2>6 DEF Pressed
  <2>7. CASE events[i].on = FALSE
    BY <2>1, <2>2, <2>4, <2>5, <2>7 DEF Released
  <2> QED  BY <2>4, <2>6, <2>7
<1>4. \A k \in Keys : Edges(events, k) = {} => (k \in Down(input, events) <=> k \in input.down)
  BY DEF Down
<1>5. \A k \in Keys : k \in Pressed(input, events) \/ k \in Released(events) => Edges(events, k) # {}
  BY DEF Pressed, Released, Edges, IsEdge, Edge
<1>6. /\ Down(input, events) \subseteq Keys
      /\ Pressed(input, events) \subseteq Keys /\ Released(events) \subseteq Keys
  BY DEF Down, Pressed, Released
<1> HIDE DEF Edges
<1>7. Down(input, events) \ input.down \subseteq Pressed(input, events)  BY <1>3, <1>4, <1>6
<1>8. input.down \ Down(input, events) \subseteq Released(events)  BY <1>1, <1>3, <1>4
<1>9. Pressed(input, events) \subseteq Down(input, events) \cup Released(events)
  BY <1>3, <1>5, <1>6
<1>10. Released(events) \cap Down(input, events) \subseteq Pressed(input, events)
  BY <1>3, <1>5, <1>6
<1> QED  BY <1>2, <1>7, <1>8, <1>9, <1>10 DEF EdgesExplain

\* Between the inputs of two frames a key changes only with the edge that
\* explains it, whatever was dropped (build_input()).
THEOREM FrameEdges == Spec => []EdgesExplain
<1>1. Init => EdgesExplain  BY DEF Init, EdgesExplain
<1>2. TypeOK /\ EdgesExplain /\ [Next]_vars => EdgesExplain'
  <2> SUFFICES ASSUME TypeOK, EdgesExplain, [Next]_vars PROVE EdgesExplain'  OBVIOUS
  <2>1. Frame \/ UNCHANGED <<prev, input>>
    BY DEF Next, Main, vars, KeyDown, KeyUp, ButtonWhileMoving, PostOther, Alone, Shutdown, Run, Leave,
           Dispatch, PumpEnds, Poll, PollEnds, Jobs
  <2>2. CASE Frame  BY <2>2, FrameExplains
  <2>3. CASE UNCHANGED <<prev, input>>  BY <2>3 DEF EdgesExplain
  <2> QED  BY <2>1, <2>2, <2>3
<1> QED  BY <1>1, <1>2, LoopTyped, PTL DEF Spec

-----------------------------------------------------------------------------
(* The keys *)

About(m, k) == m.kind \in {"edge", "masked"} /\ m.key = k

\* When the last message about a key shows an edge, the key is what it shows:
\* the messages come in the order in which the user made them.
OsTells ==
    \A k \in Keys : \A i \in DOMAIN os :
        /\ About(os[i], k) /\ os[i].kind = "edge"
        /\ \A j \in DOMAIN os : j > i => ~About(os[j], k)
        => (os[i].on <=> k \in held)

KeysInv == OsTells /\ KeysFollow

\* A message about one key, made with the key.
LEMMA PostKey ==
    ASSUME TypeOK, KeysInv, NEW k \in Keys, NEW m \in Messages, Post(m), About(m, k),
           held' \subseteq Keys, \A x \in Keys \ {k} : x \in held' <=> x \in held,
           m.kind = "edge" => (m.on <=> k \in held'),
           UNCHANGED <<input, events, lostKeys>>
    PROVE  KeysInv'
<1> DEFINE n == Len(os)
<1>1. /\ n \in Nat /\ DOMAIN os = 1..n /\ DOMAIN os' = 1..n + 1
      /\ os'[n + 1] = m /\ \A i \in 1..n : os'[i] = os[i]
  <2>1. os \in Seq(Messages)  BY DEF TypeOK, Messages
  <2> QED  BY <2>1, AppendProperties, LenProperties DEF Post
<1> HIDE DEF n
<1>2. OsTells'
  <2> SUFFICES ASSUME NEW x \in Keys, NEW i \in 1..n + 1, About(os'[i], x), os'[i].kind = "edge",
                      \A j \in 1..n + 1 : j > i => ~About(os'[j], x)
               PROVE  os'[i].on <=> x \in held'
    BY <1>1 DEF OsTells
  <2>1. CASE x = k
    <3>1. i = n + 1  BY <1>1, <2>1
    <3> QED  BY <1>1, <2>1, <3>1
  <2>2. CASE x # k
    <3>1. i # n + 1  BY <1>1, <2>2 DEF About
    <3>2. i \in 1..n  BY <1>1, <3>1
    <3>3. os'[i] = os[i] /\ \A j \in 1..n : j > i => ~About(os[j], x)  BY <1>1, <3>2
    <3> QED  BY <1>1, <2>2, <3>2, <3>3 DEF KeysInv, OsTells
  <2> QED  BY <2>1, <2>2
<1>3. KeysFollow'
  <2> SUFFICES ASSUME NEW x \in Keys \ lostKeys, ~Pending(x)'
               PROVE  x \in Down(input, events) <=> x \in held'
    BY DEF KeysFollow
  <2>1. ~About(m, x)  BY <1>1 DEF Pending, About
  <2>2. x # k  BY <2>1
  <2>3. ~Pending(x)  BY <1>1 DEF Pending
  <2> QED  BY <2>2, <2>3 DEF KeysInv, KeysFollow
<1> QED  BY <1>2, <1>3 DEF KeysInv

\* A message about no key.
LEMMA PostNoKey ==
    ASSUME TypeOK, KeysInv, NEW m \in Messages, Post(m), m.kind \notin {"edge", "masked"},
           UNCHANGED <<input, events, lostKeys, held>>
    PROVE  KeysInv'
<1> DEFINE n == Len(os)
<1>1. /\ n \in Nat /\ DOMAIN os = 1..n /\ DOMAIN os' = 1..n + 1
      /\ os'[n + 1] = m /\ \A i \in 1..n : os'[i] = os[i]
  <2>1. os \in Seq(Messages)  BY DEF TypeOK, Messages
  <2> QED  BY <2>1, AppendProperties, LenProperties DEF Post
<1> HIDE DEF n
<1>2. OsTells'
  <2> SUFFICES ASSUME NEW x \in Keys, NEW i \in 1..n + 1, About(os'[i], x), os'[i].kind = "edge",
                      \A j \in 1..n + 1 : j > i => ~About(os'[j], x)
               PROVE  os'[i].on <=> x \in held
    BY <1>1 DEF OsTells
  <2>1. i \in 1..n  BY <1>1
  <2>2. os'[i] = os[i] /\ \A j \in 1..n : j > i => ~About(os[j], x)  BY <1>1, <2>1
  <2> QED  BY <1>1, <2>1, <2>2 DEF KeysInv, OsTells
<1>3. KeysFollow'
  <2> SUFFICES ASSUME NEW x \in Keys \ lostKeys, ~Pending(x)'
               PROVE  x \in Down(input, events) <=> x \in held
    BY DEF KeysFollow
  <2>1. ~Pending(x)  BY <1>1 DEF Pending
  <2> QED  BY <2>1 DEF KeysInv, KeysFollow
<1> QED  BY <1>2, <1>3 DEF KeysInv

\* A message is read: what is behind it still tells, and what it told is in
\* the queue unless it was dropped.
LEMMA ReadKeys == ASSUME TypeOK, KeysInv, Dispatch PROVE KeysInv'
<1> DEFINE m == Head(os)
           n == Len(os)
<1>1. /\ n \in Nat \ {0} /\ DOMAIN os = 1..n /\ DOMAIN os' = 1..n - 1 /\ os[1] = m
      /\ \A i \in 1..n - 1 : os'[i] = os[i + 1]
  <2>1. os \in Seq(Messages) /\ os # <<>> /\ os' = Tail(os)  BY DEF TypeOK, Messages, Dispatch
  <2> QED  BY <2>1, HeadTailProperties, LenProperties, EmptySeq
<1>2. m \in Messages  BY HeadTyped DEF Dispatch
<1>3. \/ OnEdge(m) \/ OnMasked(m) \/ OnOther(m) \/ OnMouse(m) \/ OnSize(m) \/ OnClose(m)
  BY DEF Dispatch
<1>4. events \in Seq(Events) /\ UNCHANGED <<input, held>>
  BY DEF TypeOK, Events, Dispatch
<1> HIDE DEF m, n
<1>5. OsTells'
  <2> SUFFICES ASSUME NEW x \in Keys, NEW i \in 1..n - 1, About(os'[i], x), os'[i].kind = "edge",
                      \A j \in 1..n - 1 : j > i => ~About(os'[j], x)
               PROVE  os'[i].on <=> x \in held
    BY <1>1, <1>4 DEF OsTells
  <2>1. i + 1 \in 1..n /\ os'[i] = os[i + 1]  BY <1>1
  <2>2. ASSUME NEW j \in 1..n, j > i + 1 PROVE ~About(os[j], x)
    <3>1. j - 1 \in 1..n - 1 /\ j - 1 > i /\ (j - 1) + 1 = j  BY <1>1, <2>2
    <3>2. os'[j - 1] = os[j]  BY <1>1, <3>1
    <3> QED  BY <3>1, <3>2
  <2> QED  BY <1>1, <2>1, <2>2 DEF KeysInv, OsTells
<1>6. \A x \in Keys : ~About(m, x) /\ ~Pending(x)' => ~Pending(x)
  <2> SUFFICES ASSUME NEW x \in Keys, ~About(m, x), ~Pending(x)', NEW i \in 1..n, About(os[i], x)
               PROVE  FALSE
    BY <1>1 DEF Pending, About
  <2>1. i # 1  BY <1>1
  <2>2. i - 1 \in 1..n - 1 /\ (i - 1) + 1 = i  BY <1>1, <2>1
  <2>3. os'[i - 1] = os[i]  BY <1>1, <2>2
  <2> QED  BY <1>1, <2>2, <2>3 DEF Pending, About
<1>7. \A x \in Keys : About(m, x) /\ m.kind = "edge" /\ ~Pending(x)' => (m.on <=> x \in held)
  <2> SUFFICES ASSUME NEW x \in Keys, About(m, x), m.kind = "edge", ~Pending(x)'
               PROVE  m.on <=> x \in held
    OBVIOUS
  <2>1. ASSUME NEW j \in 1..n, j > 1 PROVE ~About(os[j], x)
    <3>1. j - 1 \in 1..n - 1 /\ (j - 1) + 1 = j  BY <1>1, <2>1
    <3>2. os'[j - 1] = os[j]  BY <1>1, <3>1
    <3> QED  BY <1>1, <3>1, <3>2 DEF Pending, About
  <2>2. 1 \in 1..n  BY <1>1
  <2> QED  BY <1>1, <2>1, <2>2 DEF KeysInv, OsTells
<1>8. KeysFollow'
  <2> SUFFICES ASSUME NEW x \in Keys \ lostKeys', ~Pending(x)'
               PROVE  x \in Down(input, events') <=> x \in held
    BY <1>4 DEF KeysFollow
  <2>1. Other \in Events /\ Other.kind # "edge"  BY DEF Other, Events
  <2>2. CASE OnEdge(m)
    <3>1. m \in EdgeType /\ m.kind = "edge"  BY <1>2, <2>2, KindTells DEF OnEdge
    <3>2. CASE x = m.key
      <4>1. Len(events) < EventCap /\ events' = Append(events, m)
        BY <2>2, <3>2 DEF OnEdge, PushEvent
      <4>2. m.on <=> x \in held  BY <1>7, <3>1, <3>2 DEF About
      <4>3. x \in Down(input, events') <=> m.on  BY <1>4, <3>1, <3>2, <4>1, DownWithEdge
      <4> QED  BY <4>2, <4>3
    <3>3. CASE x # m.key
      <4>1. ~Pending(x) /\ x \notin lostKeys  BY <1>6, <2>2, <3>3 DEF OnEdge, About
      <4>2. x \in Down(input, events) <=> x \in held  BY <4>1 DEF KeysInv, KeysFollow
      <4>3. x \in Down(input, Append(events, m)) <=> x \in Down(input, events)
        BY <1>4, <3>1, <3>3, DownWithEdge
      <4>4. events' = events \/ events' = Append(events, m)  BY <2>2 DEF OnEdge, PushEvent
      <4> QED  BY <4>2, <4>3, <4>4
    <3> QED  BY <3>2, <3>3
  <2>3. CASE OnMasked(m) \/ OnOther(m) \/ OnMouse(m) \/ OnSize(m) \/ OnClose(m)
    <3>1. ~About(m, x) /\ x \notin lostKeys
      BY <2>3 DEF OnMasked, OnOther, OnMouse, OnSize, OnClose, About
    <3>2. x \in Down(input, events) <=> x \in held  BY <1>6, <3>1 DEF KeysInv, KeysFollow
    <3>3. \E e \in Events : e.kind # "edge" /\ (events' = events \/ events' = Append(events, e))
      <4>1. CASE OnSize(m)
        <5>1. Sized(m.size) \in Events /\ Sized(m.size).kind # "edge"
          <6>1. m \in SizeType  BY <1>2, <4>1, KindTells DEF OnSize
          <6> QED  BY <6>1 DEF SizeType, Sized, Events
        <5> QED  BY <4>1, <5>1 DEF OnSize, SizeToBoth, PushEvent
      <4>2. CASE ~OnSize(m)
        BY <2>1, <2>3, <4>2 DEF OnMasked, OnOther, OnMouse, OnClose, PushEvent
      <4> QED  BY <4>1, <4>2
    <3>4. PICK e \in Events : e.kind # "edge" /\ (events' = events \/ events' = Append(events, e))
      BY <3>3
    <3>5. x \in Down(input, Append(events, e)) <=> x \in Down(input, events)
      BY <1>4, <3>4, DownWithOther
    <3> QED  BY <3>2, <3>4, <3>5
  <2> QED  BY <1>3, <2>2, <2>3
<1> QED  BY <1>5, <1>8 DEF KeysInv

LEMMA KeysInit == Init => KeysInv
<1> SUFFICES ASSUME Init PROVE KeysInv  OBVIOUS
<1>1. OsTells  BY DEF Init, OsTells
<1>2. \A k \in Keys : Edges(events, k) = {}  BY DEF Init, Edges, IsEdge, Sized
<1>3. KeysFollow  BY <1>2 DEF Init, KeysFollow, Down
<1> QED  BY <1>1, <1>3 DEF KeysInv

LEMMA KeysStep == TypeOK /\ KeysInv /\ [Next]_vars => KeysInv'
<1> SUFFICES ASSUME TypeOK, KeysInv, [Next]_vars PROVE KeysInv'  OBVIOUS
<1>0. held \subseteq Keys  BY DEF TypeOK
<1>1. CASE \E k \in Keys : KeyDown(k)
  <2>1. PICK k \in Keys : KeyDown(k)  BY <1>1
  <2>2. Edge(k, TRUE) \in Messages /\ About(Edge(k, TRUE), k) /\ Edge(k, TRUE).on = TRUE
    BY DEF Edge, EdgeType, Messages, About
  <2> QED  BY <1>0, <2>1, <2>2, PostKey DEF KeyDown, Alone
<1>2. CASE \E k \in Keys : KeyUp(k)
  <2>1. PICK k \in Keys : KeyUp(k)  BY <1>2
  <2>2. Edge(k, FALSE) \in Messages /\ About(Edge(k, FALSE), k) /\ Edge(k, FALSE).on = FALSE
    BY DEF Edge, EdgeType, Messages, About
  <2> QED  BY <1>0, <2>1, <2>2, PostKey DEF KeyUp, Alone
<1>3. CASE \E k \in Buttons : ButtonWhileMoving(k)
  <2>1. PICK k \in Buttons : ButtonWhileMoving(k)  BY <1>3
  <2> DEFINE m == [kind |-> "masked", key |-> k]
  <2>2. k \in Keys /\ m \in Messages /\ About(m, k) /\ m.kind # "edge"
    BY InputAssumption DEF Messages, About
  <2> HIDE DEF m
  <2>3. Post(m)  BY <2>1 DEF ButtonWhileMoving, m
  <2>4. held' \subseteq Keys /\ \A x \in Keys \ {k} : x \in held' <=> x \in held
    BY <1>0, <2>1, <2>2 DEF ButtonWhileMoving
  <2> QED  BY <2>1, <2>2, <2>3, <2>4, PostKey DEF ButtonWhileMoving, Alone
<1>4. CASE PostOther
  <2>1. PICK m \in {Other, CloseMsg, [kind |-> "mouse"]} \cup {Sized(s) : s \in Sizes} : Post(m)
    BY <1>4 DEF PostOther
  <2>2. m \in Messages /\ m.kind \notin {"edge", "masked"}
    BY DEF Messages, Other, CloseMsg, Sized, SizeType
  <2> QED  BY <1>4, <2>1, <2>2, PostNoKey DEF PostOther, Alone
<1>5. CASE Frame
  <2>1. input'.down = Down(input, events) /\ events' = <<>> /\ UNCHANGED <<os, held, lostKeys>>
    BY <1>5 DEF Frame, BuildInput
  <2>2. Down(input', <<>>) = Down(input, events)  BY <2>1, DownTyped, DownEmpty
  <2>3. OsTells'  BY <2>1 DEF KeysInv, OsTells
  <2>4. KeysFollow'  BY <2>1, <2>2 DEF KeysInv, KeysFollow, Pending
  <2> QED  BY <2>3, <2>4 DEF KeysInv
<1>6. CASE Dispatch  BY <1>6, ReadKeys
<1>7. CASE Shutdown \/ Run \/ Leave \/ PumpEnds \/ Poll \/ PollEnds \/ Jobs \/ UNCHANGED vars
  <2>1. UNCHANGED <<os, held, input, events, lostKeys>>
    BY <1>7 DEF Shutdown, Run, Leave, PumpEnds, Poll, PollEnds, Jobs, vars
  <2> QED  BY <2>1 DEF KeysInv, OsTells, KeysFollow, Pending
<1> QED  BY <1>1, <1>2, <1>3, <1>4, <1>5, <1>6, <1>7 DEF Next, Main

\* What the frames know of a key, with the edges that wait in event_queue, is
\* what the user is doing, unless its last edge was dropped.
THEOREM FramesFollowKeys == Spec => []KeysFollow
<1>1. KeysInv => KeysFollow  BY DEF KeysInv
<1> QED  BY <1>1, KeysInit, KeysStep, LoopTyped, PTL DEF Spec

-----------------------------------------------------------------------------
(* The sizes *)

\* The view follows the window unless its last size was dropped.
ViewInv == ~lostView => SizeNow(input, events) = client

\* Outside the pump and the poll the window queue has nothing new for the
\* swapchain.
QuietInv == pc \in {"start", "test", "jobs", "ended"} => Polled(window, gpu) = gpu

SizesInv == ViewInv /\ GpuFollows /\ QuietInv

LEMMA SizesInit == Init => SizesInv
<1> SUFFICES ASSUME Init PROVE SizesInv  OBVIOUS
<1>1. /\ Sized(Size0) \in Events /\ Sized(Size0) \in WindowEvents
      /\ IsSize(Sized(Size0)) /\ Visible(Sized(Size0)) /\ Sized(Size0).size = Size0
  BY InputAssumption DEF Sized, SizeType, Events, WindowEvents, IsSize, Visible
<1>2. /\ <<Sized(Size0)>> = Append(<<>>, Sized(Size0))
      /\ <<>> \in Seq(Events) /\ <<>> \in Seq(WindowEvents)
  OBVIOUS
<1>3. SizeNow(input, events) = Size0  BY <1>1, <1>2, SizeWith DEF Init
<1>4. Polled(window, gpu) = Size0  BY <1>1, <1>2, PolledWith DEF Init
<1> QED  BY <1>3, <1>4 DEF Init, SizesInv, ViewInv, GpuFollows, QuietInv

LEMMA ReadSizes == ASSUME TypeOK, SizesInv, Dispatch PROVE SizesInv'
<1> DEFINE m == Head(os)
<1>1. m \in Messages  BY HeadTyped DEF Dispatch
<1>2. \/ OnEdge(m) \/ OnMasked(m) \/ OnOther(m) \/ OnMouse(m) \/ OnSize(m) \/ OnClose(m)
  BY DEF Dispatch
<1>3. events \in Seq(Events) /\ window \in Seq(WindowEvents) /\ UNCHANGED <<input, gpu>> /\ pc' = "pump"
  BY DEF TypeOK, Events, WindowEvents, Dispatch
<1>4. client \in Nat /\ lostView \in BOOLEAN /\ lostGpu \in BOOLEAN
  BY InputAssumption DEF TypeOK
<1>5. /\ Len(events) \in Nat /\ EventCap \in Nat /\ Len(window) \in Nat /\ WindowCap \in Nat
  BY <1>3, LenProperties, InputAssumption
<1> HIDE DEF m
<1>6. QuietInv'  BY <1>3 DEF QuietInv
<1>7. CASE OnSize(m)
  <2> DEFINE e == Sized(m.size)
  <2>1. /\ e \in Events /\ e \in WindowEvents /\ m.size \in Nat /\ IsSize(e) /\ e.size = m.size
        /\ m.size > 0 => Visible(e)
    <3>1. m \in SizeType  BY <1>1, <1>7, KindTells DEF OnSize
    <3> QED  BY <3>1, InputAssumption DEF SizeType, Sized, Events, WindowEvents, IsSize, Visible
  <2> HIDE DEF e
  <2>2. ViewInv'
    <3> SUFFICES ASSUME ~lostView' PROVE SizeNow(input, events') = m.size
      BY <1>3, <1>7 DEF ViewInv, OnSize
    <3>1. lostView' = (Len(events) >= EventCap)  BY <1>7 DEF OnSize
    <3>2. ~(Len(events) >= EventCap)  BY <3>1, Zenon
    <3>3. events' = Append(events, e)  BY <1>5, <1>7, <3>2 DEF OnSize, SizeToBoth, PushEvent, e
    <3> QED  BY <1>3, <2>1, <3>3, SizeWith
  <2>3. GpuFollows'
    <3> SUFFICES ASSUME ~lostGpu', m.size > 0 PROVE Polled(window', gpu) = m.size
      BY <1>3, <1>7 DEF GpuFollows, OnSize
    <3>1. lostGpu' = IF m.size = 0 THEN lostGpu ELSE Len(window) >= WindowCap  BY <1>7 DEF OnSize
    <3>2. lostGpu' = (Len(window) >= WindowCap)  BY <2>1, <3>1
    <3>3. ~(Len(window) >= WindowCap)  BY <3>2, Zenon
    <3>4. window' = Append(window, e)
      BY <1>5, <1>7, <3>3 DEF OnSize, SizeToBoth, PushWindow, e
    <3> QED  BY <1>3, <2>1, <3>4, PolledWith
  <2> QED  BY <1>6, <2>2, <2>3 DEF SizesInv
<1>8. CASE OnEdge(m) \/ OnMasked(m) \/ OnOther(m) \/ OnMouse(m) \/ OnClose(m)
  <2>1. UNCHANGED <<client, lostView, lostGpu>>
    BY <1>8 DEF OnEdge, OnMasked, OnOther, OnMouse, OnClose
  <2>2. SizeNow(input, events') = SizeNow(input, events)
    <3>1. \E e \in Events : ~IsSize(e) /\ (events' = events \/ events' = Append(events, e))
      <4>1. Other \in Events /\ ~IsSize(Other)  BY DEF Other, Events, IsSize
      <4>2. m.kind = "edge" => m \in Events /\ ~IsSize(m)
        BY <1>1, KindTells DEF Events, IsSize
      <4> QED  BY <1>8, <4>1, <4>2 DEF OnEdge, OnMasked, OnOther, OnMouse, OnClose, PushEvent
    <3>2. PICK e \in Events : ~IsSize(e) /\ (events' = events \/ events' = Append(events, e))
      BY <3>1
    <3> QED  BY <1>3, <3>2, SizeWith
  <2>3. Polled(window', gpu) = Polled(window, gpu)
    <3>1. \E e \in WindowEvents : ~Visible(e) /\ (window' = window \/ window' = Append(window, e))
      <4>1. /\ Other \in WindowEvents /\ ~Visible(Other)
            /\ CloseMsg \in WindowEvents /\ ~Visible(CloseMsg)
        BY DEF Other, CloseMsg, WindowEvents, Visible, IsSize
      <4> QED  BY <1>8, <4>1 DEF OnEdge, OnMasked, OnOther, OnMouse, OnClose, PushWindow
    <3>2. PICK e \in WindowEvents : ~Visible(e) /\ (window' = window \/ window' = Append(window, e))
      BY <3>1
    <3> QED  BY <1>3, <3>2, PolledWith
  <2> QED  BY <1>3, <1>6, <2>1, <2>2, <2>3 DEF SizesInv, ViewInv, GpuFollows
<1> QED  BY <1>2, <1>7, <1>8

LEMMA SizesStep == TypeOK /\ SizesInv /\ [Next]_vars => SizesInv'
<1> SUFFICES ASSUME TypeOK, SizesInv, [Next]_vars PROVE SizesInv'  OBVIOUS
<1>1. CASE Frame
  <2>1. /\ input'.size = SizeNow(input, events) /\ events' = <<>> /\ pc' = "pump"
        /\ UNCHANGED <<window, gpu, client, lostView, lostGpu>>
    BY <1>1 DEF Frame, BuildInput
  <2>2. SizeNow(input', <<>>) = SizeNow(input, events)  BY <2>1, SizeEmpty
  <2> QED  BY <2>1, <2>2 DEF SizesInv, ViewInv, GpuFollows, QuietInv
<1>2. CASE Dispatch  BY <1>2, ReadSizes
<1>3. CASE Poll
  <2>1. window \in Seq(WindowEvents) /\ window # <<>>  BY <1>3 DEF TypeOK, WindowEvents, Poll
  <2>2. Polled(window', gpu') = Polled(window, gpu)  BY <1>3, <2>1, PolledTail DEF Poll
  <2>3. pc' = "poll" /\ UNCHANGED <<input, events, client, lostView, lostGpu>>  BY <1>3 DEF Poll
  <2> QED  BY <2>2, <2>3 DEF SizesInv, ViewInv, GpuFollows, QuietInv
<1>4. CASE PollEnds
  <2>1. window = <<>> /\ UNCHANGED <<window, gpu, input, events, client, lostView, lostGpu>>
    BY <1>4 DEF PollEnds
  <2>2. Polled(window', gpu') = gpu'  BY <2>1, PolledEmpty
  <2> QED  BY <2>1, <2>2 DEF SizesInv, ViewInv, GpuFollows, QuietInv
<1>5. CASE PumpEnds
  <2>1. pc' = "poll" /\ UNCHANGED <<window, gpu, input, events, client, lostView, lostGpu>>
    BY <1>5 DEF PumpEnds
  <2> QED  BY <2>1 DEF SizesInv, ViewInv, GpuFollows, QuietInv
<1>6. CASE Run \/ Leave \/ Jobs
  <2>1. /\ pc \in {"start", "test", "jobs"}
        /\ UNCHANGED <<window, gpu, input, events, client, lostView, lostGpu>>
    BY <1>6 DEF Run, Leave, Jobs
  <2> QED  BY <2>1 DEF SizesInv, ViewInv, GpuFollows, QuietInv
<1>7. CASE ~Main
  <2>1. UNCHANGED <<pc, window, gpu, input, events, client, lostView, lostGpu>>
    BY <1>7 DEF Next, vars, KeyDown, KeyUp, ButtonWhileMoving, PostOther, Alone, Shutdown
  <2> QED  BY <2>1 DEF SizesInv, ViewInv, GpuFollows, QuietInv
<1> QED  BY <1>1, <1>2, <1>3, <1>4, <1>5, <1>6, <1>7 DEF Main

\* The sizes that WM_SIZE puts in two queues stay with the window and with
\* each other, whatever the capacities of the queues (win32.cpp:242-262).
THEOREM SizesStay == Spec => []SizesAgree
<1>1. TypeOK /\ SizesInv => SizesAgree
  <2> SUFFICES ASSUME TypeOK, SizesInv PROVE SizesAgree  OBVIOUS
  <2>1. ASSUME pc = "test", ~lostView, ~lostGpu, ~(client = 0)
        PROVE  SizeNow(input, events) = gpu
    <3>1. client > 0  BY <2>1, InputAssumption DEF TypeOK
    <3> QED  BY <2>1, <3>1 DEF SizesInv, ViewInv, GpuFollows, QuietInv
  <2> QED  BY <2>1 DEF SizesInv, SizesAgree, ViewOneFrameLate
<1> QED  BY <1>1, SizesInit, SizesStep, LoopTyped, PTL DEF Spec
=============================================================================
