---------------------------- MODULE AssetSystem ----------------------------
(***************************************************************************)
(* The asset dependency graph (src/src/assets/system.cpp and               *)
(* src/window_engine/asset): keys are registered with their prerequisites, *)
(* commit() freezes the graph, resolve() compiles a key after its          *)
(* prerequisites and caches the handle, resolve_all() does so for every    *)
(* key in topological order.  The recursion of resolve() is an explicit    *)
(* stack, so the state is visible between any two calls.                   *)
(*                                                                         *)
(* External: wz::core::graph, whose build() rejects cycles and whose       *)
(* compilation_order() is a topological order, and the compilers, which    *)
(* may fail today and succeed tomorrow (they read files).                  *)
(***************************************************************************)
EXTENDS Integers, Sequences, FiniteSets

CONSTANTS
    Keys,         \* AssetKeys a program may use
    Compilable,   \* keys whose (schema, type) surely has a compiler
    Carriers,     \* keys compiled to bytes, without a resource handle
    MaxDrops,     \* bound: invalidate(), evict() and clear() calls
    MaxCommits    \* bound: commit() calls

ASSUME AssetAssumption ==
    /\ IsFiniteSet(Keys)
    /\ Compilable \subseteq Keys /\ Carriers \subseteq Keys
    /\ MaxDrops \in Nat /\ MaxCommits \in Nat

VARIABLES
    known,       \* keys in pending_, and once committed in storage_
    deps,        \* dep_keys, then the edges of the DAG
    intact,      \* known keys whose node still has its payload and meta
    committed,   \* committed_
    topo,        \* position of each known key in compilation_order()
    valid,       \* cache_: keys with a valid entry
    stale,       \* cache_: keys with a soft-invalidated entry
    handle,      \* cache_: the handle of each entry
    nodes,       \* keys of compiled_nodes_
    payload,     \* compiled_nodes_: what the stored node carries
    stack,       \* the resolve() calls under way, innermost last
    ret,         \* what the innermost call has just returned
    all,         \* resolve_all(): the loop and its report
    compilers,   \* keys whose (schema, type) is in compilers_
    broken       \* keys whose compiler fails at present

(* History and bounds. *)
VARIABLES
    builds,      \* results made of each key so far: the number of the last one
    runs,        \* compiler runs per key in the current top-level call
    drops,
    commits

graphVars == <<known, deps, intact, committed, topo, commits, compilers>>
cacheVars == <<valid, stale, handle, drops>>
nodeVars  == <<nodes, payload, builds>>
callVars  == <<stack, ret, all, runs>>
vars == <<graphVars, cacheVars, nodeVars, callVars, broken>>

Null == 0     \* the invalid handle, and the payload of a moved-from node
Errors == {"NodeNotFound", "CompilerNotFound", "DependencyFailed", "CompileFailed"}
NoLoop == [on |-> FALSE, at |-> 1, ok |-> 0, failed |-> {}]

Init ==
    /\ known = {} /\ deps = [k \in Keys |-> {}] /\ intact = {}
    /\ committed = FALSE /\ topo = [k \in Keys |-> 0] /\ commits = 0
    /\ valid = {} /\ stale = {} /\ handle = [k \in Keys |-> Null] /\ drops = 0
    /\ nodes = {} /\ payload = [k \in Keys |-> Null] /\ builds = [k \in Keys |-> 0]
    /\ stack = <<>> /\ ret = "none" /\ all = NoLoop /\ runs = [k \in Keys |-> 0]
    /\ compilers \in {Compilable, Keys}
    /\ broken \in SUBSET Keys

\* The system is single-threaded: a caller acts only when no call is under way.
Idle == stack = <<>> /\ ret = "none" /\ ~all.on

-----------------------------------------------------------------------------
(* Registration phase *)

\* A key already registered is refused and nothing changes, so only the
\* accepted registration is a step.  A key listed as its own prerequisite is a
\* cycle, found by commit(); one listed twice makes two equal edges, the second
\* of which resolve() answers from the cache.
Register(k, ds) ==
    /\ Idle /\ ~committed /\ k \notin known
    /\ known' = known \cup {k}
    /\ deps' = [deps EXCEPT ![k] = ds]
    /\ intact' = intact \cup {k}
    /\ UNCHANGED <<committed, topo, commits, compilers, cacheVars, nodeVars, callVars, broken>>

\* kahn_topo() numbers every node after its prerequisites, or finds a cycle.
AnyNumbering(t) == {t[k] : k \in known} = 1..Cardinality(known)
Numbering(t) ==
    /\ {t[k] : k \in known} = 1..Cardinality(known)
    /\ \A k \in Keys \ known : t[k] = 0
    /\ \A k \in known, d \in Keys : d \in deps[k] => t[d] < t[k]

Buildable == \A k \in known : deps[k] \subseteq known

CommitAccepted ==
    /\ Idle /\ ~committed /\ commits < MaxCommits
    /\ Buildable
    /\ \E t \in [Keys -> 0..Cardinality(known)] : Numbering(t) /\ topo' = t
    /\ committed' = TRUE
    /\ commits' = commits + 1
    /\ UNCHANGED <<known, deps, intact, compilers, cacheVars, nodeVars, callVars, broken>>

\* Every node has been moved into the builder before the graph is looked at.
CommitRefused ==
    /\ Idle /\ ~committed /\ commits < MaxCommits
    /\ ~(Buildable /\ \E t \in [Keys -> 0..Cardinality(known)] : Numbering(t))
    /\ intact' = {}
    /\ commits' = commits + 1
    /\ UNCHANGED <<known, deps, committed, topo, compilers, cacheVars, nodeVars, callVars, broken>>

-----------------------------------------------------------------------------
(* resolve() *)

Top == stack[Len(stack)]
Pop == SubSeq(stack, 1, Len(stack) - 1)
TopWith(todo, now) == [stack EXCEPT ![Len(stack)] = [key |-> Top.key, todo |-> todo, now |-> now]]

\* What a call returns at once, before it looks at prerequisites.
AtOnce(k) ==
    IF ~committed THEN "NodeNotFound"
    ELSE IF k \in valid THEN "ok"
    ELSE IF k \notin known THEN "NodeNotFound"
    ELSE IF k \notin compilers THEN "CompilerNotFound"
    ELSE "none"

\* resolve(k) is called on top of the given stack.
Enter(k, below) ==
    /\ ret' = AtOnce(k)
    /\ stack' = IF AtOnce(k) = "none" THEN Append(below, [key |-> k, todo |-> deps[k], now |-> {}])
                                      ELSE below

Resolve(k) ==
    /\ Idle
    /\ Enter(k, stack)
    /\ runs' = [x \in Keys |-> 0]
    /\ UNCHANGED <<all, graphVars, cacheVars, nodeVars, broken>>

\* The loop over prerequisites(): parents in an order the graph chooses.
ResolveDep ==
    /\ stack # <<>> /\ ret = "none"
    /\ \E d \in Top.todo : Enter(d, TopWith(Top.todo, {d}))
    /\ UNCHANGED <<all, runs, graphVars, cacheVars, nodeVars, broken>>

\* A prerequisite that failed fails its dependent; one that succeeded has its
\* node and handle collected.
AnyResult == TRUE
Succeeded == ret = "ok"

RetryDep == stack
NextDep == TopWith(Top.todo \ Top.now, {})

DepReturned ==
    /\ stack # <<>> /\ ret # "none"
    /\ \/ /\ Succeeded
          /\ ret' = "none"
          /\ stack' = NextDep
       \/ /\ ~Succeeded
          /\ ret' = "DependencyFailed"
          /\ stack' = Pop
    /\ UNCHANGED <<all, runs, graphVars, cacheVars, nodeVars, broken>>

\* compiled_nodes_.emplace() keeps a node that is already there.
EmplaceResources(k, p) ==
    /\ nodes' = IF k \in Carriers THEN nodes ELSE nodes \cup {k}
    /\ payload' = IF k \in nodes \cup Carriers THEN payload ELSE [payload EXCEPT ![k] = p]
Emplace(k, p) ==
    /\ nodes' = nodes \cup {k}
    /\ payload' = IF k \in nodes THEN payload ELSE [payload EXCEPT ![k] = p]

\* cache_.store(): the entry is inserted or assigned, and valid.
StoreBeside(k, h) ==
    /\ valid' = valid \cup {k}
    /\ UNCHANGED stale
    /\ handle' = [handle EXCEPT ![k] = h]
StoreInPlace(k, h) ==
    /\ valid' = IF k \in stale THEN valid ELSE valid \cup {k}
    /\ UNCHANGED stale
    /\ handle' = [handle EXCEPT ![k] = h]
Store(k, h) ==
    /\ valid' = valid \cup {k}
    /\ stale' = stale \ {k}
    /\ handle' = [handle EXCEPT ![k] = h]

\* A node whose payload and meta were moved out cannot be compiled: every
\* compiler of the engine starts from one of them.
CanCompile(k) == k \notin broken /\ k \in intact

Compile ==
    /\ stack # <<>> /\ ret = "none" /\ Top.todo = {}
    /\ runs' = [runs EXCEPT ![Top.key] = @ + 1]
    /\ stack' = Pop
    /\ \/ /\ CanCompile(Top.key)
          /\ builds' = [builds EXCEPT ![Top.key] = @ + 1]
          /\ Emplace(Top.key, builds[Top.key] + 1)
          /\ Store(Top.key, IF Top.key \in Carriers THEN Null ELSE builds[Top.key] + 1)
          /\ ret' = "ok"
       \/ /\ ~CanCompile(Top.key)
          /\ ret' = "CompileFailed"
          /\ UNCHANGED <<nodeVars, valid, stale, handle>>
    /\ UNCHANGED <<drops, all, graphVars, broken>>

Return ==
    /\ stack = <<>> /\ ret # "none" /\ ~all.on
    /\ ret' = "none"
    /\ UNCHANGED <<stack, all, runs, graphVars, cacheVars, nodeVars, broken>>

-----------------------------------------------------------------------------
(* resolve_all() *)

ResolveAll ==
    /\ Idle /\ committed
    /\ all' = [NoLoop EXCEPT !.on = TRUE]
    /\ runs' = [k \in Keys |-> 0]
    /\ UNCHANGED <<stack, ret, graphVars, cacheVars, nodeVars, broken>>

Current == CHOOSE k \in known : topo[k] = all.at
InLoop == all.on /\ stack = <<>> /\ ret = "none" /\ all.at <= Cardinality(known)

NextWith(ok, failed) == [on |-> TRUE, at |-> all.at + 1, ok |-> ok, failed |-> failed]
SkipCounted == NextWith(all.ok + 1, all.failed)

AllCached ==
    /\ InLoop /\ Current \in valid
    /\ all' = SkipCounted
    /\ UNCHANGED <<stack, ret, runs, graphVars, cacheVars, nodeVars, broken>>

AllResolve ==
    /\ InLoop /\ Current \notin valid
    /\ Enter(Current, stack)
    /\ UNCHANGED <<all, runs, graphVars, cacheVars, nodeVars, broken>>

AllReturned ==
    /\ all.on /\ stack = <<>> /\ ret # "none"
    /\ all' = IF ret = "ok" THEN NextWith(all.ok + 1, all.failed)
                            ELSE NextWith(all.ok, all.failed \cup {Current})
    /\ ret' = "none"
    /\ UNCHANGED <<stack, runs, graphVars, cacheVars, nodeVars, broken>>

AllDone ==
    /\ all.on /\ stack = <<>> /\ ret = "none" /\ all.at > Cardinality(known)
    /\ all' = NoLoop
    /\ runs' = [k \in Keys |-> 0]
    /\ UNCHANGED <<stack, ret, graphVars, cacheVars, nodeVars, broken>>

-----------------------------------------------------------------------------
(* cache(): a caller may drop results; and what compilers read may change. *)

Invalidate(k) ==
    /\ Idle /\ drops < MaxDrops /\ k \in valid
    /\ valid' = valid \ {k}
    /\ stale' = stale \cup {k}
    /\ drops' = drops + 1
    /\ UNCHANGED <<handle, graphVars, nodeVars, callVars, broken>>

Evict(k) ==
    /\ Idle /\ drops < MaxDrops /\ k \in valid \cup stale
    /\ valid' = valid \ {k}
    /\ stale' = stale \ {k}
    /\ handle' = [handle EXCEPT ![k] = Null]
    /\ drops' = drops + 1
    /\ UNCHANGED <<graphVars, nodeVars, callVars, broken>>

Clear ==
    /\ Idle /\ drops < MaxDrops /\ valid \cup stale # {}
    /\ valid' = {} /\ stale' = {}
    /\ handle' = [k \in Keys |-> Null]
    /\ drops' = drops + 1
    /\ UNCHANGED <<graphVars, nodeVars, callVars, broken>>

Flip(k) ==
    /\ broken' = IF k \in broken THEN broken \ {k} ELSE broken \cup {k}
    /\ UNCHANGED <<graphVars, cacheVars, nodeVars, callVars>>

-----------------------------------------------------------------------------
Call == ResolveDep \/ DepReturned \/ Compile \/ Return
Loop == AllCached \/ AllResolve \/ AllReturned \/ AllDone

Next ==
    \/ \E k \in Keys, ds \in SUBSET Keys : Register(k, ds)
    \/ CommitAccepted \/ CommitRefused
    \/ \E k \in Keys : Resolve(k)
    \/ ResolveAll
    \/ Call
    \/ Loop
    \/ \E k \in Keys : Invalidate(k) \/ Evict(k) \/ Flip(k)
    \/ Clear

Spec == Init /\ [][Next]_vars

\* A call that has begun runs to its end.
FairSpec == Spec /\ WF_vars(Call \/ Loop)

-----------------------------------------------------------------------------
(* Properties *)

Frame == [key : Keys, todo : SUBSET Keys, now : SUBSET Keys]

\* Every variable of the asset system has its type; a cache entry is valid or
\* stale but not both, and a handle never outlives its entry.
TypeOK ==
    /\ known \subseteq Keys /\ deps \in [Keys -> SUBSET Keys] /\ intact \subseteq known
    /\ committed \in BOOLEAN /\ topo \in [Keys -> Nat] /\ commits \in 0..MaxCommits
    /\ valid \subseteq Keys /\ stale \subseteq Keys /\ handle \in [Keys -> Nat]
    /\ \A k \in Keys \ (valid \cup stale) : handle[k] = Null
    /\ valid \cap stale = {}
    /\ drops \in 0..MaxDrops
    /\ nodes \subseteq Keys /\ payload \in [Keys -> Nat] /\ builds \in [Keys -> Nat]
    /\ stack \in Seq(Frame) /\ ret \in Errors \cup {"none", "ok"}
    /\ all \in [on : BOOLEAN, at : Nat, ok : Nat, failed : SUBSET Keys]
    /\ runs \in [Keys -> Nat] /\ broken \subseteq Keys /\ compilers \subseteq Keys

\* The calls under way form a path of the graph, from dependent to
\* prerequisite, on which no key occurs twice: resolve() never re-enters a key
\* it is already resolving, and its recursion is bounded by the graph.
StackDescends ==
    \A i, j \in 1..Len(stack) : i < j => topo[stack[j].key] < topo[stack[i].key]

\* compiled_nodes_.at(dep_key) never throws: every prerequisite a call has
\* passed is still in the cache, and what is in the cache has its node.
NodesPresent ==
    /\ valid \subseteq nodes
    /\ \A i \in 1..Len(stack) : deps[stack[i].key] \ stack[i].todo \subseteq valid

\* A prerequisite shared by several dependents is compiled once in one call of
\* resolve(), even when the call ends in failure.
OncePerCall == ~all.on => \A k \in Keys : runs[k] <= 1

\* resolve_all() accounts for every node once, and the nodes it counts as
\* compiled are in the cache.
AllAccounted ==
    all.on =>
        /\ all.ok + Cardinality(all.failed) = all.at - 1
        /\ \A k \in known : topo[k] < all.at /\ k \notin all.failed => k \in valid

\* What find_compiled() and the queries show for a key is what resolve()
\* returned for it: compiled_nodes_ is parallel to the cache.
ParallelToCache ==
    \A k \in valid \ Carriers : handle[k] = payload[k]

\* A key becomes ready only by a build from prerequisites that are ready, and
\* is not built again until it is dropped.
Demand == INSTANCE DemandBuild WITH graph <- deps, frozen <- committed, ready <- valid
DemandSpec == Demand!Spec

\* Every resolve() and resolve_all() returns.
CallsReturn == ~Idle ~> Idle

\* A commit() that returned false leaves the registrations as they were.
RegistrationKept == known = intact
=============================================================================
