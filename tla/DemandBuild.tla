---------------------------- MODULE DemandBuild ----------------------------
(***************************************************************************)
(* What the asset system promises, apart from how it does it: a graph of   *)
(* keys is declared and then frozen; from then on a key becomes ready only *)
(* by being built, once, from prerequisites that are all ready, and stays  *)
(* ready until somebody drops it.                                          *)
(***************************************************************************)
CONSTANT Keys

VARIABLES
    graph,    \* graph[k]: the prerequisites of k
    frozen,   \* has the graph been committed?
    ready     \* keys whose result is available

build == <<graph, frozen, ready>>

Init ==
    /\ graph = [k \in Keys |-> {}]
    /\ frozen = FALSE
    /\ ready = {}

Declare(k, ds) ==
    /\ ~frozen
    /\ graph' = [graph EXCEPT ![k] = ds]
    /\ UNCHANGED <<frozen, ready>>

Freeze ==
    /\ ~frozen
    /\ frozen' = TRUE
    /\ UNCHANGED <<graph, ready>>

Build(k) ==
    /\ frozen
    /\ k \notin ready
    /\ graph[k] \subseteq ready
    /\ ready' = ready \cup {k}
    /\ UNCHANGED <<graph, frozen>>

Drop(ks) ==
    /\ ready' = ready \ ks
    /\ UNCHANGED <<graph, frozen>>

Next ==
    \/ \E k \in Keys, ds \in SUBSET Keys : Declare(k, ds)
    \/ Freeze
    \/ \E k \in Keys : Build(k)
    \/ \E ks \in SUBSET Keys : Drop(ks)

Spec == Init /\ [][Next]_build
=============================================================================
