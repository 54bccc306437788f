------------------------------ MODULE JobGraph ------------------------------
(***************************************************************************)
(* The per-frame job graph (src/src/jobs and src/window_engine/jobs):      *)
(* JobGraphTemplate is built and committed once; every frame               *)
(* FrameExecution::reset() copies its indegrees, bind() attaches the       *)
(* frame's data, and DagScheduler::execute() runs the jobs on the calling  *)
(* thread, popping a ready stack and counting down the inputs of each      *)
(* job's dependents.  The application (src/src/engine/game_app.cpp) makes  *)
(* these calls in this order in each update.                               *)
(*                                                                         *)
(* External: wz::core::graph, whose build() finds cycles; it lists the     *)
(* roots and the dependents of a node in an order of its own, and holds an *)
(* edge at most once.                                                      *)
(***************************************************************************)
EXTENDS Integers, Sequences, FiniteSets

CONSTANTS
    Jobs,        \* node handles a program may use
    MaxFrames    \* bound: frames, that is calls of reset()

ASSUME JobAssumption == IsFiniteSet(Jobs) /\ MaxFrames \in Nat

VARIABLES
    phase,       \* JobGraphTemplate: "building", "committed" or "refused"
    jobs,        \* its nodes
    pre,         \* pre[j]: the prerequisites of j, its edges
    indegree,    \* indegree_
    roots,       \* initial_ready_
    status,      \* FrameExecution::status
    inputs,      \* FrameExecution::remaining_inputs
    bindings,    \* FrameExecution::bindings: the frame whose data is bound
    remaining,   \* FrameExecution::remaining_jobs
    ready,       \* DagScheduler::ready_
    active,      \* is execute() under way?
    current,     \* the job run_node() is running: at most one
    profile,     \* FrameJobProfile::timings, the nodes in order
    frame,       \* frames begun
    fresh        \* has reset() been called since the last execute()?

graphVars == <<phase, jobs, pre, indegree, roots>>
execVars  == <<status, inputs, bindings, remaining>>
schedVars == <<ready, active, current, profile>>
vars == <<graphVars, execVars, schedVars, frame, fresh>>

Unbound == 0    \* nullptr

Init ==
    /\ phase = "building" /\ jobs = {} /\ pre = [j \in Jobs |-> {}]
    /\ indegree = [j \in Jobs |-> 0] /\ roots = {}
    /\ status = [j \in Jobs |-> "Pending"] /\ inputs = [j \in Jobs |-> 0]
    /\ bindings = [j \in Jobs |-> Unbound] /\ remaining = 0
    /\ ready = <<>> /\ active = FALSE /\ current = {} /\ profile = <<>>
    /\ frame = 0 /\ fresh = FALSE

-----------------------------------------------------------------------------
(* JobGraphTemplate *)

AddJob(j) ==
    /\ phase = "building" /\ j \notin jobs
    /\ jobs' = jobs \cup {j}
    /\ UNCHANGED <<phase, pre, indegree, roots, execVars, schedVars, frame, fresh>>

\* The jobs of an edge have been added before, and no job waits for itself:
\* what add_edge() makes of that is up to the graph library.
AddDependency(a, b) ==
    /\ phase = "building" /\ a \in jobs /\ b \in jobs /\ a # b
    /\ pre' = [pre EXCEPT ![b] = @ \cup {a}]
    /\ UNCHANGED <<phase, jobs, indegree, roots, execVars, schedVars, frame, fresh>>

\* The graph can be sorted topologically.
AnyGraph == TRUE
Sortable ==
    \E t \in [Jobs -> 0..Cardinality(Jobs)] : \A j \in Jobs, a \in Jobs : a \in pre[j] => t[a] < t[j]

RootsOfGraph == {j \in jobs : pre[j] = {}}

CommitAccepted ==
    /\ phase = "building" /\ Sortable
    /\ phase' = "committed"
    /\ indegree' = [j \in Jobs |-> Cardinality(pre[j])]
    /\ roots' = RootsOfGraph
    /\ UNCHANGED <<jobs, pre, execVars, schedVars, frame, fresh>>

\* The builder has been moved into build() and is lost; commit() is called
\* once, so this template is never used.
CommitRefused ==
    /\ phase = "building" /\ ~Sortable
    /\ phase' = "refused"
    /\ UNCHANGED <<jobs, pre, indegree, roots, execVars, schedVars, frame, fresh>>

-----------------------------------------------------------------------------
(* FrameExecution *)

KeepInputs == UNCHANGED inputs
CopyInputs == inputs' = indegree

KeepBindings == UNCHANGED bindings
ClearBindings == bindings' = [j \in Jobs |-> Unbound]

CountDownOn == UNCHANGED remaining
CountAll == remaining' = Cardinality(jobs)

Reset ==
    /\ phase = "committed" /\ ~active /\ frame < MaxFrames
    /\ status' = [j \in Jobs |-> "Pending"]
    /\ CopyInputs
    /\ ClearBindings
    /\ CountAll
    /\ frame' = frame + 1
    /\ fresh' = TRUE
    /\ UNCHANGED <<graphVars, schedVars>>

Bind(j) ==
    /\ fresh /\ j \in jobs
    /\ bindings' = [bindings EXCEPT ![j] = frame]
    /\ UNCHANGED <<status, inputs, remaining, graphVars, schedVars, frame, fresh>>

-----------------------------------------------------------------------------
(* DagScheduler *)

\* Every way to list a set.
Listings(S) ==
    {s \in [1..Cardinality(S) -> S] :
        /\ \A x \in S : \E i \in 1..Cardinality(S) : s[i] = x
        /\ \A i, k \in 1..Cardinality(S) : s[i] = s[k] => i = k}

\* execute() checks nothing.  That the execution was reset from the template is
\* what its callers do in every frame (frame_execution.h:32, game_app.cpp); the
\* profile is reset and attached just before.
Execute ==
    /\ fresh
    /\ \E s \in Listings(roots) : ready' = s
    /\ status' = [j \in Jobs |-> IF j \in roots THEN "Ready" ELSE status[j]]
    /\ active' = TRUE
    /\ profile' = <<>>
    /\ fresh' = FALSE
    /\ UNCHANGED <<current, inputs, bindings, remaining, graphVars, frame>>

\* run_node(): the newest ready job, with what is bound to it.
RunNode ==
    /\ active /\ current = {} /\ ready # <<>>
    /\ LET n == ready[Len(ready)] IN
          /\ status' = [status EXCEPT ![n] = "Running"]
          /\ current' = {n}
    /\ ready' = SubSeq(ready, 1, Len(ready) - 1)
    /\ UNCHANGED <<active, profile, inputs, bindings, remaining, graphVars, frame, fresh>>

\* complete_node(): the inputs of every dependent are counted down, and those
\* left with none become ready.
AtMostOneLeft(n) == {d \in jobs : n \in pre[d] /\ inputs[d] - 1 <= 1}
NoneLeft(n) == {d \in jobs : n \in pre[d] /\ inputs[d] - 1 = 0}

CompleteNode ==
    /\ \E n \in current :
          /\ profile' = Append(profile, n)
          /\ inputs' = [d \in Jobs |-> IF d \in jobs /\ n \in pre[d] THEN inputs[d] - 1 ELSE inputs[d]]
          /\ status' = [j \in Jobs |-> IF j \in NoneLeft(n) THEN "Ready"
                                       ELSE IF j = n THEN "Done" ELSE status[j]]
          /\ \E s \in Listings(NoneLeft(n)) : ready' = ready \o s
    /\ remaining' = remaining - 1
    /\ current' = {}
    /\ UNCHANGED <<active, bindings, graphVars, frame, fresh>>

ExecuteReturns ==
    /\ active /\ current = {} /\ ready = <<>>
    /\ active' = FALSE
    /\ UNCHANGED <<ready, current, profile, execVars, graphVars, frame, fresh>>

-----------------------------------------------------------------------------
Run == RunNode \/ CompleteNode \/ ExecuteReturns

Next ==
    \/ \E j \in Jobs : AddJob(j) \/ Bind(j)
    \/ \E a, b \in Jobs : AddDependency(a, b)
    \/ CommitAccepted \/ CommitRefused
    \/ Reset \/ Execute
    \/ Run

Spec == Init /\ [][Next]_vars

\* execute() runs to its end: every job returns.
FairSpec == Spec /\ WF_vars(Run)

-----------------------------------------------------------------------------
(* Properties *)

Done == {j \in jobs : status[j] = "Done"}

\* Every variable of the job graph has its type; in particular the unsigned
\* counters remaining_inputs and remaining_jobs are never counted below zero.
TypeOK ==
    /\ phase \in {"building", "committed", "refused"}
    /\ jobs \subseteq Jobs /\ pre \in [Jobs -> SUBSET jobs]
    /\ indegree \in [Jobs -> Nat] /\ roots \subseteq jobs
    /\ status \in [Jobs -> {"Pending", "Ready", "Running", "Done"}]
    /\ inputs \in [Jobs -> Nat] /\ bindings \in [Jobs -> Nat] /\ remaining \in Nat
    /\ ready \in Seq(jobs) /\ active \in BOOLEAN /\ current \subseteq jobs
    /\ profile \in Seq(jobs) /\ frame \in 0..MaxFrames /\ fresh \in BOOLEAN

\* While a frame is prepared or executed, remaining_inputs of a job is the
\* number of its prerequisites that are not done, and remaining_jobs the
\* number of jobs that are not done.
CountersExact ==
    fresh \/ active =>
        /\ \A d \in jobs : inputs[d] = Cardinality({a \in pre[d] : status[a] # "Done"})
        /\ remaining = Cardinality(jobs \ Done)

\* When execute() has returned, every job of the frame has run, whatever the
\* shape of the graph: no job is stranded with inputs that nobody completes.
AllRun ==
    phase = "committed" /\ frame > 0 /\ ~fresh /\ ~active => Done = jobs

\* A job never runs with the data of an earlier frame, which its caller has
\* destroyed (frame_data is a local of update()): it sees this frame's or none.
NoStaleBinding ==
    \A j \in current : bindings[j] \in {Unbound, frame}

\* The jobs of a frame run once each, one at a time, after their prerequisites,
\* and the frame ends only when all have run.
Ordered == INSTANCE JobOrder WITH
    planned <- jobs,
    open    <- active,
    running <- current,
    done    <- Done
OrderSpec == Ordered!Spec

\* Once execute() is called, every job of the graph runs.
EveryJobRuns == \A j \in Jobs : (active /\ j \in jobs) ~> status[j] = "Done"
=============================================================================
