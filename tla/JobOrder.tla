------------------------------ MODULE JobOrder ------------------------------
(***************************************************************************)
(* What a frame's job graph promises the frame: between the beginning and  *)
(* the end of a frame every job runs exactly once, one at a time, and only *)
(* when all its prerequisites have run.                                    *)
(***************************************************************************)
CONSTANT Jobs

VARIABLES
    pre,       \* pre[j]: the prerequisites of job j
    planned,   \* the jobs of the frame; fixed, like pre, once frames begin
    open,      \* is a frame under way?
    running,   \* the job now running: at most one
    done       \* jobs that have run in this frame

order == <<pre, planned, open, running, done>>

Init ==
    /\ pre = [j \in Jobs |-> {}]
    /\ planned = {}
    /\ open = FALSE
    /\ running = {}
    /\ done = {}

Plan ==
    /\ ~open /\ done = {}
    /\ pre' \in [Jobs -> SUBSET Jobs]
    /\ planned' \in SUBSET Jobs
    /\ UNCHANGED <<open, running, done>>

Begin ==
    /\ ~open
    /\ open' = TRUE
    /\ done' = {}
    /\ UNCHANGED <<pre, planned, running>>

Start(j) ==
    /\ open /\ running = {}
    /\ j \in planned \ done
    /\ pre[j] \subseteq done
    /\ running' = {j}
    /\ UNCHANGED <<pre, planned, open, done>>

Finish(j) ==
    /\ running = {j}
    /\ running' = {}
    /\ done' = done \cup {j}
    /\ UNCHANGED <<pre, planned, open>>

End ==
    /\ open /\ running = {} /\ done = planned
    /\ open' = FALSE
    /\ UNCHANGED <<pre, planned, running, done>>

\* The books of a closed frame may be wiped before the next one begins.
Forget ==
    /\ ~open
    /\ done' = {}
    /\ UNCHANGED <<pre, planned, open, running>>

Next ==
    \/ Plan \/ Begin \/ End \/ Forget
    \/ \E j \in Jobs : Start(j) \/ Finish(j)

Spec == Init /\ [][Next]_order
=============================================================================
