--------------------------- MODULE JobGraphProofs ---------------------------
(***************************************************************************)
(* For every number of jobs, every graph and any number of frames: the     *)
(* types of JobGraph (no unsigned counter is counted below zero), the      *)
(* exactness of the two counters, that execute() leaves no job behind, the *)
(* order of the jobs, and that no job sees data of an earlier frame.       *)
(***************************************************************************)
EXTENDS JobGraph, FiniteSetTheorems, SequenceTheorems, WellFoundedInduction, TLAPS

\* The prerequisites a job still waits for.
Awaited(d) == {a \in pre[d] : status[a] # "Done"}

\* What commit() has computed, and what is idle outside execute().
GraphInv ==
    /\ phase = "committed" =>
          /\ Sortable
          /\ \A j \in Jobs : indegree[j] = Cardinality(pre[j])
          /\ roots = {j \in jobs : pre[j] = {}}
    /\ phase # "committed" =>
          ~fresh /\ ~active /\ frame = 0 /\ \A j \in Jobs : status[j] = "Pending"
    /\ fresh => ~active /\ \A j \in Jobs : status[j] = "Pending"
    /\ ~active => current = {} /\ ready = <<>>

\* During execute(): the ready stack holds the ready jobs, each once; one job
\* runs at most; and a job is pending as long as it has inputs to wait for.
ReadyInv ==
    active =>
        /\ \A i \in 1..Len(ready) : status[ready[i]] = "Ready"
        /\ \A i, k \in 1..Len(ready) : ready[i] = ready[k] => i = k
        /\ \A j \in jobs : status[j] = "Ready" => \E i \in 1..Len(ready) : ready[i] = j
        /\ \A j \in jobs : status[j] = "Running" <=> j \in current
        /\ \A a, b \in current : a = b
        /\ \A j \in jobs : status[j] = "Pending" <=> inputs[j] > 0

JobInv == TypeOK /\ GraphInv /\ CountersExact /\ ReadyInv /\ AllRun
-----------------------------------------------------------------------------
(* Finite sets of jobs *)

LEMMA JobsFinite ==
    ASSUME TypeOK
    PROVE  /\ IsFiniteSet(jobs) /\ Cardinality(jobs) \in Nat
           /\ IsFiniteSet(jobs \ Done) /\ Cardinality(jobs \ Done) \in Nat
           /\ \A d \in Jobs : IsFiniteSet(pre[d]) /\ Cardinality(pre[d]) \in Nat
           /\ \A d \in Jobs : IsFiniteSet(Awaited(d)) /\ Cardinality(Awaited(d)) \in Nat
<1>1. \A S \in SUBSET Jobs : IsFiniteSet(S) /\ Cardinality(S) \in Nat
  BY JobAssumption, FS_Subset, FS_CardinalityType DEF JobAssumption
<1>2. jobs \in SUBSET Jobs /\ jobs \ Done \in SUBSET Jobs  BY DEF TypeOK
<1>3. \A d \in Jobs : pre[d] \in SUBSET Jobs /\ Awaited(d) \in SUBSET Jobs  BY DEF TypeOK, Awaited
<1> QED  BY <1>1, <1>2, <1>3

\* A listing is a sequence that names every element of the set once.
LEMMA ListingIsSeq ==
    ASSUME NEW S, IsFiniteSet(S), NEW s \in Listings(S)
    PROVE  /\ s \in Seq(S) /\ Len(s) = Cardinality(S) /\ Len(s) \in Nat
           /\ \A i \in 1..Len(s) : s[i] \in S
           /\ \A x \in S : \E i \in 1..Len(s) : s[i] = x
           /\ \A i, k \in 1..Len(s) : s[i] = s[k] => i = k
<1>1. Cardinality(S) \in Nat  BY FS_CardinalityType
<1>2. s \in [1..Cardinality(S) -> S]  BY DEF Listings
<1>3. s \in Seq(S)  BY <1>1, <1>2
<1>4. Len(s) = Cardinality(S)
  <2>1. Len(s) \in Nat /\ DOMAIN s = 1..Len(s)  BY <1>3, LenProperties
  <2>2. 1..Len(s) = 1..Cardinality(S)  BY <1>2, <2>1
  <2> QED  BY ONLY <1>1, <2>1, <2>2
<1> QED  BY <1>1, <1>2, <1>3, <1>4 DEF Listings

LEMMA JobInit == Init => JobInv
<1> SUFFICES ASSUME Init PROVE JobInv  OBVIOUS
<1>1. TypeOK
  <2>1. ready \in Seq(jobs) /\ profile \in Seq(jobs)  BY EmptySeq DEF Init
  <2>2. frame \in 0..MaxFrames  BY JobAssumption DEF Init, JobAssumption
  <2>3. pre \in [Jobs -> SUBSET jobs]  BY DEF Init
  <2> QED  BY <2>1, <2>2, <2>3 DEF Init, TypeOK, Unbound
<1>2. GraphInv /\ CountersExact /\ ReadyInv /\ AllRun
  BY DEF Init, GraphInv, CountersExact, ReadyInv, AllRun
<1> QED  BY <1>1, <1>2 DEF JobInv

-----------------------------------------------------------------------------
(* The steps of the template *)

\* Building the template touches nothing that execute() uses.
LEMMA BuildSteps ==
    ASSUME JobInv, phase = "building",
           jobs \subseteq jobs', jobs' \subseteq Jobs, pre' \in [Jobs -> SUBSET jobs'],
           UNCHANGED <<execVars, schedVars, frame, fresh>>,
           \/ UNCHANGED <<phase, indegree, roots>>
           \/ phase' = "refused" /\ UNCHANGED <<indegree, roots>>
    PROVE  JobInv'
<1>1. ~fresh /\ ~active /\ frame = 0  BY DEF JobInv, GraphInv
<1>2. TypeOK'
  <2>1. ready' \in Seq(jobs') /\ profile' \in Seq(jobs')
    <3>1. \A q \in Seq(jobs) : q \in Seq(jobs')  OBVIOUS
    <3> QED  BY <3>1 DEF JobInv, TypeOK, schedVars
  <2> QED  BY <2>1 DEF JobInv, TypeOK, schedVars, execVars
<1>3. GraphInv' /\ CountersExact' /\ ReadyInv' /\ AllRun'
  BY <1>1 DEF JobInv, GraphInv, CountersExact, ReadyInv, AllRun, schedVars, execVars
<1> QED  BY <1>2, <1>3 DEF JobInv

LEMMA CommitStep ==
    ASSUME JobInv, CommitAccepted
    PROVE  JobInv'
<1>1. ~fresh /\ ~active /\ frame = 0  BY DEF JobInv, GraphInv, CommitAccepted
<1>2. \A j \in Jobs : Cardinality(pre[j]) \in Nat  BY JobsFinite DEF JobInv
<1>3. TypeOK'
  BY <1>2 DEF JobInv, TypeOK, CommitAccepted, RootsOfGraph, schedVars, execVars
<1>4. GraphInv'
  BY <1>1 DEF JobInv, GraphInv, CommitAccepted, RootsOfGraph, Sortable, schedVars, execVars
<1>5. CountersExact' /\ ReadyInv' /\ AllRun'
  BY <1>1 DEF JobInv, CountersExact, ReadyInv, AllRun, CommitAccepted, schedVars
<1> QED  BY <1>3, <1>4, <1>5 DEF JobInv

LEMMA TemplateNext ==
    ASSUME JobInv,
           \/ \E j \in Jobs : AddJob(j)
           \/ \E a, b \in Jobs : AddDependency(a, b)
           \/ CommitAccepted \/ CommitRefused
    PROVE  JobInv'
<1>1. ASSUME NEW j \in Jobs, AddJob(j) PROVE JobInv'
  BY <1>1, BuildSteps DEF AddJob, JobInv, TypeOK
<1>2. ASSUME NEW a \in Jobs, NEW b \in Jobs, AddDependency(a, b) PROVE JobInv'
  BY <1>2, BuildSteps DEF AddDependency, JobInv, TypeOK
<1>3. CASE CommitRefused  BY <1>3, BuildSteps DEF CommitRefused, JobInv, TypeOK
<1> QED  BY <1>1, <1>2, <1>3, CommitStep

-----------------------------------------------------------------------------
(* The steps that prepare a frame *)

\* Before anything has run, every prerequisite is awaited and no job is done.
LEMMA NothingDone ==
    ASSUME \A j \in Jobs : status[j] = "Pending", TypeOK
    PROVE  (\A d \in Jobs : Awaited(d) = pre[d]) /\ Done = {}
BY DEF TypeOK, Awaited, Done

LEMMA ResetStep ==
    ASSUME JobInv, Reset
    PROVE  JobInv'
<1>1. /\ UNCHANGED <<graphVars, schedVars>> /\ fresh' /\ ~active'
      /\ inputs' = indegree /\ remaining' = Cardinality(jobs)
      /\ \A j \in Jobs : status'[j] = "Pending"
  BY DEF JobInv, TypeOK, Reset, CopyInputs, CountAll, schedVars
<1>2. TypeOK'
  <2>1. Cardinality(jobs) \in Nat  BY JobsFinite DEF JobInv
  <2>2. frame' \in 0..MaxFrames  BY JobAssumption DEF JobInv, TypeOK, Reset, JobAssumption
  <2> QED  BY <1>1, <2>1, <2>2 DEF JobInv, TypeOK, Reset, ClearBindings, Unbound, graphVars, schedVars
<1>3. GraphInv'
  BY <1>1 DEF JobInv, GraphInv, Reset, Sortable, graphVars, schedVars
<1>4. CountersExact'
  <2>1. \A d \in Jobs : Awaited(d)' = pre[d]
    BY <1>1 DEF Awaited, graphVars, JobInv, TypeOK
  <2>2. Done' = {}  BY <1>1, <1>2 DEF Done, TypeOK
  <2>3. \A d \in jobs : inputs'[d] = Cardinality(Awaited(d)')
    BY <1>1, <2>1 DEF JobInv, TypeOK, GraphInv, Reset
  <2>4. remaining' = Cardinality((jobs \ Done)')
    BY <1>1, <2>2 DEF graphVars
  <2> QED  BY <1>1, <2>3, <2>4 DEF CountersExact, Awaited, graphVars
<1>5. ReadyInv' /\ AllRun'  BY <1>1 DEF ReadyInv, AllRun
<1> QED  BY <1>2, <1>3, <1>4, <1>5 DEF JobInv

LEMMA BindStep ==
    ASSUME JobInv, NEW j \in Jobs, Bind(j)
    PROVE  JobInv'
<1>1. TypeOK'  BY DEF JobInv, TypeOK, Bind, graphVars, schedVars
<1>2. /\ UNCHANGED <<phase, jobs, pre, indegree, roots, status, inputs, remaining>>
      /\ UNCHANGED <<ready, active, current, profile, frame, fresh>>
  BY DEF Bind, graphVars, schedVars
<1>3. GraphInv'  BY <1>2 DEF JobInv, GraphInv, Sortable
<1>4. CountersExact'  BY <1>2 DEF JobInv, CountersExact, Done
<1>5. ReadyInv' /\ AllRun'  BY <1>2 DEF JobInv, ReadyInv, AllRun, Done
<1> QED  BY <1>1, <1>3, <1>4, <1>5 DEF JobInv

-----------------------------------------------------------------------------
(* The steps of execute() *)

LEMMA ExecuteStep ==
    ASSUME JobInv, Execute
    PROVE  JobInv'
<1>1. PICK s \in Listings(roots) : ready' = s  BY DEF Execute
<1>2. /\ fresh /\ phase = "committed" /\ ~active /\ active' /\ ~fresh' /\ current = {}
      /\ roots = {j \in jobs : pre[j] = {}}
      /\ \A j \in Jobs : status[j] = "Pending"
      /\ UNCHANGED <<graphVars, current, inputs, bindings, remaining, frame>>
      /\ status' = [j \in Jobs |-> IF j \in roots THEN "Ready" ELSE status[j]]
      /\ profile' = <<>>
  BY DEF JobInv, GraphInv, Execute, TypeOK
<1>3. IsFiniteSet(roots) /\ roots \subseteq jobs
  BY <1>2, JobsFinite, FS_Subset DEF JobInv
<1>4. /\ s \in Seq(jobs) /\ Len(s) \in Nat
      /\ \A i \in 1..Len(s) : s[i] \in roots
      /\ \A x \in roots : \E i \in 1..Len(s) : s[i] = x
      /\ \A i, k \in 1..Len(s) : s[i] = s[k] => i = k
  <2>1. \A q \in Seq(roots) : q \in Seq(jobs)  BY <1>3
  <2> QED  BY <1>3, <2>1, ListingIsSeq
<1>5. TypeOK'
  <2>1. ready' \in Seq(jobs) /\ profile' \in Seq(jobs)  BY <1>1, <1>2, <1>4, EmptySeq
  <2>2. active' \in BOOLEAN /\ fresh' \in BOOLEAN  BY DEF Execute
  <2>3. UNCHANGED <<phase, jobs, pre, indegree, roots, current, inputs, bindings, remaining, frame>>
    BY <1>2 DEF graphVars
  <2>4. status' \in [Jobs -> {"Pending", "Ready", "Running", "Done"}]
    BY <1>2 DEF JobInv, TypeOK
  <2> QED  BY <2>1, <2>2, <2>3, <2>4 DEF JobInv, TypeOK
<1>6. GraphInv'  BY <1>2 DEF JobInv, GraphInv, Sortable, graphVars
<1>7. CountersExact'
  <2>1. \A d \in Jobs : status'[d] # "Done" /\ status[d] # "Done"  BY <1>2
  <2>2. \A d \in Jobs : Awaited(d)' = Awaited(d)
    BY <1>2, <2>1 DEF Awaited, graphVars, JobInv, TypeOK
  <2>3. (jobs \ Done)' = jobs \ Done  BY <1>2, <2>1 DEF Done, graphVars, JobInv, TypeOK
  <2>4. \A d \in jobs : inputs'[d] = Cardinality(Awaited(d)')
    BY <1>2, <2>2 DEF CountersExact, JobInv, Awaited, TypeOK
  <2>5. remaining' = Cardinality((jobs \ Done)')
    BY <1>2, <2>3 DEF CountersExact, JobInv
  <2> QED  BY <1>2, <2>4, <2>5 DEF CountersExact, Awaited, graphVars
<1>8. ReadyInv'
  <2>1. \A i \in 1..Len(ready') : status'[ready'[i]] = "Ready"
    BY <1>1, <1>2, <1>3, <1>4 DEF JobInv, TypeOK
  <2>2. \A j \in jobs : status'[j] = "Ready" => \E i \in 1..Len(ready') : ready'[i] = j
    BY <1>1, <1>2, <1>4 DEF JobInv, TypeOK
  <2>3. \A j \in jobs : status'[j] = "Running" <=> j \in current'
    BY <1>2 DEF JobInv, TypeOK
  <2>4. ASSUME NEW j \in jobs PROVE status'[j] = "Pending" <=> inputs'[j] > 0
    <3>1. inputs'[j] = Cardinality(pre[j])
      BY <1>2, NothingDone DEF JobInv, CountersExact, Awaited, TypeOK
    <3>2. IsFiniteSet(pre[j]) /\ Cardinality(pre[j]) \in Nat  BY JobsFinite DEF JobInv, TypeOK
    <3>3. Cardinality(pre[j]) = 0 <=> pre[j] = {}  BY <3>2, FS_EmptySet
    <3>4. status'[j] = "Pending" <=> pre[j] # {}  BY <1>2 DEF JobInv, TypeOK
    <3> QED  BY <3>1, <3>2, <3>3, <3>4
  <2>5. \A i, k \in 1..Len(ready') : ready'[i] = ready'[k] => i = k  BY <1>1, <1>4
  <2>6. jobs' = jobs /\ current' = {}  BY <1>2 DEF graphVars
  <2> QED  BY <2>1, <2>2, <2>3, <2>4, <2>5, <2>6 DEF ReadyInv
<1>9. AllRun'  BY <1>2 DEF AllRun
<1> QED  BY <1>5, <1>6, <1>7, <1>8, <1>9 DEF JobInv

LEMMA RunStep ==
    ASSUME JobInv, RunNode
    PROVE  JobInv'
<1> DEFINE n == ready[Len(ready)]
<1>1. /\ active /\ current = {} /\ ready # <<>> /\ UNCHANGED <<graphVars, active, profile, inputs,
           bindings, remaining, frame, fresh>>
      /\ status' = [status EXCEPT ![n] = "Running"] /\ current' = {n}
      /\ ready' = SubSeq(ready, 1, Len(ready) - 1)
      /\ ready \in Seq(jobs) /\ phase = "committed" /\ ~fresh
  BY DEF RunNode, JobInv, TypeOK, GraphInv
<1>2. Len(ready) \in Nat /\ Len(ready) > 0  BY <1>1, EmptySeq, LenProperties
<1>3. n \in jobs /\ n \in Jobs /\ status[n] = "Ready"
  BY <1>1, <1>2, ElementOfSeq DEF JobInv, TypeOK, ReadyInv
<1>4. /\ ready' \in Seq(jobs) /\ Len(ready') = Len(ready) - 1
      /\ \A i \in 1..(Len(ready) - 1) : ready'[i] = ready[i]
  <2>1. Len(ready) - 1 \in Int /\ 1 \in Int /\ \A i \in 1..(Len(ready) - 1) : ready[i] \in jobs
    BY <1>1, <1>2, ElementOfSeq
  <2>2. /\ SubSeq(ready, 1, Len(ready) - 1) \in Seq(jobs)
        /\ Len(SubSeq(ready, 1, Len(ready) - 1))
             = IF 1 <= Len(ready) - 1 THEN (Len(ready) - 1) - 1 + 1 ELSE 0
        /\ \A i \in 1..((Len(ready) - 1) - 1 + 1) :
             SubSeq(ready, 1, Len(ready) - 1)[i] = ready[1 + i - 1]
    BY <2>1, SubSeqProperties
  <2>3. PICK q : q = SubSeq(ready, 1, Len(ready) - 1)  OBVIOUS
  <2>4. PICK l : l = Len(ready)  OBVIOUS
  <2>5. Len(q) = (IF 1 <= l - 1 THEN (l - 1) - 1 + 1 ELSE 0) /\ l \in Nat /\ l > 0
    BY <1>2, <2>2, <2>3, <2>4
  <2>6. Len(q) = l - 1  BY ONLY <2>5
  <2>7. \A i \in 1..(l - 1) : q[i] = ready[i]  BY <2>2, <2>3, <2>4, <2>5
  <2> QED  BY <1>1, <2>2, <2>3, <2>4, <2>6, <2>7
<1>5. TypeOK'
  BY <1>1, <1>3, <1>4 DEF JobInv, TypeOK, graphVars
<1>6. GraphInv'  BY <1>1 DEF JobInv, GraphInv, Sortable, graphVars
<1>s. \A j \in Jobs : status'[j] = IF j = n THEN "Running" ELSE status[j]
  BY <1>1, <1>3 DEF JobInv, TypeOK
<1>7. CountersExact'
  <2>2. \A d \in Jobs : Awaited(d)' = Awaited(d)
    BY <1>1, <1>3, <1>s DEF Awaited, graphVars, JobInv, TypeOK
  <2>3. (jobs \ Done)' = jobs \ Done  BY <1>1, <1>3, <1>s DEF Done, graphVars, JobInv, TypeOK
  <2> QED  BY <1>1, <2>2, <2>3 DEF CountersExact, JobInv, Awaited, graphVars, TypeOK
<1>8. ReadyInv'
  <2>1. \A i, k \in 1..Len(ready) : ready[i] = ready[k] => i = k  BY <1>1 DEF JobInv, ReadyInv
  <2>2. ASSUME NEW i \in 1..Len(ready') PROVE status'[ready'[i]] = "Ready"
    <3>1. i \in 1..Len(ready) /\ i # Len(ready) /\ ready'[i] = ready[i]  BY <1>2, <1>4
    <3>2. ready[i] # n /\ ready[i] \in jobs  BY <1>1, <1>2, <2>1, <3>1, ElementOfSeq
    <3> QED  BY <1>1, <1>s, <3>1, <3>2 DEF JobInv, TypeOK, ReadyInv
  <2>3. \A i, k \in 1..Len(ready') : ready'[i] = ready'[k] => i = k  BY <1>2, <1>4, <2>1
  <2>4. ASSUME NEW j \in jobs, status'[j] = "Ready"
        PROVE  \E i \in 1..Len(ready') : ready'[i] = j
    <3>1. status[j] = "Ready" /\ j # n  BY <1>s, <2>4 DEF JobInv, TypeOK
    <3>2. PICK i \in 1..Len(ready) : ready[i] = j  BY <1>1, <3>1 DEF JobInv, ReadyInv
    <3>3. i \in 1..(Len(ready) - 1)  BY <1>2, <3>1, <3>2
    <3> QED  BY <1>4, <3>2, <3>3
  <2>5. \A j \in jobs : status'[j] = "Running" <=> j \in current'
    BY <1>1, <1>3, <1>s DEF JobInv, TypeOK, ReadyInv
  <2>6. \A j \in jobs : status'[j] = "Pending" <=> inputs'[j] > 0
    BY <1>1, <1>3, <1>s DEF JobInv, TypeOK, ReadyInv
  <2> QED  BY <1>1, <2>2, <2>3, <2>4, <2>5, <2>6 DEF ReadyInv, graphVars
<1>9. AllRun'  BY <1>1 DEF AllRun
<1> QED  BY <1>5, <1>6, <1>7, <1>8, <1>9 DEF JobInv

\* The dependents of the finished job wait for one prerequisite less, the
\* other jobs for the same ones.
LEMMA CompleteCounts ==
    ASSUME JobInv, NEW n \in jobs, status[n] = "Running",
           NEW R \in SUBSET jobs, \A d \in R : status[d] = "Pending",
           jobs' = jobs, pre' = pre,
           status' = [j \in Jobs |-> IF j \in R THEN "Ready" ELSE IF j = n THEN "Done" ELSE status[j]]
    PROVE  /\ \A d \in jobs : Awaited(d)' = Awaited(d) \ {n}
           /\ \A d \in jobs : n \in pre[d] =>
                 /\ Cardinality(Awaited(d)) \in Nat /\ Cardinality(Awaited(d)) >= 1
                 /\ Cardinality(Awaited(d)') = Cardinality(Awaited(d)) - 1
           /\ \A d \in jobs : n \notin pre[d] => Awaited(d)' = Awaited(d)
           /\ Cardinality((jobs \ Done)') = Cardinality(jobs \ Done) - 1
           /\ Cardinality(jobs \ Done) \in Nat /\ Cardinality(jobs \ Done) >= 1
<1>1. n \in Jobs /\ n \notin R  BY DEF JobInv, TypeOK
<1>2. \A a \in jobs : status'[a] # "Done" <=> (status[a] # "Done" /\ a # n)
  BY <1>1 DEF JobInv, TypeOK
<1>3. \A d \in jobs : Awaited(d)' = Awaited(d) \ {n}
  BY <1>2 DEF Awaited, JobInv, TypeOK
<1>4. \A d \in jobs : n \in pre[d] => n \in Awaited(d)  BY DEF Awaited
<1>5. ASSUME NEW S, IsFiniteSet(S), n \in S
      PROVE  Cardinality(S) \in Nat /\ Cardinality(S) >= 1 /\ Cardinality(S \ {n}) = Cardinality(S) - 1
  <2>1. Cardinality(S) \in Nat /\ Cardinality(S \ {n}) = Cardinality(S) - 1
    BY <1>5, FS_CardinalityType, FS_RemoveElement
  <2>2. Cardinality(S) # 0  BY <1>5, FS_EmptySet
  <2> QED  BY <2>1, <2>2
<1>6. (jobs \ Done)' = (jobs \ Done) \ {n} /\ n \in jobs \ Done
  BY <1>2 DEF Done
<1>7. \A d \in jobs : n \notin pre[d] => Awaited(d)' = Awaited(d)
  BY <1>3 DEF Awaited
<1>8. IsFiniteSet(jobs \ Done) /\ \A d \in jobs : IsFiniteSet(Awaited(d))
  BY JobsFinite DEF JobInv, TypeOK
<1> QED
  <2>1. ASSUME NEW d \in jobs, n \in pre[d]
        PROVE  /\ Cardinality(Awaited(d)) \in Nat /\ Cardinality(Awaited(d)) >= 1
               /\ Cardinality(Awaited(d)') = Cardinality(Awaited(d)) - 1
    <3>1. n \in Awaited(d) /\ IsFiniteSet(Awaited(d)) /\ Awaited(d)' = Awaited(d) \ {n}
      BY <1>3, <1>4, <1>8, <2>1
    <3> QED  BY <3>1, <1>5
  <2>2. /\ Cardinality((jobs \ Done)') = Cardinality(jobs \ Done) - 1
        /\ Cardinality(jobs \ Done) \in Nat /\ Cardinality(jobs \ Done) >= 1
    BY <1>5, <1>6, <1>8
  <2> QED  BY <1>3, <1>7, <2>1, <2>2

LEMMA CompleteStep ==
    ASSUME JobInv, active, CompleteNode
    PROVE  JobInv'
<1>1. PICK n \in current :
         /\ profile' = Append(profile, n)
         /\ inputs' = [d \in Jobs |-> IF d \in jobs /\ n \in pre[d] THEN inputs[d] - 1 ELSE inputs[d]]
         /\ status' = [j \in Jobs |-> IF j \in NoneLeft(n) THEN "Ready"
                                      ELSE IF j = n THEN "Done" ELSE status[j]]
         /\ \E s \in Listings(NoneLeft(n)) : ready' = ready \o s
  BY DEF CompleteNode
<1>2. PICK L : L = NoneLeft(n)  OBVIOUS
<1>3. PICK s \in Listings(L) : ready' = ready \o s  BY <1>1, <1>2
<1>4. /\ n \in jobs /\ status[n] = "Running" /\ current = {n} /\ current' = {}
      /\ remaining' = remaining - 1 /\ phase = "committed" /\ ~fresh
      /\ UNCHANGED <<graphVars, active, bindings, frame, fresh>>
  BY <1>1 DEF CompleteNode, JobInv, TypeOK, GraphInv, ReadyInv
<1>5. UNCHANGED <<phase, jobs, pre, indegree, roots>>  BY <1>4 DEF graphVars
<1>6. \A j \in jobs : inputs[j] \in Nat /\ (status[j] = "Pending" <=> inputs[j] > 0)
  BY DEF JobInv, TypeOK, ReadyInv
<1>7. L \subseteq jobs /\ \A d \in L : n \in pre[d] /\ inputs[d] = 1 /\ status[d] = "Pending"
  BY <1>2, <1>6 DEF NoneLeft
<1>8. \A d \in jobs : d \notin L /\ n \in pre[d] => inputs[d] # 1
  BY <1>2, <1>6 DEF NoneLeft
<1>9. IsFiniteSet(L)  BY <1>7, JobsFinite, FS_Subset DEF JobInv
<1>10. /\ s \in Seq(jobs) /\ Len(s) \in Nat
       /\ \A i \in 1..Len(s) : s[i] \in L
       /\ \A x \in L : \E i \in 1..Len(s) : s[i] = x
       /\ \A i, k \in 1..Len(s) : s[i] = s[k] => i = k
  <2>1. \A q \in Seq(L) : q \in Seq(jobs)  BY <1>7
  <2> QED  BY <1>9, <2>1, ListingIsSeq
<1>11. ready \in Seq(jobs) /\ profile \in Seq(jobs) /\ Len(ready) \in Nat
  BY LenProperties DEF JobInv, TypeOK
<1>12. /\ ready' \in Seq(jobs) /\ Len(ready') = Len(ready) + Len(s)
       /\ \A i \in 1..(Len(ready) + Len(s)) :
             ready'[i] = IF i <= Len(ready) THEN ready[i] ELSE s[i - Len(ready)]
  <2>1. /\ ready \o s \in Seq(jobs) /\ Len(ready \o s) = Len(ready) + Len(s)
        /\ \A i \in 1..Len(ready) + Len(s) :
              (ready \o s)[i] = IF i <= Len(ready) THEN ready[i] ELSE s[i - Len(ready)]
    <3>1. ready \in Seq(jobs) /\ s \in Seq(jobs)  BY <1>10, <1>11
    <3> QED  BY ONLY <3>1, ConcatProperties, Zenon
  <2> QED  BY <1>3, <2>1, Zenon
<1>13. profile' \in Seq(jobs)  BY <1>1, <1>4, <1>11, AppendProperties
<1>14. status' = [j \in Jobs |-> IF j \in L THEN "Ready" ELSE IF j = n THEN "Done" ELSE status[j]]
  BY <1>1, <1>2
<1>15. \A j \in jobs : status'[j] = IF j \in L THEN "Ready" ELSE IF j = n THEN "Done" ELSE status[j]
  BY <1>14 DEF JobInv, TypeOK
<1>16. /\ \A d \in jobs : n \in pre[d] =>
             /\ Cardinality(Awaited(d)) \in Nat /\ Cardinality(Awaited(d)) >= 1
             /\ Cardinality(Awaited(d)') = Cardinality(Awaited(d)) - 1
       /\ \A d \in jobs : n \notin pre[d] => Awaited(d)' = Awaited(d)
       /\ Cardinality((jobs \ Done)') = Cardinality(jobs \ Done) - 1
       /\ Cardinality(jobs \ Done) \in Nat /\ Cardinality(jobs \ Done) >= 1
  BY <1>4, <1>5, <1>7, <1>14, CompleteCounts
<1>17. /\ \A d \in jobs : inputs[d] = Cardinality(Awaited(d))
       /\ remaining = Cardinality(jobs \ Done)
  BY DEF JobInv, CountersExact, Awaited
<1>18. inputs' \in [Jobs -> Nat]
       /\ \A d \in jobs : inputs'[d] = IF n \in pre[d] THEN inputs[d] - 1 ELSE inputs[d]
  <2>1. \A d \in Jobs : inputs[d] \in Nat  BY DEF JobInv, TypeOK
  <2>2. \A d \in jobs : n \in pre[d] => inputs[d] >= 1  BY <1>16, <1>17
  <2>3. \A d \in jobs : d \in Jobs  BY DEF JobInv, TypeOK
  <2> QED  BY <1>1, <2>1, <2>2, <2>3
<1>19. TypeOK'
  <2>1. remaining' \in Nat  BY <1>4, <1>16, <1>17
  <2>2. status' \in [Jobs -> {"Pending", "Ready", "Running", "Done"}]
    BY <1>14 DEF JobInv, TypeOK
  <2>3. UNCHANGED <<active, bindings, frame, fresh>> /\ current' = {}  BY <1>4
  <2> QED  BY <1>5, <1>12, <1>13, <1>18, <2>1, <2>2, <2>3 DEF JobInv, TypeOK
<1>20. GraphInv'  BY <1>4, <1>5 DEF JobInv, GraphInv, Sortable
<1>21. CountersExact'
  <2>1. \A d \in jobs : inputs'[d] = Cardinality(Awaited(d)')  BY <1>16, <1>17, <1>18
  <2>2. remaining' = Cardinality((jobs \ Done)')  BY <1>4, <1>16, <1>17
  <2> QED  BY <1>5, <2>1, <2>2 DEF CountersExact, Awaited
<1>22. ReadyInv'
  <2>1. \A i \in 1..Len(ready) : ready[i] \in jobs /\ status[ready[i]] = "Ready"
    BY <1>11, ElementOfSeq DEF JobInv, ReadyInv
  <2>2. \A i, k \in 1..Len(ready) : ready[i] = ready[k] => i = k  BY DEF JobInv, ReadyInv
  <2>3. ASSUME NEW i \in 1..Len(ready')
        PROVE  \/ i \in 1..Len(ready) /\ ready'[i] = ready[i] /\ ready[i] \notin L
               \/ i - Len(ready) \in 1..Len(s) /\ ready'[i] = s[i - Len(ready)] /\ i > Len(ready)
    <3>1. i \in 1..(Len(ready) + Len(s))  BY <1>12
    <3>2. CASE i <= Len(ready)
      BY <1>7, <1>11, <1>12, <2>1, <3>1, <3>2
    <3>3. CASE i > Len(ready)
      BY <1>10, <1>11, <1>12, <3>1, <3>3
    <3> QED  BY <1>10, <1>11, <3>1, <3>2, <3>3
  <2>4. \A i \in 1..Len(ready') : status'[ready'[i]] = "Ready"
    BY <1>4, <1>7, <1>10, <1>15, <2>1, <2>3
  <2>5. ASSUME NEW i \in 1..Len(ready'), NEW k \in 1..Len(ready'), ready'[i] = ready'[k]
        PROVE  i = k
    <3>1. CASE i \in 1..Len(ready) /\ k \in 1..Len(ready)
      BY <1>11, <2>2, <2>3, <2>5, <3>1
    <3>2. CASE i > Len(ready) /\ k > Len(ready)
      <4>1. i - Len(ready) \in 1..Len(s) /\ k - Len(ready) \in 1..Len(s)
            /\ s[i - Len(ready)] = s[k - Len(ready)]
        BY <1>11, <2>3, <2>5, <3>2
      <4>2. i - Len(ready) = k - Len(ready)  BY <1>10, <4>1
      <4>3. i \in Int /\ k \in Int /\ Len(ready) \in Int  BY <1>11
      <4> QED  BY ONLY <4>2, <4>3
    <3>3. CASE i > Len(ready) /\ k \in 1..Len(ready)
      <4>1. ready'[k] = ready[k] /\ ready[k] \notin L  BY <1>11, <2>3, <3>3
      <4>2. i - Len(ready) \in 1..Len(s) /\ ready'[i] = s[i - Len(ready)]  BY <1>11, <2>3, <3>3
      <4>3. s[i - Len(ready)] \in L  BY <1>10, <4>2
      <4> QED  BY <2>5, <4>1, <4>2, <4>3
    <3>4. CASE k > Len(ready) /\ i \in 1..Len(ready)
      <4>1. ready'[i] = ready[i] /\ ready[i] \notin L  BY <1>11, <2>3, <3>4
      <4>2. k - Len(ready) \in 1..Len(s) /\ ready'[k] = s[k - Len(ready)]  BY <1>11, <2>3, <3>4
      <4>3. s[k - Len(ready)] \in L  BY <1>10, <4>2
      <4> QED  BY <2>5, <4>1, <4>2, <4>3
    <3> QED  BY <2>3, <3>1, <3>2, <3>3, <3>4
  <2>6. ASSUME NEW j \in jobs, status'[j] = "Ready"
        PROVE  \E i \in 1..Len(ready') : ready'[i] = j
    <3>1. CASE j \in L
      <4>1. PICK i \in 1..Len(s) : s[i] = j  BY <1>10, <3>1
      <4>2. PICK m : m = i + Len(ready)  OBVIOUS
      <4>3. m \in 1..(Len(ready) + Len(s)) /\ ~(m <= Len(ready)) /\ m - Len(ready) = i
        BY <1>10, <1>11, <4>2
      <4> QED  BY <1>12, <4>1, <4>3
    <3>2. CASE j \notin L
      <4>1. status[j] = "Ready"  BY <1>15, <2>6, <3>2
      <4>2. PICK i \in 1..Len(ready) : ready[i] = j  BY <4>1 DEF JobInv, ReadyInv
      <4>3. i \in 1..(Len(ready) + Len(s)) /\ i <= Len(ready)  BY <1>10, <1>11
      <4> QED  BY <1>12, <4>2, <4>3
    <3> QED  BY <3>1, <3>2
  <2>7. \A j \in jobs : status'[j] = "Running" <=> j \in current'
    BY <1>4, <1>7, <1>15 DEF JobInv, ReadyInv
  <2>8. \A j \in jobs : status'[j] = "Pending" <=> inputs'[j] > 0
    <3> SUFFICES ASSUME NEW j \in jobs PROVE status'[j] = "Pending" <=> inputs'[j] > 0
      OBVIOUS
    <3>1. CASE j \in L  BY <1>6, <1>7, <1>15, <1>18, <3>1
    <3>2. CASE j \notin L /\ n \in pre[j]
      <4>1. inputs[j] \in Nat /\ inputs[j] >= 1 /\ inputs[j] # 1  BY <1>6, <1>8, <1>16, <1>17, <3>2
      <4>2. inputs'[j] = inputs[j] - 1  BY <1>18, <3>2
      <4>3. status[j] = "Pending" /\ j # n  BY <1>4, <1>6, <4>1
      <4> QED  BY <1>15, <3>2, <4>1, <4>2, <4>3
    <3>3. CASE j \notin L /\ n \notin pre[j]
      <4>1. inputs'[j] = inputs[j]  BY <1>18, <3>3
      <4>2. status[n] # "Pending"  BY <1>4
      <4> QED  BY <1>6, <1>15, <3>3, <4>1, <4>2
    <3> QED  BY <3>1, <3>2, <3>3
  <2> QED  BY <1>4, <1>5, <2>4, <2>5, <2>6, <2>7, <2>8 DEF ReadyInv
<1>23. AllRun'  BY <1>4 DEF AllRun
<1> QED  BY <1>19, <1>20, <1>21, <1>22, <1>23 DEF JobInv

\* execute() returns when the ready stack is empty: if jobs were left, they
\* would all be pending, and the first of them in a topological order would
\* wait for nothing.
LEMMA ReturnsDone ==
    ASSUME JobInv, ExecuteReturns
    PROVE  Done = jobs
<1>a. /\ active /\ current = {} /\ ready = <<>> /\ ~fresh /\ phase = "committed"
  BY DEF ExecuteReturns, JobInv, GraphInv, execVars, graphVars
<1> DEFINE U == jobs \ Done
<1> SUFFICES ASSUME U # {} PROVE FALSE  BY DEF Done
<1>1. ASSUME NEW j \in U PROVE \E a \in U : a \in pre[j]
  <2>1. Len(ready) = 0  BY <1>a, EmptySeq
  <2>2. status[j] = "Pending"
    BY <1>a, <2>1 DEF JobInv, TypeOK, ReadyInv, Done
  <2>3. inputs[j] > 0 /\ inputs[j] = Cardinality(Awaited(j))
    BY <1>a, <2>2 DEF JobInv, ReadyInv, CountersExact, Awaited
  <2>4. Awaited(j) # {}  BY <2>3, FS_EmptySet
  <2> QED  BY <2>4 DEF Awaited, Done, JobInv, TypeOK
<1>2. PICK t \in [Jobs -> 0..Cardinality(Jobs)] : \A j \in Jobs, a \in Jobs : a \in pre[j] => t[a] < t[j]
  BY <1>a DEF JobInv, GraphInv, Sortable
<1>3. Cardinality(Jobs) \in Nat  BY JobAssumption, FS_CardinalityType DEF JobAssumption
<1>4. \A j \in U : j \in Jobs /\ t[j] \in Nat  BY <1>2, <1>3 DEF JobInv, TypeOK
<1> DEFINE T == {t[j] : j \in U}
<1>5. T \subseteq Nat /\ T # {}  BY <1>4
<1>6. \E x \in T : \A y \in T : ~(<<y, x>> \in OpToRel(<, Nat))
  <2> HIDE DEF T
  <2> QED  BY <1>5, NatLessThanWellFounded, WFMin, Zenon
<1>7. PICK j \in U : \A a \in U : ~(<<t[a], t[j]>> \in OpToRel(<, Nat))  BY <1>6
<1>8. PICK a \in U : a \in pre[j]  BY <1>1
<1>9. t[a] < t[j] /\ t[a] \in Nat /\ t[j] \in Nat  BY <1>2, <1>4, <1>8
<1>10. <<t[a], t[j]>> \in OpToRel(<, Nat)  BY <1>9 DEF OpToRel
<1> QED  BY <1>7, <1>10

LEMMA ReturnStep ==
    ASSUME JobInv, ExecuteReturns
    PROVE  JobInv'
<1>1. /\ active /\ current = {} /\ ready = <<>> /\ ~active' /\ ~fresh /\ phase = "committed"
      /\ UNCHANGED <<ready, current, profile, status, inputs, bindings, remaining, frame, fresh>>
      /\ UNCHANGED <<phase, jobs, pre, indegree, roots>>
  BY DEF ExecuteReturns, JobInv, GraphInv, execVars, graphVars
<1>2. Done = jobs  BY ReturnsDone
<1>3. TypeOK' /\ GraphInv' /\ CountersExact' /\ ReadyInv'
  <2>1. TypeOK'
    <3>1. active' \in BOOLEAN  BY DEF ExecuteReturns
    <3> QED  BY <1>1, <3>1 DEF JobInv, TypeOK
  <2>2. GraphInv'  BY <1>1 DEF JobInv, GraphInv, Sortable
  <2>3. CountersExact' /\ ReadyInv'  BY <1>1 DEF CountersExact, ReadyInv
  <2> QED  BY <2>1, <2>2, <2>3
<1>4. AllRun'  BY <1>1, <1>2 DEF AllRun, Done
<1> QED  BY <1>3, <1>4 DEF JobInv

-----------------------------------------------------------------------------
LEMMA JobNext == JobInv /\ [Next]_vars => JobInv'
<1> SUFFICES ASSUME JobInv, [Next]_vars PROVE JobInv'  OBVIOUS
<1>1. CASE UNCHANGED vars
  <2>1. UNCHANGED <<phase, jobs, pre, indegree, roots, status, inputs, bindings, remaining,
                    ready, active, current, profile, frame, fresh>>
    BY <1>1 DEF vars, graphVars, execVars, schedVars
  <2>2. TypeOK'  BY <2>1 DEF JobInv, TypeOK
  <2>3. GraphInv'  BY <2>1 DEF JobInv, GraphInv, Sortable
  <2>4. CountersExact' /\ ReadyInv' /\ AllRun'
    BY <2>1 DEF JobInv, CountersExact, ReadyInv, AllRun, Done
  <2> QED  BY <2>2, <2>3, <2>4 DEF JobInv
<1>2. ASSUME NEW j \in Jobs, Bind(j) PROVE JobInv'  BY <1>2, BindStep
<1>3. CASE \/ \E j \in Jobs : AddJob(j)
           \/ \E a, b \in Jobs : AddDependency(a, b)
           \/ CommitAccepted \/ CommitRefused
  BY <1>3, TemplateNext
<1>4. CASE Reset  BY <1>4, ResetStep
<1>5. CASE Execute  BY <1>5, ExecuteStep
<1>6. CASE RunNode  BY <1>6, RunStep
<1>7. CASE CompleteNode
  <2>1. active
    BY <1>7 DEF CompleteNode, JobInv, GraphInv
  <2> QED  BY <1>7, <2>1, CompleteStep
<1>8. CASE ExecuteReturns  BY <1>8, ReturnStep
<1> QED  BY <1>1, <1>2, <1>3, <1>4, <1>5, <1>6, <1>7, <1>8 DEF Next, Run

\* The inductive invariant holds at every state of the job graph.
THEOREM JobInvariant == Spec => []JobInv
BY JobInit, JobNext, PTL DEF Spec

\* Every variable keeps its type: no counter of inputs or of jobs ever wraps
\* below zero, in any graph.
THEOREM JobTypeCorrect == Spec => []TypeOK
<1>1. JobInv => TypeOK  BY DEF JobInv
<1> QED  BY <1>1, JobInvariant, PTL

\* remaining_inputs and remaining_jobs count exactly what is not done yet.
THEOREM CountersCorrect == Spec => []CountersExact
<1>1. JobInv => CountersExact  BY DEF JobInv
<1> QED  BY <1>1, JobInvariant, PTL

\* execute() returns only when every job of the graph has run: a committed
\* graph has no cycle, so an empty ready stack means that nothing is left.
THEOREM AllRunCorrect == Spec => []AllRun
<1>1. JobInv => AllRun  BY DEF JobInv
<1> QED  BY <1>1, JobInvariant, PTL

-----------------------------------------------------------------------------
(* The job graph implements the order a frame relies on *)

\* A job on the ready stack has not run, and its prerequisites all have.
LEMMA ReadyMayStart ==
    ASSUME JobInv, active, NEW n \in jobs, status[n] = "Ready"
    PROVE  n \in Jobs /\ n \notin Done /\ pre[n] \subseteq Done
<1>1. ~(inputs[n] > 0) /\ inputs[n] \in Nat  BY DEF JobInv, TypeOK, ReadyInv
<1>2. inputs[n] = Cardinality(Awaited(n))  BY DEF JobInv, CountersExact, Awaited
<1>3. Awaited(n) = {}
  <2>1. IsFiniteSet(Awaited(n)) /\ Cardinality(Awaited(n)) = 0
    BY <1>1, <1>2, JobsFinite DEF JobInv, TypeOK
  <2> QED  BY <2>1, FS_EmptySet
<1> QED  BY <1>3 DEF Awaited, Done, JobInv, TypeOK

LEMMA OrderStep ==
    ASSUME JobInv, Next
    PROVE  Ordered!Next \/ UNCHANGED Ordered!order
<1>1. ASSUME phase = "building", status' = status, active' = active, current' = current,
             jobs' \subseteq Jobs, pre' \in [Jobs -> SUBSET jobs']
      PROVE  Ordered!Plan
  <2>1. ~active /\ \A j \in Jobs : status[j] = "Pending"  BY <1>1 DEF JobInv, GraphInv
  <2>2. Done = {} /\ Done' = {}  BY <1>1, <2>1 DEF Done, JobInv, TypeOK
  <2>3. pre' \in [Jobs -> SUBSET Jobs] /\ jobs' \in SUBSET Jobs  BY <1>1
  <2> QED  BY <1>1, <2>1, <2>2, <2>3 DEF Ordered!Plan
<1>2. ASSUME NEW j \in Jobs, AddJob(j) PROVE Ordered!Plan
  BY <1>1, <1>2 DEF AddJob, JobInv, TypeOK, execVars, schedVars
<1>3. ASSUME NEW a \in Jobs, NEW b \in Jobs, AddDependency(a, b) PROVE Ordered!Plan
  BY <1>1, <1>3 DEF AddDependency, JobInv, TypeOK, execVars, schedVars
<1>4. ASSUME UNCHANGED <<pre, jobs, active, current, status>> PROVE UNCHANGED Ordered!order
  BY <1>4 DEF Done, Ordered!order
<1>5. ASSUME NEW j \in Jobs, Bind(j) PROVE UNCHANGED Ordered!order
  BY <1>4, <1>5 DEF Bind, graphVars, schedVars
<1>6. CASE CommitAccepted \/ CommitRefused
  BY <1>4, <1>6 DEF CommitAccepted, CommitRefused, execVars, schedVars
<1>7. CASE Reset
  <2>1. /\ ~active /\ UNCHANGED <<pre, jobs, active, current>>
        /\ \A j \in Jobs : status'[j] = "Pending"
    BY <1>7 DEF Reset, graphVars, schedVars
  <2>2. Done' = {}  BY <2>1 DEF Done, JobInv, TypeOK
  <2> QED  BY <2>1, <2>2 DEF Ordered!Next, Ordered!Forget
<1>8. CASE Execute
  <2>1. /\ ~active /\ active' = TRUE /\ UNCHANGED <<pre, jobs, current>>
        /\ \A j \in Jobs : status[j] = "Pending"
        /\ status' = [j \in Jobs |-> IF j \in roots THEN "Ready" ELSE status[j]]
    BY <1>8 DEF Execute, JobInv, GraphInv, graphVars
  <2>2. Done' = {}  BY <2>1 DEF Done, JobInv, TypeOK
  <2> QED  BY <2>1, <2>2 DEF Ordered!Next, Ordered!Begin
<1>9. CASE RunNode
  <2>1. PICK n : n = ready[Len(ready)]  OBVIOUS
  <2>2. /\ active /\ current = {} /\ ready # <<>> /\ ready \in Seq(jobs)
        /\ UNCHANGED <<pre, jobs, active>> /\ current' = {n}
        /\ status' = [status EXCEPT ![n] = "Running"]
    BY <1>9, <2>1 DEF RunNode, JobInv, TypeOK, graphVars
  <2>3. Len(ready) \in 1..Len(ready)  BY <2>2, EmptySeq, LenProperties
  <2>4. n \in jobs /\ status[n] = "Ready"
    BY <2>1, <2>2, <2>3, ElementOfSeq DEF JobInv, ReadyInv
  <2>5. n \in Jobs /\ n \notin Done /\ pre[n] \subseteq Done  BY <2>2, <2>4, ReadyMayStart
  <2>6. Done' = Done  BY <2>2, <2>4, <2>5 DEF Done, JobInv, TypeOK
  <2>7. Ordered!Start(n)  BY <2>2, <2>4, <2>5, <2>6 DEF Ordered!Start
  <2> QED  BY <2>5, <2>7 DEF Ordered!Next
<1>10. CASE CompleteNode
  <2>1. PICK n \in current :
           status' = [j \in Jobs |-> IF j \in NoneLeft(n) THEN "Ready"
                                     ELSE IF j = n THEN "Done" ELSE status[j]]
    BY <1>10 DEF CompleteNode
  <2>2. /\ active /\ current = {n} /\ current' = {} /\ n \in jobs /\ n \in Jobs
        /\ UNCHANGED <<pre, jobs, active>> /\ status[n] = "Running"
    BY <1>10 DEF CompleteNode, JobInv, TypeOK, GraphInv, ReadyInv, graphVars
  <2>3. \A d \in NoneLeft(n) : d \in jobs /\ status[d] = "Pending"
    BY <2>2 DEF NoneLeft, JobInv, TypeOK, ReadyInv
  <2>4. Done' = Done \cup {n}  BY <2>1, <2>2, <2>3 DEF Done, JobInv, TypeOK
  <2>5. Ordered!Finish(n)  BY <2>2, <2>4 DEF Ordered!Finish
  <2> QED  BY <2>2, <2>5 DEF Ordered!Next
<1>11. CASE ExecuteReturns
  <2>1. active /\ active' = FALSE /\ current = {} /\ UNCHANGED <<pre, jobs, current, status>>
    BY <1>11 DEF ExecuteReturns, execVars, graphVars
  <2>2. Done' = Done  BY <2>1 DEF Done
  <2>3. Done = jobs  BY <1>11, ReturnsDone
  <2> QED  BY <2>1, <2>2, <2>3 DEF Ordered!Next, Ordered!End
<1> QED  BY <1>2, <1>3, <1>5, <1>6, <1>7, <1>8, <1>9, <1>10, <1>11 DEF Next, Run, Ordered!Next

\* Every behaviour of the scheduler runs each frame's jobs once, one at a
\* time, after their prerequisites, and ends the frame when all have run.
THEOREM OrderImplemented == Spec => OrderSpec
<1>1. Init => Ordered!Init  BY DEF Init, Ordered!Init, Done
<1>2. JobInv /\ [Next]_vars => [Ordered!Next]_Ordered!order
  <2>1. CASE Next  BY <2>1, OrderStep
  <2>2. CASE UNCHANGED vars
    BY <2>2 DEF vars, graphVars, execVars, schedVars, Done, Ordered!order
  <2> QED  BY <2>1, <2>2
<1> QED  BY <1>1, <1>2, JobInvariant, PTL DEF Spec, OrderSpec, Ordered!Spec

-----------------------------------------------------------------------------
(* What a job is bound to *)

\* Between frames too, a binding is that of the latest frame or none.
BindInv == \A j \in Jobs : bindings[j] \in {Unbound, frame}

\* No job ever runs with data bound in an earlier frame, however many jobs
\* the program leaves unbound and in whatever order it binds the others.
THEOREM NoStaleData == Spec => []NoStaleBinding
<1>1. Init => BindInv  BY DEF Init, BindInv
<1>2. JobInv /\ BindInv /\ [Next]_vars => BindInv'
  <2> SUFFICES ASSUME JobInv, BindInv, [Next]_vars PROVE BindInv'  OBVIOUS
  <2>1. bindings \in [Jobs -> Nat]  BY DEF JobInv, TypeOK
  <2>2. CASE Reset  BY <2>2 DEF Reset, ClearBindings, BindInv
  <2>3. ASSUME NEW j \in Jobs, Bind(j) PROVE BindInv'  BY <2>1, <2>3 DEF Bind, BindInv
  <2>4. CASE UNCHANGED <<bindings, frame>>  BY <2>4 DEF BindInv
  <2>5. ASSUME ~Reset, ~(\E j \in Jobs : Bind(j)) PROVE UNCHANGED <<bindings, frame>>
    BY <2>5 DEF Next, AddJob, AddDependency, CommitAccepted, CommitRefused, Execute, Run, RunNode,
       CompleteNode, ExecuteReturns, execVars, vars
  <2> QED  BY <2>2, <2>3, <2>4, <2>5
<1>3. JobInv /\ BindInv => NoStaleBinding
  BY DEF JobInv, TypeOK, BindInv, NoStaleBinding
<1> QED  BY <1>1, <1>2, <1>3, JobInit, JobNext, PTL DEF Spec
=============================================================================
