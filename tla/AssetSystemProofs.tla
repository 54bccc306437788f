------------------------- MODULE AssetSystemProofs -------------------------
(***************************************************************************)
(* For every finite set of keys and every graph over it: the recursion of  *)
(* resolve() descends the graph and never misses a node, a key is compiled *)
(* once in a call, resolve_all() accounts for every key, and the asset     *)
(* system implements DemandBuild.                                          *)
(***************************************************************************)
EXTENDS AssetSystem, SequenceTheorems, FiniteSetTheorems, TLAPS

USE DEF graphVars, cacheVars, nodeVars, callVars

-----------------------------------------------------------------------------
(* The inductive invariant *)

\* The committed graph is closed and numbered.
GraphInv ==
    committed =>
        /\ \A k \in known : deps[k] \subseteq known
        /\ \A k \in known : \A d \in deps[k] : topo[d] < topo[k]
        /\ {topo[k] : k \in known} = 1..Cardinality(known)

\* A call under way is for a known key without a valid entry; it waits for the
\* call above it.
FramesOK ==
    \A i \in 1..Len(stack) :
        /\ stack[i].key \in known \ valid
        /\ stack[i].todo \subseteq deps[stack[i].key]
        /\ stack[i].now \subseteq stack[i].todo

Chained == \A i \in 1..Len(stack) - 1 : stack[i].now = {stack[i + 1].key}

\* A prerequisite whose call has just succeeded has a valid entry.
Answered == stack # <<>> /\ ret = "ok" => Top.now \subseteq valid

CallInv ==
    /\ stack # <<>> => committed
    /\ FramesOK /\ Chained /\ Answered
    /\ StackDescends /\ NodesPresent

\* The loop of resolve_all() is at a node of the graph while a call is under way.
LoopInv ==
    all.on =>
        /\ committed
        /\ all.at \in 1..Cardinality(known) + 1
        /\ stack # <<>> \/ ret # "none" => all.at <= Cardinality(known)
        /\ stack # <<>> => stack[1].key = Current
        /\ stack = <<>> /\ ret = "ok" => Current \in valid
        /\ all.failed \subseteq {k \in known : topo[k] < all.at}

\* Until a call fails, what it has compiled has a valid entry.
OnceInv ==
    ~all.on =>
        /\ \A k \in Keys : runs[k] <= 1
        /\ ~Idle => \A k \in Keys : runs[k] = 1 => k \in valid \/ ret \in Errors

Inv == TypeOK /\ GraphInv /\ CallInv /\ LoopInv

-----------------------------------------------------------------------------
(* The stack *)

LEMMA KnownFinite ==
    ASSUME TypeOK PROVE IsFiniteSet(known) /\ Cardinality(known) \in Nat
<1>1. IsFiniteSet(known)  BY FS_Subset, AssetAssumption DEF TypeOK
<1> QED  BY <1>1, FS_CardinalityType

LEMMA StackTyped ==
    ASSUME TypeOK, stack # <<>>
    PROVE  /\ Len(stack) \in Nat \ {0} /\ DOMAIN stack = 1..Len(stack)
           /\ \A i \in 1..Len(stack) : stack[i] \in Frame
           /\ Top \in Frame
<1>1. stack \in Seq(Frame)  BY DEF TypeOK
<1>2. Len(stack) \in Nat \ {0} /\ DOMAIN stack = 1..Len(stack)  BY <1>1, EmptySeq, LenProperties
<1>3. \A i \in 1..Len(stack) : stack[i] \in Frame  BY <1>1, ElementOfSeq
<1> QED  BY <1>2, <1>3 DEF Top

\* The innermost call returns.
LEMMA PopFacts ==
    ASSUME TypeOK, stack # <<>>
    PROVE  /\ Pop \in Seq(Frame) /\ Len(Pop) = Len(stack) - 1
           /\ \A i \in 1..Len(stack) - 1 : Pop[i] = stack[i]
<1>1. Len(stack) \in Nat \ {0} /\ \A i \in 1..Len(stack) : stack[i] \in Frame  BY StackTyped
<1>2. \A i \in 1..Len(stack) - 1 : stack[i] \in Frame  BY <1>1
<1> DEFINE n == Len(stack) - 1
<1>3. n \in Nat /\ 1 \in Int /\ \A i \in 1..n : stack[i] \in Frame  BY <1>1, <1>2
<1> HIDE DEF n
<1>4. /\ SubSeq(stack, 1, n) \in Seq(Frame)
      /\ Len(SubSeq(stack, 1, n)) = IF 1 <= n THEN n - 1 + 1 ELSE 0
      /\ \A i \in 1..n - 1 + 1 : SubSeq(stack, 1, n)[i] = stack[1 + i - 1]
  BY <1>3, SubSeqProperties
<1>5. /\ Len(SubSeq(stack, 1, n)) = n
      /\ \A i \in 1..n : SubSeq(stack, 1, n)[i] = stack[i]
  BY <1>3, <1>4
<1> QED  BY <1>4, <1>5 DEF Pop, n

\* The innermost call turns to a prerequisite, or is done with one.
LEMMA TopChanged ==
    ASSUME TypeOK, stack # <<>>, NEW t \in SUBSET Keys, NEW w \in SUBSET Keys,
           NEW s, s = TopWith(t, w)
    PROVE  /\ s \in Seq(Frame) /\ Len(s) = Len(stack)
           /\ \A i \in 1..Len(stack) - 1 : s[i] = stack[i]
           /\ s[Len(stack)] = [key |-> Top.key, todo |-> t, now |-> w]
<1> DEFINE n == Len(stack)
           f == [key |-> Top.key, todo |-> t, now |-> w]
<1>1. stack \in Seq(Frame) /\ n \in 1..Len(stack) /\ n \in Nat \ {0} /\ Top \in Frame
  BY StackTyped DEF TypeOK
<1>2. f \in Frame  BY <1>1 DEF Frame
<1>3. s = [stack EXCEPT ![n] = f]  BY DEF TopWith
<1> HIDE DEF f
<1>4. /\ s \in Seq(Frame) /\ Len(s) = Len(stack)
      /\ \A i \in 1..Len(stack) : s[i] = IF i = n THEN f ELSE stack[i]
  BY <1>1, <1>2, <1>3, ExceptSeq
<1> QED  BY <1>1, <1>4 DEF f

\* What resolve() does when it is entered.
LEMMA EnterFacts ==
    ASSUME TypeOK, NEW k \in Keys, NEW below \in Seq(Frame), Enter(k, below)
    PROVE  /\ stack' \in Seq(Frame) /\ ret' \in Errors \cup {"none", "ok"}
           /\ \/ /\ ret' # "none" /\ stack' = below /\ (ret' = "ok" => k \in valid)
              \/ /\ ret' = "none" /\ committed /\ k \in known \ valid
                 /\ Len(stack') = Len(below) + 1
                 /\ \A i \in 1..Len(below) : stack'[i] = below[i]
                 /\ stack'[Len(below) + 1] = [key |-> k, todo |-> deps[k], now |-> {}]
<1> DEFINE f == [key |-> k, todo |-> deps[k], now |-> {}]
<1>1. f \in Frame  BY DEF TypeOK, Frame
<1>2. AtOnce(k) \in Errors \cup {"none", "ok"}  BY DEF AtOnce, Errors
<1>3. AtOnce(k) = "ok" => k \in valid  BY DEF AtOnce
<1>4. AtOnce(k) = "none" => committed /\ k \in known \ valid  BY DEF AtOnce
<1>5. ret' = AtOnce(k) /\ stack' = IF AtOnce(k) = "none" THEN Append(below, f) ELSE below
  BY DEF Enter
<1> HIDE DEF f
<1>6. /\ Append(below, f) \in Seq(Frame) /\ Len(Append(below, f)) = Len(below) + 1
      /\ \A i \in 1..Len(below) : Append(below, f)[i] = below[i]
      /\ Append(below, f)[Len(below) + 1] = f
  BY <1>1, AppendProperties
<1> QED  BY <1>2, <1>3, <1>4, <1>5, <1>6 DEF f

\* The key of the loop is the one with its number.
LEMMA CurrentIs ==
    ASSUME Inv, committed, all.at \in 1..Cardinality(known)
    PROVE  /\ Current \in known /\ topo[Current] = all.at
           /\ \A k \in known : topo[k] = all.at => k = Current
<1> DEFINE n == Cardinality(known)
           f == [k \in known |-> topo[k]]
<1>1. IsFiniteSet(known) /\ n \in Nat  BY KnownFinite DEF Inv
<1>2. {topo[k] : k \in known} = 1..n  BY DEF Inv, GraphInv
<1> HIDE DEF n
<1>3. f \in Surjection(known, 1..n)  BY <1>2 DEF Surjection
<1>4. Cardinality(1..n) = n  BY <1>1, FS_Interval
<1>5. f \in Injection(known, 1..n)
  BY <1>1, <1>3, <1>4, FS_SurjSameCardinalityImpliesInj DEF n
<1>6. \A k, l \in known : topo[k] = topo[l] => k = l  BY <1>5 DEF Injection, IsInjective
<1>7. \E k \in known : topo[k] = all.at  BY <1>2 DEF n
<1>8. Current \in known /\ topo[Current] = all.at  BY <1>7 DEF Current
<1> QED  BY <1>6, <1>8

-----------------------------------------------------------------------------
(* The steps of a call *)

\* resolve() is entered from outside or from the loop: there is no call yet.
LEMMA EnterOutside ==
    ASSUME Inv, NEW k \in Keys, stack = <<>>, Enter(k, stack), UNCHANGED <<graphVars, cacheVars, nodeVars>>
    PROVE  /\ CallInv' /\ stack' \in Seq(Frame) /\ ret' \in Errors \cup {"none", "ok"}
           /\ ret' # "none" => stack' = <<>>
           /\ ret' = "none" => stack' # <<>> /\ stack'[1].key = k
           /\ ret' = "ok" => k \in valid
<1>1. TypeOK /\ stack \in Seq(Frame) /\ Len(stack) = 0  BY DEF Inv, TypeOK
<1>2. /\ stack' \in Seq(Frame) /\ ret' \in Errors \cup {"none", "ok"}
      /\ \/ /\ ret' # "none" /\ stack' = <<>> /\ (ret' = "ok" => k \in valid)
         \/ /\ ret' = "none" /\ committed /\ k \in known \ valid
            /\ Len(stack') = 1 /\ stack'[1] = [key |-> k, todo |-> deps[k], now |-> {}]
  <2>1. /\ stack' \in Seq(Frame) /\ ret' \in Errors \cup {"none", "ok"}
        /\ \/ /\ ret' # "none" /\ stack' = stack /\ (ret' = "ok" => k \in valid)
           \/ /\ ret' = "none" /\ committed /\ k \in known \ valid
              /\ Len(stack') = Len(stack) + 1
              /\ stack'[Len(stack) + 1] = [key |-> k, todo |-> deps[k], now |-> {}]
    BY <1>1, EnterFacts
  <2> QED  BY <1>1, <2>1
<1>3. valid \subseteq nodes  BY DEF Inv, CallInv, NodesPresent
<1>4. CASE ret' # "none" /\ stack' = <<>>
  <2>1. Len(stack') = 0  BY <1>4
  <2>2. CallInv'
    BY <1>3, <1>4, <2>1 DEF CallInv, FramesOK, Chained, Answered, StackDescends, NodesPresent
  <2> QED  BY <1>2, <1>4, <2>2
<1>5. CASE ret' = "none" /\ committed /\ k \in known \ valid /\ Len(stack') = 1
           /\ stack'[1] = [key |-> k, todo |-> deps[k], now |-> {}]
  <2>1. stack' # <<>>  BY <1>5
  <2>2. FramesOK'  BY <1>5 DEF FramesOK
  <2>3. Chained' /\ Answered'  BY <1>5 DEF Chained, Answered
  <2>4. StackDescends' /\ NodesPresent'  BY <1>3, <1>5 DEF StackDescends, NodesPresent
  <2> QED  BY <1>2, <1>5, <2>1, <2>2, <2>3, <2>4 DEF CallInv
<1> QED  BY <1>2, <1>4, <1>5

\* resolve() is entered for a prerequisite.
LEMMA ResolveDepStep ==
    ASSUME Inv, ResolveDep
    PROVE  /\ CallInv' /\ stack' \in Seq(Frame) /\ ret' \in Errors \cup {"none", "ok"}
           /\ stack' # <<>> /\ stack'[1].key = stack[1].key
<1> DEFINE n == Len(stack)
<1>1. TypeOK /\ stack # <<>> /\ ret = "none"  BY DEF Inv, ResolveDep
<1>2. /\ n \in Nat \ {0} /\ stack \in Seq(Frame) /\ Top = stack[n] /\ Top \in Frame
  BY <1>1, StackTyped DEF Top, TypeOK
<1>3. PICK d \in Top.todo : Enter(d, TopWith(Top.todo, {d}))  BY DEF ResolveDep
<1>4. d \in Keys /\ Top.todo \in SUBSET Keys /\ {d} \in SUBSET Keys  BY <1>2, <1>3 DEF Frame
<1> DEFINE s == TopWith(Top.todo, {d})
<1>0. s = TopWith(Top.todo, {d})  OBVIOUS
<1> HIDE DEF n, s
<1>5. /\ s \in Seq(Frame) /\ Len(s) = n /\ \A i \in 1..n - 1 : s[i] = stack[i]
      /\ s[n] = [key |-> Top.key, todo |-> Top.todo, now |-> {d}]
  <2> DEFINE t == Top.todo
             w == {d}
  <2>1. t \in SUBSET Keys /\ w \in SUBSET Keys /\ s = TopWith(t, w)  BY <1>0, <1>4
  <2> HIDE DEF t, w
  <2>2. /\ s \in Seq(Frame) /\ Len(s) = Len(stack)
        /\ \A i \in 1..Len(stack) - 1 : s[i] = stack[i]
        /\ s[Len(stack)] = [key |-> Top.key, todo |-> t, now |-> w]
    BY <1>1, <2>1, TopChanged
  <2> QED  BY <2>2 DEF t, w, n
<1>6. /\ stack' \in Seq(Frame) /\ ret' \in Errors \cup {"none", "ok"}
      /\ \/ /\ ret' # "none" /\ stack' = s /\ (ret' = "ok" => d \in valid)
         \/ /\ ret' = "none" /\ committed /\ d \in known \ valid
            /\ Len(stack') = n + 1
            /\ \A i \in 1..n : stack'[i] = s[i]
            /\ stack'[n + 1] = [key |-> d, todo |-> deps[d], now |-> {}]
  BY <1>1, <1>3, <1>4, <1>5, EnterFacts DEF s
<1>7. UNCHANGED <<known, deps, committed, topo, valid, nodes>>  BY DEF ResolveDep
<1>8. /\ \A i \in 1..n : /\ stack[i].key \in known \ valid
                         /\ stack[i].todo \subseteq deps[stack[i].key]
                         /\ stack[i].now \subseteq stack[i].todo
      /\ \A i \in 1..n - 1 : stack[i].now = {stack[i + 1].key}
      /\ \A i, j \in 1..n : i < j => topo[stack[j].key] < topo[stack[i].key]
      /\ valid \subseteq nodes
      /\ \A i \in 1..n : deps[stack[i].key] \ stack[i].todo \subseteq valid
      /\ committed
  BY <1>1 DEF Inv, CallInv, FramesOK, Chained, StackDescends, NodesPresent, n
\* The frames that were there, with the innermost turned to d.
<1>9. /\ \A i \in 1..n : /\ s[i].key = stack[i].key /\ s[i].todo = stack[i].todo
                         /\ s[i].key \in known \ valid
                         /\ s[i].todo \subseteq deps[s[i].key] /\ s[i].now \subseteq s[i].todo
                         /\ deps[s[i].key] \ s[i].todo \subseteq valid
      /\ \A i \in 1..n - 1 : s[i].now = {s[i + 1].key}
      /\ \A i, j \in 1..n : i < j => topo[s[j].key] < topo[s[i].key]
      /\ s[n].now = {d}
  <2>1. \A i \in 1..n : i = n \/ i \in 1..n - 1  BY <1>2 DEF n
  <2>2. /\ s[n].key = stack[n].key /\ s[n].todo = stack[n].todo /\ s[n].now = {d}
        /\ d \in s[n].todo
    BY <1>2, <1>3, <1>5 DEF n
  <2>3. \A i \in 1..n : s[i].key = stack[i].key /\ s[i].todo = stack[i].todo
    BY <1>5, <2>1, <2>2
  <2>4. \A i \in 1..n : s[i].now \subseteq s[i].todo
    BY <1>5, <1>8, <2>1, <2>2
  <2>5. \A i \in 1..n - 1 : s[i].now = {s[i + 1].key}
    <3> TAKE i \in 1..n - 1
    <3>1. i + 1 \in 1..n  BY <1>2 DEF n
    <3> QED  BY <1>5, <1>8, <2>3, <3>1
  <2> QED  BY <1>8, <2>2, <2>3, <2>4, <2>5
<1>10. n \in Nat \ {0} /\ 1 \in 1..n /\ n \in 1..n  BY <1>2 DEF n
<1>11. CASE ret' # "none" /\ stack' = s /\ (ret' = "ok" => d \in valid)
  <2>1. Len(stack') = n /\ stack' # <<>>  BY <1>5, <1>10, <1>11
  <2>2. FramesOK' /\ Chained'  BY <1>7, <1>9, <1>11, <2>1 DEF FramesOK, Chained
  <2>3. Answered'  BY <1>7, <1>9, <1>11, <2>1 DEF Answered, Top
  <2>4. StackDescends'  BY <1>7, <1>9, <1>11, <2>1 DEF StackDescends
  <2>5. NodesPresent'  BY <1>7, <1>8, <1>9, <1>11, <2>1 DEF NodesPresent
  <2> QED  BY <1>6, <1>7, <1>8, <1>9, <1>10, <1>11, <2>1, <2>2, <2>3, <2>4, <2>5 DEF CallInv
<1>12. CASE /\ ret' = "none" /\ committed /\ d \in known \ valid
            /\ Len(stack') = n + 1
            /\ \A i \in 1..n : stack'[i] = s[i]
            /\ stack'[n + 1] = [key |-> d, todo |-> deps[d], now |-> {}]
  <2>1. stack' # <<>>
    <3>1. Len(stack') # 0  BY <1>10, <1>12
    <3> QED  BY <3>1
  <2>2. /\ stack'[n + 1].key = d /\ stack'[n + 1].todo = deps[d] /\ stack'[n + 1].now = {}
        /\ \A i \in 1..n + 1 : i \in 1..n \/ i = n + 1
    BY <1>10, <1>12
  <2>3. FramesOK'
    <3> SUFFICES ASSUME NEW i \in 1..n + 1
                 PROVE  /\ stack'[i].key \in known \ valid
                        /\ stack'[i].todo \subseteq deps[stack'[i].key]
                        /\ stack'[i].now \subseteq stack'[i].todo
      BY <1>7, <1>12 DEF FramesOK
    <3> QED  BY <1>9, <1>12, <2>2
  <2>4. Chained'
    <3> SUFFICES ASSUME NEW i \in 1..n PROVE stack'[i].now = {stack'[i + 1].key}
      BY <1>10, <1>12 DEF Chained
    <3>1. CASE i = n  BY <1>9, <1>12, <2>2, <3>1
    <3>2. CASE i # n
      <4>1. i \in 1..n - 1 /\ i + 1 \in 1..n  BY <1>10, <3>2
      <4> QED  BY <1>9, <1>12, <4>1
    <3> QED  BY <3>1, <3>2
  <2>5. Answered'  BY <1>12 DEF Answered
  <2>6. StackDescends'
    <3> SUFFICES ASSUME NEW i \in 1..n + 1, NEW j \in 1..n + 1, i < j
                 PROVE  topo[stack'[j].key] < topo[stack'[i].key]
      BY <1>7, <1>12 DEF StackDescends
    <3>1. i \in 1..n  BY <1>10
    <3>2. CASE j \in 1..n  BY <1>9, <1>12, <3>1, <3>2
    <3>3. CASE j = n + 1
      <4>1. topo[d] < topo[s[n].key]
        BY <1>3, <1>5, <1>8, <1>9, <1>10 DEF Inv, GraphInv
      <4>2. i = n \/ topo[s[n].key] < topo[s[i].key]  BY <1>9, <1>10, <3>1
      <4>3. topo[d] \in Nat /\ topo[s[n].key] \in Nat /\ topo[s[i].key] \in Nat
        BY <1>1, <1>4, <1>9, <1>10, <3>1 DEF TypeOK
      <4>4. topo[d] < topo[s[i].key]  BY <4>1, <4>2, <4>3
      <4> QED  BY <1>12, <2>2, <3>1, <3>3, <4>4
    <3> QED  BY <2>2, <3>2, <3>3
  <2>7. NodesPresent'
    <3> SUFFICES ASSUME NEW i \in 1..n + 1 PROVE deps[stack'[i].key] \ stack'[i].todo \subseteq valid
      BY <1>7, <1>8, <1>12 DEF NodesPresent
    <3> QED  BY <1>9, <1>12, <2>2
  <2> QED  BY <1>6, <1>7, <1>9, <1>10, <1>12, <2>1, <2>3, <2>4, <2>5, <2>6, <2>7 DEF CallInv
<1> QED  BY <1>6, <1>11, <1>12

\* The frames below the innermost stay as they were when it is popped; a valid
\* entry more, that of the popped key, does not disturb them.
LEMMA PopStep ==
    ASSUME Inv, stack # <<>>, stack' = Pop, NEW more \in SUBSET {Top.key}, valid' = valid \cup more,
           ret' = "ok" => more = {Top.key}, nodes' = nodes \cup more,
           UNCHANGED <<known, deps, committed, topo>>
    PROVE  /\ CallInv' /\ stack' \in Seq(Frame)
           /\ stack' # <<>> => stack'[1].key = stack[1].key
           /\ stack' = <<>> => Top.key = stack[1].key
<1> DEFINE n == Len(stack)
           p == n - 1
<1>1. TypeOK  BY DEF Inv
<1>2. n \in Nat \ {0} /\ Top = stack[n]  BY <1>1, StackTyped DEF Top
<1>3. stack' \in Seq(Frame) /\ Len(stack') = p /\ \A i \in 1..p : stack'[i] = stack[i]
  BY <1>1, PopFacts
<1>4. p \in Nat /\ n = p + 1 /\ (stack' = <<>> <=> p = 0)
  <2>1. stack' = <<>> <=> Len(stack') = 0  BY <1>3, EmptySeq
  <2> QED  BY <1>2, <1>3, <2>1
<1> HIDE DEF n, p
<1>5. /\ \A i \in 1..n : /\ stack[i].key \in known \ valid
                         /\ stack[i].todo \subseteq deps[stack[i].key]
                         /\ stack[i].now \subseteq stack[i].todo
      /\ \A i \in 1..p : stack[i].now = {stack[i + 1].key}
      /\ \A i, j \in 1..n : i < j => topo[stack[j].key] < topo[stack[i].key]
      /\ valid \subseteq nodes
      /\ \A i \in 1..n : deps[stack[i].key] \ stack[i].todo \subseteq valid
      /\ committed
  BY DEF Inv, CallInv, FramesOK, Chained, StackDescends, NodesPresent, n, p
<1>6. \A i \in 1..p : i \in 1..n /\ i < n  BY <1>4
<1>7. \A i \in 1..p : stack[i].key # Top.key
  <2> TAKE i \in 1..p
  <2>1. topo[Top.key] < topo[stack[i].key]  BY <1>2, <1>5, <1>6
  <2>2. topo[Top.key] \in Nat
    BY <1>1, StackTyped DEF TypeOK, Frame
  <2> QED  BY <2>1, <2>2
<1>8. FramesOK'  BY <1>3, <1>5, <1>6, <1>7 DEF FramesOK
<1>9. Chained'
  <2> SUFFICES ASSUME NEW i \in 1..p - 1 PROVE stack'[i].now = {stack'[i + 1].key}
    BY <1>3 DEF Chained
  <2>1. i \in 1..p /\ i + 1 \in 1..p  BY <1>4
  <2> QED  BY <1>3, <1>5, <2>1
<1>10. Answered'
  <2> SUFFICES ASSUME p # 0, ret' = "ok" PROVE stack'[p].now \subseteq valid'
    BY <1>3, <1>4 DEF Answered, Top
  <2>1. p \in 1..p  BY <1>4
  <2>2. stack'[p].now = {Top.key}  BY <1>2, <1>3, <1>4, <1>5, <2>1
  <2> QED  BY <2>2
<1>11. StackDescends'  BY <1>3, <1>5, <1>6 DEF StackDescends
<1>12. NodesPresent'  BY <1>3, <1>5, <1>6 DEF NodesPresent
<1>13. stack' # <<>> => stack'[1].key = stack[1].key
  <2>1. p # 0 => 1 \in 1..p  BY <1>4
  <2> QED  BY <1>3, <1>4, <2>1
<1>14. stack' = <<>> => Top.key = stack[1].key
  <2>1. p = 0 => n = 1  BY <1>4
  <2> QED  BY <1>2, <1>4, <2>1
<1> QED  BY <1>3, <1>5, <1>8, <1>9, <1>10, <1>11, <1>12, <1>13, <1>14 DEF CallInv

\* A call under way looks at what its prerequisite has returned.
LEMMA DepReturnedStep ==
    ASSUME Inv, DepReturned
    PROVE  /\ CallInv' /\ stack' \in Seq(Frame) /\ ret' \in Errors \cup {"none", "ok"}
           /\ stack' # <<>> => stack'[1].key = stack[1].key
           /\ ret' # "ok" /\ (stack' = <<>> => ret' # "none")
<1> DEFINE n == Len(stack)
<1>1. TypeOK /\ stack # <<>> /\ UNCHANGED <<known, deps, committed, topo, valid, nodes>>
  BY DEF Inv, DepReturned
<1>2. CASE Succeeded /\ ret' = "none" /\ stack' = NextDep
  <2>1. n \in Nat \ {0} /\ Top = stack[n] /\ Top \in Frame  BY <1>1, StackTyped DEF Top
  <2>2. /\ stack' \in Seq(Frame) /\ Len(stack') = n
        /\ \A i \in 1..n - 1 : stack'[i] = stack[i]
        /\ stack'[n] = [key |-> Top.key, todo |-> Top.todo \ Top.now, now |-> {}]
    <3> DEFINE t == Top.todo \ Top.now
               w == {}
    <3>1. t \in SUBSET Keys /\ w \in SUBSET Keys /\ stack' = TopWith(t, w)
      BY <1>2, <2>1 DEF NextDep, Frame
    <3> HIDE DEF t, w
    <3>2. /\ stack' \in Seq(Frame) /\ Len(stack') = Len(stack)
          /\ \A i \in 1..Len(stack) - 1 : stack'[i] = stack[i]
          /\ stack'[Len(stack)] = [key |-> Top.key, todo |-> t, now |-> w]
      BY <1>1, <3>1, TopChanged
    <3> QED  BY <3>2 DEF t, w
  <2> HIDE DEF n
  <2>3. /\ \A i \in 1..n : /\ stack[i].key \in known \ valid
                           /\ stack[i].todo \subseteq deps[stack[i].key]
                           /\ stack[i].now \subseteq stack[i].todo
        /\ \A i \in 1..n - 1 : stack[i].now = {stack[i + 1].key}
        /\ \A i, j \in 1..n : i < j => topo[stack[j].key] < topo[stack[i].key]
        /\ valid \subseteq nodes
        /\ \A i \in 1..n : deps[stack[i].key] \ stack[i].todo \subseteq valid
        /\ committed
    BY <1>1 DEF Inv, CallInv, FramesOK, Chained, StackDescends, NodesPresent, n
  <2>4. \A i \in 1..n : i = n \/ i \in 1..n - 1  BY <2>1
  <2>5. n \in 1..n /\ 1 \in 1..n /\ stack' # <<>>
    <3>1. Len(stack') # 0  BY <2>1, <2>2
    <3>2. stack' # <<>>  BY <3>1
    <3> QED  BY <2>1, <3>2
  <2>6. Top.now \subseteq valid
    BY <1>1, <1>2 DEF Inv, CallInv, Answered, Succeeded
  <2>7. /\ \A i \in 1..n : stack'[i].key = stack[i].key
        /\ stack'[n].todo = Top.todo \ Top.now /\ stack'[n].now = {}
    BY <2>1, <2>2, <2>4
  <2>8. FramesOK'
    <3> SUFFICES ASSUME NEW i \in 1..n
                 PROVE  /\ stack'[i].key \in known \ valid
                        /\ stack'[i].todo \subseteq deps[stack'[i].key]
                        /\ stack'[i].now \subseteq stack'[i].todo
      BY <1>1, <2>2 DEF FramesOK
    <3> QED  BY <2>1, <2>2, <2>3, <2>4, <2>7
  <2>9. Chained'
    <3> SUFFICES ASSUME NEW i \in 1..n - 1 PROVE stack'[i].now = {stack'[i + 1].key}
      BY <2>2 DEF Chained
    <3>1. i + 1 \in 1..n  BY <2>1
    <3> QED  BY <2>2, <2>3, <2>7, <3>1
  <2>10. Answered'  BY <1>2 DEF Answered
  <2>11. StackDescends'  BY <1>1, <2>2, <2>3, <2>7 DEF StackDescends
  <2>12. NodesPresent'
    <3> SUFFICES ASSUME NEW i \in 1..n PROVE deps[stack'[i].key] \ stack'[i].todo \subseteq valid
      BY <1>1, <2>2, <2>3 DEF NodesPresent
    <3>1. CASE i = n  BY <2>1, <2>3, <2>6, <2>7, <3>1
    <3>2. CASE i # n  BY <2>2, <2>3, <2>4, <3>2
    <3> QED  BY <3>1, <3>2
  <2> QED  BY <1>1, <1>2, <2>2, <2>3, <2>5, <2>7, <2>8, <2>9, <2>10, <2>11, <2>12 DEF CallInv
<1>3. CASE ~Succeeded /\ ret' = "DependencyFailed" /\ stack' = Pop
  <2>1. {} \in SUBSET {Top.key} /\ valid' = valid \cup {} /\ nodes' = nodes \cup {}  BY <1>1
  <2>2. /\ CallInv' /\ stack' \in Seq(Frame)
        /\ stack' # <<>> => stack'[1].key = stack[1].key
    BY <1>1, <1>3, <2>1, PopStep
  <2> QED  BY <1>3, <2>2 DEF Errors
<1> QED  BY <1>2, <1>3 DEF DepReturned

\* The innermost call compiles its key.
LEMMA CompileStep ==
    ASSUME Inv, Compile
    PROVE  /\ CallInv' /\ stack' \in Seq(Frame) /\ ret' \in Errors \cup {"ok"}
           /\ stack' # <<>> => stack'[1].key = stack[1].key
           /\ stack' = <<>> => Top.key = stack[1].key
           /\ Top.key \in known \ valid /\ deps[Top.key] \subseteq valid /\ committed
           /\ ret' = "ok" => valid' = valid \cup {Top.key}
           /\ ret' # "ok" => valid' = valid
<1>1. /\ TypeOK /\ stack # <<>> /\ Top.todo = {} /\ stack' = Pop
      /\ UNCHANGED <<known, deps, committed, topo>>
  BY DEF Inv, Compile
<1>2. Len(stack) \in 1..Len(stack) /\ Top = stack[Len(stack)]  BY <1>1, StackTyped DEF Top
<1>3. Top.key \in known \ valid /\ deps[Top.key] \subseteq valid /\ committed
  BY <1>1, <1>2 DEF Inv, CallInv, FramesOK, NodesPresent
<1>4. CASE ret' = "ok"
  <2>1. valid' = valid \cup {Top.key} /\ nodes' = nodes \cup {Top.key}
    BY <1>4 DEF Compile, Emplace, Store
  <2> QED  BY <1>1, <1>3, <1>4, <2>1, PopStep
<1>5. CASE ret' # "ok"
  <2>1. ret' = "CompileFailed" /\ valid' = valid /\ nodes' = nodes
    BY <1>5 DEF Compile
  <2>2. {} \in SUBSET {Top.key} /\ valid' = valid \cup {} /\ nodes' = nodes \cup {}  BY <2>1
  <2>3. /\ CallInv' /\ stack' \in Seq(Frame)
        /\ stack' # <<>> => stack'[1].key = stack[1].key
        /\ stack' = <<>> => Top.key = stack[1].key
    BY <1>1, <1>5, <2>2, PopStep
  <2> QED  BY <1>3, <1>5, <2>1, <2>3 DEF Errors
<1> QED  BY <1>4, <1>5

-----------------------------------------------------------------------------
(* The invariant holds *)

LEMMA InvInit == Init => Inv
<1> SUFFICES ASSUME Init PROVE Inv  OBVIOUS
<1>1. TypeOK
  <2>1. compilers \subseteq Keys /\ broken \subseteq Keys /\ commits \in 0..MaxCommits /\ drops \in 0..MaxDrops
    BY AssetAssumption DEF Init
  <2>2. stack \in Seq(Frame) /\ ret \in Errors \cup {"none", "ok"}  BY DEF Init
  <2>3. all \in [on : BOOLEAN, at : Nat, ok : Nat, failed : SUBSET Keys]  BY DEF Init, NoLoop
  <2> QED  BY <2>1, <2>2, <2>3 DEF Init, TypeOK, Null
<1>2. GraphInv /\ LoopInv  BY DEF Init, GraphInv, LoopInv, NoLoop
<1>3. CallInv
  BY DEF Init, CallInv, FramesOK, Chained, Answered, StackDescends, NodesPresent
<1> QED  BY <1>1, <1>2, <1>3 DEF Inv

LEMMA GraphStep == Inv /\ [Next]_vars => GraphInv'
<1> SUFFICES ASSUME Inv, [Next]_vars PROVE GraphInv'  OBVIOUS
<1>1. TypeOK /\ GraphInv  BY DEF Inv
<1>2. CASE \E k \in Keys, ds \in SUBSET Keys : Register(k, ds)
  BY <1>2 DEF Register, GraphInv
<1>3. CASE CommitAccepted
  <2>1. Buildable /\ Numbering(topo') /\ UNCHANGED <<known, deps>>
    BY <1>3 DEF CommitAccepted
  <2>2. known \subseteq Keys /\ \A k \in known : deps[k] \subseteq Keys  BY <1>1 DEF TypeOK
  <2> QED  BY <2>1, <2>2 DEF GraphInv, Buildable, Numbering
<1>4. CASE CommitRefused  BY <1>4 DEF CommitRefused, GraphInv
<1>5. CASE UNCHANGED <<known, deps, topo, committed>>  BY <1>1, <1>5 DEF GraphInv
<1>6. \/ \E k \in Keys, ds \in SUBSET Keys : Register(k, ds)
      \/ CommitAccepted \/ CommitRefused \/ UNCHANGED <<known, deps, topo, committed>>
  BY DEF Next, vars, Call, Loop, Resolve, ResolveAll, ResolveDep, DepReturned, Compile, Return,
         AllCached, AllResolve, AllReturned, AllDone, Invalidate, Evict, Flip, Clear
<1> QED  BY <1>2, <1>3, <1>4, <1>5, <1>6

\* Without a call under way, only that valid entries have their nodes is to show.
LEMMA CallQuiet ==
    ASSUME stack' = <<>>, valid' \subseteq nodes' PROVE CallInv'
<1>1. Len(stack') = 0  BY EmptySeq
<1> QED  BY <1>1 DEF CallInv, FramesOK, Chained, Answered, StackDescends, NodesPresent

LEMMA AllResolveStep ==
    ASSUME Inv, AllResolve
    PROVE  /\ Current \in known /\ Current \in Keys
           /\ CallInv' /\ stack' \in Seq(Frame) /\ ret' \in Errors \cup {"none", "ok"}
           /\ ret' # "none" => stack' = <<>>
           /\ ret' = "none" => stack' # <<>> /\ stack'[1].key = Current
           /\ ret' = "ok" => Current \in valid
<1>1. /\ all.on /\ stack = <<>> /\ all.at <= Cardinality(known) /\ Enter(Current, stack)
      /\ UNCHANGED <<graphVars, cacheVars, nodeVars>>
  BY DEF AllResolve, InLoop
<1>2. committed /\ all.at \in 1..Cardinality(known)
  BY <1>1, KnownFinite DEF Inv, LoopInv
<1>3. Current \in known /\ Current \in Keys  BY <1>2, CurrentIs DEF Inv, TypeOK
<1> DEFINE c == Current
<1>4. c \in Keys /\ Enter(c, stack)  BY <1>1, <1>3
<1> HIDE DEF c
<1>5. /\ CallInv' /\ stack' \in Seq(Frame) /\ ret' \in Errors \cup {"none", "ok"}
      /\ ret' # "none" => stack' = <<>>
      /\ ret' = "none" => stack' # <<>> /\ stack'[1].key = c
      /\ ret' = "ok" => c \in valid
  BY <1>1, <1>4, EnterOutside
<1> QED  BY <1>3, <1>5 DEF c

LEMMA CallStep == Inv /\ [Next]_vars => CallInv'
<1> SUFFICES ASSUME Inv, [Next]_vars PROVE CallInv'  OBVIOUS
<1>1. valid \subseteq nodes  BY DEF Inv, CallInv, NodesPresent
<1>2. CASE \E k \in Keys, ds \in SUBSET Keys : Register(k, ds)
  BY <1>1, <1>2, CallQuiet DEF Register, Idle
<1>3. CASE CommitAccepted \/ CommitRefused
  BY <1>1, <1>3, CallQuiet DEF CommitAccepted, CommitRefused, Idle
<1>4. CASE \E k \in Keys : Resolve(k)
  <2>1. PICK k \in Keys : Resolve(k)  BY <1>4
  <2> QED  BY <2>1, EnterOutside DEF Resolve, Idle
<1>5. CASE ResolveAll  BY <1>1, <1>5, CallQuiet DEF ResolveAll, Idle
<1>6. CASE ResolveDep  BY <1>6, ResolveDepStep
<1>7. CASE DepReturned  BY <1>7, DepReturnedStep
<1>8. CASE Compile  BY <1>8, CompileStep
<1>9. CASE Return  BY <1>1, <1>9, CallQuiet DEF Return
<1>10. CASE AllCached  BY <1>1, <1>10, CallQuiet DEF AllCached, InLoop
<1>11. CASE AllResolve  BY <1>11, AllResolveStep
<1>12. CASE AllReturned  BY <1>1, <1>12, CallQuiet DEF AllReturned
<1>13. CASE AllDone  BY <1>1, <1>13, CallQuiet DEF AllDone
<1>14. CASE \E k \in Keys : Invalidate(k) \/ Evict(k)
  <2>1. PICK k \in Keys : Invalidate(k) \/ Evict(k)  BY <1>14
  <2>2. stack' = <<>> /\ valid' \subseteq nodes'
    BY <1>1, <2>1 DEF Invalidate, Evict, Idle
  <2> QED  BY <2>2, CallQuiet
<1>15. CASE Clear  BY <1>15, CallQuiet DEF Clear, Idle
<1>16. CASE (\E k \in Keys : Flip(k)) \/ UNCHANGED vars
  <2>1. UNCHANGED <<stack, ret, known, deps, committed, topo, valid, nodes>>
    BY <1>16 DEF Flip, vars
  <2> QED  BY <2>1 DEF Inv, CallInv, FramesOK, Chained, Answered, StackDescends, NodesPresent, Top
<1> QED
  BY <1>2, <1>3, <1>4, <1>5, <1>6, <1>7, <1>8, <1>9, <1>10, <1>11, <1>12, <1>13, <1>14, <1>15, <1>16
  DEF Next, Call, Loop

LEMMA LoopStep == Inv /\ [Next]_vars => LoopInv'
<1> SUFFICES ASSUME Inv, [Next]_vars PROVE LoopInv'  OBVIOUS
<1>1. TypeOK /\ LoopInv /\ Cardinality(known) \in Nat  BY KnownFinite DEF Inv
<1>2. CASE ~all.on /\ ~all'.on  BY <1>2 DEF LoopInv
<1>3. CASE ResolveAll
  <2>1. /\ all' = [NoLoop EXCEPT !.on = TRUE] /\ committed /\ stack = <<>> /\ ret = "none"
        /\ UNCHANGED <<stack, ret, committed, known, topo, valid>>
    BY <1>3 DEF ResolveAll, Idle
  <2>2. all'.on /\ all'.at = 1 /\ all'.failed = {}  BY <2>1 DEF NoLoop
  <2> QED  BY <1>1, <2>1, <2>2 DEF LoopInv
<1>4. CASE all.on /\ Call
  <2>1. /\ all' = all /\ UNCHANGED <<committed, known, topo>> /\ stack # <<>>
        /\ valid \subseteq valid'
    BY <1>4 DEF Call, ResolveDep, DepReturned, Compile, Return, Store
  <2>2. Current' = Current  BY <2>1 DEF Current
  <2>3. /\ committed /\ all.at \in 1..Cardinality(known) + 1 /\ all.at <= Cardinality(known)
        /\ stack[1].key = Current /\ all.failed \subseteq {k \in known : topo[k] < all.at}
    BY <1>1, <1>4, <2>1 DEF LoopInv
  <2>4. /\ stack' # <<>> => stack'[1].key = stack[1].key
        /\ stack' = <<>> /\ ret' = "ok" => stack[1].key \in valid'
    <3>1. CASE ResolveDep  BY <3>1, ResolveDepStep
    <3>2. CASE DepReturned  BY <3>2, DepReturnedStep
    <3>3. CASE Compile  BY <3>3, CompileStep
    <3> QED  BY <1>4, <2>1, <3>1, <3>2, <3>3 DEF Call, Return
  <2> HIDE DEF Current
  <2> QED  BY <2>1, <2>2, <2>3, <2>4 DEF LoopInv
<1>5. CASE AllCached
  <2>1. /\ all.on /\ stack = <<>> /\ ret = "none" /\ all.at <= Cardinality(known)
        /\ all' = SkipCounted
        /\ UNCHANGED <<stack, ret, committed, known, topo, valid>>
    BY <1>5 DEF AllCached, InLoop
  <2>2. all'.at = all.at + 1 /\ all'.failed = all.failed
    BY <1>1, <2>1 DEF SkipCounted, NextWith, TypeOK
  <2>3. \A k \in known : topo[k] < all.at => topo[k] < all.at + 1
    BY <1>1 DEF TypeOK
  <2> QED  BY <1>1, <2>1, <2>2, <2>3 DEF LoopInv
<1>6. CASE AllResolve
  <2>1. /\ all.on /\ stack = <<>> /\ ret = "none" /\ all.at <= Cardinality(known) /\ all' = all
        /\ UNCHANGED <<committed, known, topo, valid>>
    BY <1>6 DEF AllResolve, InLoop
  <2>2. Current' = Current  BY <2>1 DEF Current
  <2>3. /\ ret' # "none" => stack' = <<>>
        /\ ret' = "none" => stack' # <<>> /\ stack'[1].key = Current
        /\ ret' = "ok" => Current \in valid
    BY <1>6, AllResolveStep
  <2> HIDE DEF Current
  <2> QED  BY <1>1, <2>1, <2>2, <2>3 DEF LoopInv
<1>7. CASE AllReturned
  <2>1. /\ all.on /\ stack = <<>> /\ ret # "none" /\ ret' = "none"
        /\ all.at \in 1..Cardinality(known) /\ committed
        /\ UNCHANGED <<stack, committed, known, topo, valid>>
    BY <1>1, <1>7 DEF AllReturned, LoopInv
  <2>2. Current \in known /\ topo[Current] = all.at  BY <2>1, CurrentIs
  <2>3. all'.at = all.at + 1 /\ all'.failed \subseteq all.failed \cup {Current}
    BY <1>1, <1>7 DEF AllReturned, NextWith, TypeOK
  <2>4. \A k \in known : topo[k] <= all.at => topo[k] < all.at + 1
    BY <1>1 DEF TypeOK
  <2>5. \A k \in known : topo[k] < all.at => topo[k] < all.at + 1
    BY <1>1 DEF TypeOK
  <2>6. all.failed \subseteq {k \in known : topo[k] < all.at}  BY <1>1, <2>1 DEF LoopInv
  <2>7. all'.failed \subseteq {k \in known : topo[k] < all.at + 1}
    BY <2>1, <2>2, <2>3, <2>4, <2>5, <2>6
  <2> QED  BY <1>1, <2>1, <2>3, <2>7 DEF LoopInv
<1>8. CASE AllDone  BY <1>8 DEF AllDone, NoLoop, LoopInv
<1>9. CASE UNCHANGED <<all, stack, ret, committed, known, topo, valid>>
  <2>1. Current' = Current  BY <1>9 DEF Current
  <2> HIDE DEF Current
  <2> QED  BY <1>1, <1>9, <2>1 DEF LoopInv
<1>10. ResolveAll \/ (all.on /\ Call) \/ Loop \/ (~all.on /\ ~all'.on)
       \/ UNCHANGED <<all, stack, ret, committed, known, topo, valid>>
  <2>1. CASE ~all.on
    BY <2>1 DEF Next, vars, Call, Register, CommitAccepted, CommitRefused, Resolve,
                ResolveDep, DepReturned, Compile, Return, Invalidate, Evict, Flip, Clear
  <2>2. CASE all.on
    BY <2>2 DEF Next, vars, Register, CommitAccepted, CommitRefused, Resolve,
                Invalidate, Evict, Flip, Clear, Idle
  <2> QED  BY <2>1, <2>2
<1> QED  BY <1>2, <1>3, <1>4, <1>5, <1>6, <1>7, <1>8, <1>9, <1>10 DEF Loop

LEMMA TypeStep == Inv /\ [Next]_vars => TypeOK'
<1> SUFFICES ASSUME Inv, [Next]_vars PROVE TypeOK'  OBVIOUS
<1>1. TypeOK  BY DEF Inv
<1> USE DEF TypeOK
<1>2. CASE \E k \in Keys, ds \in SUBSET Keys : Register(k, ds)
  BY <1>1, <1>2 DEF Register
<1>3. CASE CommitAccepted
  <2>1. PICK t \in [Keys -> 0..Cardinality(known)] : topo' = t  BY <1>3 DEF CommitAccepted
  <2>2. topo' \in [Keys -> Nat]  BY <1>1, <2>1, KnownFinite
  <2>3. commits' \in 0..MaxCommits  BY <1>1, <1>3, AssetAssumption DEF CommitAccepted
  <2> QED  BY <1>1, <1>3, <2>2, <2>3 DEF CommitAccepted
<1>4. CASE CommitRefused
  <2>1. commits' \in 0..MaxCommits  BY <1>1, <1>4, AssetAssumption DEF CommitRefused
  <2> QED  BY <1>1, <1>4, <2>1 DEF CommitRefused
<1>5. CASE \E k \in Keys : Resolve(k)
  <2>1. PICK k \in Keys : Resolve(k)  BY <1>5
  <2>2. stack' \in Seq(Frame) /\ ret' \in Errors \cup {"none", "ok"}
    BY <2>1, EnterOutside DEF Resolve, Idle
  <2>3. runs' \in [Keys -> Nat]  BY <2>1 DEF Resolve
  <2> QED  BY <1>1, <2>1, <2>2, <2>3 DEF Resolve
<1>6. CASE ResolveAll
  <2>1. all' \in [on : BOOLEAN, at : Nat, ok : Nat, failed : SUBSET Keys] /\ runs' \in [Keys -> Nat]
    BY <1>6 DEF ResolveAll, NoLoop
  <2> QED  BY <1>1, <1>6, <2>1 DEF ResolveAll
<1>7. CASE ResolveDep
  <2>1. stack' \in Seq(Frame) /\ ret' \in Errors \cup {"none", "ok"}  BY <1>7, ResolveDepStep
  <2> QED  BY <1>1, <1>7, <2>1 DEF ResolveDep
<1>8. CASE DepReturned
  <2>1. stack' \in Seq(Frame) /\ ret' \in Errors \cup {"none", "ok"}  BY <1>8, DepReturnedStep
  <2> QED  BY <1>1, <1>8, <2>1 DEF DepReturned
<1>9. CASE Compile
  <2>1. stack' \in Seq(Frame) /\ ret' \in Errors \cup {"none", "ok"} /\ Top.key \in Keys
    BY <1>1, <1>9, CompileStep
  <2> DEFINE k == Top.key
             b == builds[k] + 1
  <2>2. k \in Keys /\ b \in Nat  BY <1>1, <2>1
  <2>3. runs' \in [Keys -> Nat]  BY <1>1, <1>9, <2>2 DEF Compile
  <2>4. CASE UNCHANGED <<nodeVars, valid, stale, handle>>
    BY <1>1, <1>9, <2>1, <2>3, <2>4 DEF Compile
  <2>5. CASE /\ builds' = [builds EXCEPT ![k] = @ + 1]
             /\ Emplace(k, b) /\ Store(k, IF k \in Carriers THEN Null ELSE b)
    <3> HIDE DEF k, b
    <3>1. builds' \in [Keys -> Nat]  BY <1>1, <2>2, <2>5
    <3>2. nodes' \subseteq Keys /\ payload' \in [Keys -> Nat]  BY <1>1, <2>2, <2>5 DEF Emplace
    <3> DEFINE h == IF k \in Carriers THEN Null ELSE b
    <3>3. h \in Nat  BY <2>2 DEF Null
    <3>4. valid' = valid \cup {k} /\ stale' = stale \ {k} /\ handle' = [handle EXCEPT ![k] = h]
      BY <2>5 DEF Store
    <3> HIDE DEF h
    <3>5. /\ valid' \subseteq Keys /\ stale' \subseteq Keys /\ handle' \in [Keys -> Nat]
          /\ valid' \cap stale' = {}
          /\ \A x \in Keys \ (valid' \cup stale') : handle'[x] = Null
      BY <1>1, <2>2, <3>3, <3>4
    <3> QED  BY <1>1, <1>9, <2>1, <2>3, <3>1, <3>2, <3>5 DEF Compile
  <2> QED  BY <1>9, <2>4, <2>5 DEF Compile
<1>10. CASE Return  BY <1>1, <1>10 DEF Return
<1>11. CASE AllCached
  <2>1. all' \in [on : BOOLEAN, at : Nat, ok : Nat, failed : SUBSET Keys]
    BY <1>1, <1>11 DEF AllCached, SkipCounted, NextWith
  <2> QED  BY <1>1, <1>11, <2>1 DEF AllCached
<1>12. CASE AllResolve
  <2>1. stack' \in Seq(Frame) /\ ret' \in Errors \cup {"none", "ok"}  BY <1>12, AllResolveStep
  <2> QED  BY <1>1, <1>12, <2>1 DEF AllResolve
<1>13. CASE AllReturned
  <2>1. Current \in Keys
    <3>1. committed /\ all.at \in 1..Cardinality(known)
      BY <1>13, KnownFinite DEF AllReturned, Inv, LoopInv
    <3> QED  BY <1>1, <3>1, CurrentIs
  <2>2. all' \in [on : BOOLEAN, at : Nat, ok : Nat, failed : SUBSET Keys]
    BY <1>1, <1>13, <2>1 DEF AllReturned, NextWith
  <2>3. ret' = "none"  BY <1>13 DEF AllReturned
  <2> QED  BY <1>1, <1>13, <2>2, <2>3 DEF AllReturned
<1>14. CASE AllDone
  <2>1. all' \in [on : BOOLEAN, at : Nat, ok : Nat, failed : SUBSET Keys] /\ runs' \in [Keys -> Nat]
    BY <1>14 DEF AllDone, NoLoop
  <2> QED  BY <1>1, <1>14, <2>1 DEF AllDone
<1>15. CASE \E k \in Keys : Invalidate(k) \/ Evict(k)
  <2>1. PICK k \in Keys : Invalidate(k) \/ Evict(k)  BY <1>15
  <2>2. drops' \in 0..MaxDrops  BY <1>1, <2>1, AssetAssumption DEF Invalidate, Evict
  <2>3. CASE Invalidate(k)  BY <1>1, <2>2, <2>3 DEF Invalidate
  <2>4. CASE Evict(k)  BY <1>1, <2>2, <2>4 DEF Evict, Null
  <2> QED  BY <2>1, <2>3, <2>4
<1>16. CASE Clear
  <2>1. drops' \in 0..MaxDrops  BY <1>1, <1>16, AssetAssumption DEF Clear
  <2> QED  BY <1>1, <1>16, <2>1 DEF Clear, Null
<1>17. CASE \E k \in Keys : Flip(k)  BY <1>1, <1>17 DEF Flip
<1>18. CASE UNCHANGED vars  BY <1>1, <1>18 DEF vars
<1> QED
  BY <1>2, <1>3, <1>4, <1>5, <1>6, <1>7, <1>8, <1>9, <1>10, <1>11, <1>12, <1>13, <1>14, <1>15,
     <1>16, <1>17, <1>18
  DEF Next, Call, Loop

LEMMA Invariant == Spec => []Inv
<1>1. Inv /\ [Next]_vars => Inv'  BY TypeStep, GraphStep, CallStep, LoopStep DEF Inv
<1> QED  BY <1>1, InvInit, PTL DEF Spec

\* Every variable of the asset system has its type, and no entry is both valid
\* and stale, for every finite set of keys and every graph.
THEOREM AssetTyped == Spec => []TypeOK
<1>1. Inv => TypeOK  BY DEF Inv
<1> QED  BY <1>1, Invariant, PTL

\* resolve() never re-enters a key that it is resolving: its recursion goes down
\* the order in which commit() numbered the graph (system.cpp:48-109).
THEOREM RecursionDescends == Spec => []StackDescends
<1>1. Inv => StackDescends  BY DEF Inv, CallInv
<1> QED  BY <1>1, Invariant, PTL

\* compiled_nodes_.at() in resolve() never throws, and a key is compiled from
\* prerequisites that are all in the cache.
THEOREM PrerequisitesPresent == Spec => []NodesPresent
<1>1. Inv => NodesPresent  BY DEF Inv, CallInv
<1> QED  BY <1>1, Invariant, PTL

-----------------------------------------------------------------------------
(* Compiled once *)

LEMMA OnceStep == Inv /\ OnceInv /\ [Next]_vars => OnceInv'
<1> SUFFICES ASSUME Inv, OnceInv, [Next]_vars PROVE OnceInv'  OBVIOUS
<1>1. TypeOK  BY DEF Inv
<1>2. CASE \E k \in Keys : Resolve(k)
  <2>1. runs' = [x \in Keys |-> 0]  BY <1>2 DEF Resolve
  <2> QED  BY <2>1 DEF OnceInv
<1>3. CASE ResolveAll \/ Loop
  <2>1. CASE all'.on  BY <2>1 DEF OnceInv
  <2>2. CASE ~all'.on
    <3>1. AllDone
      BY <1>1, <1>3, <2>2 DEF ResolveAll, NoLoop, Loop, AllCached, SkipCounted, NextWith, AllResolve, AllReturned,
                             InLoop, TypeOK
    <3>2. runs' = [k \in Keys |-> 0]  BY <3>1 DEF AllDone
    <3> QED  BY <3>2 DEF OnceInv
  <2> QED  BY <2>1, <2>2
<1>4. CASE ResolveDep
  <2>1. stack # <<>> /\ ret = "none" /\ UNCHANGED <<all, runs, valid>>  BY <1>4 DEF ResolveDep
  <2>2. ~all.on => \A k \in Keys : runs[k] <= 1 /\ (runs[k] = 1 => k \in valid)
    BY <2>1 DEF OnceInv, Idle, Errors
  <2> QED  BY <2>1, <2>2 DEF OnceInv
<1>5. CASE DepReturned
  <2>1. stack # <<>> /\ ret # "none" /\ UNCHANGED <<all, runs, valid>>  BY <1>5 DEF DepReturned
  <2>2. ret = "ok" \/ ret' \in Errors  BY <1>5 DEF DepReturned, Succeeded, Errors
  <2>3. ~all.on => \A k \in Keys : runs[k] <= 1 /\ (runs[k] = 1 => k \in valid \/ ret \in Errors)
    BY <2>1 DEF OnceInv, Idle
  <2> QED  BY <2>1, <2>2, <2>3 DEF OnceInv, Errors
<1>6. CASE Compile
  <2>1. /\ stack # <<>> /\ ret = "none" /\ all' = all
        /\ runs' = [runs EXCEPT ![Top.key] = @ + 1]
    BY <1>6 DEF Compile
  <2>2. /\ Top.key \in Keys /\ Top.key \notin valid
        /\ ret' \in Errors \/ valid' = valid \cup {Top.key}
    BY <1>1, <1>6, CompileStep DEF TypeOK
  <2>3. valid \subseteq valid'  BY <1>6 DEF Compile, Store
  <2>4. ~all.on => \A k \in Keys : runs[k] <= 1 /\ (runs[k] = 1 => k \in valid)
    BY <2>1 DEF OnceInv, Idle, Errors
  <2>5. runs \in [Keys -> Nat]  BY <1>1 DEF TypeOK
  <2>6. ~all.on => runs[Top.key] = 0  BY <2>2, <2>4, <2>5
  <2>7. ~all.on => \A k \in Keys : runs'[k] <= 1 /\ (runs'[k] = 1 => k = Top.key \/ k \in valid)
    <3> DEFINE x == Top.key
    <3>1. x \in Keys /\ runs' = [runs EXCEPT ![x] = @ + 1] /\ (~all.on => runs[x] = 0)
      BY <2>1, <2>2, <2>6
    <3> HIDE DEF x
    <3>2. ~all.on => \A k \in Keys : runs'[k] <= 1 /\ (runs'[k] = 1 => k = x \/ k \in valid)
      BY <2>4, <2>5, <3>1
    <3> QED  BY <3>2 DEF x
  <2> QED  BY <2>1, <2>2, <2>3, <2>7 DEF OnceInv
<1>7. CASE Return
  <2>1. stack' = <<>> /\ ret' = "none" /\ ~all'.on /\ UNCHANGED <<all, runs>>  BY <1>7 DEF Return
  <2> QED  BY <2>1 DEF OnceInv, Idle
<1>8. CASE UNCHANGED callVars /\ (UNCHANGED valid \/ Idle)
  BY <1>8 DEF OnceInv, Idle
<1>9. \/ (\E k \in Keys : Resolve(k)) \/ ResolveAll \/ Loop \/ ResolveDep \/ DepReturned \/ Compile \/ Return
      \/ UNCHANGED callVars /\ (UNCHANGED valid \/ Idle)
  BY DEF Next, vars, Call, Register, CommitAccepted, CommitRefused, Invalidate, Evict, Flip, Clear
<1> QED  BY <1>2, <1>3, <1>4, <1>5, <1>6, <1>7, <1>8, <1>9

\* A prerequisite shared by several dependents is compiled once in one call of
\* resolve(), whatever the graph and whether or not the call succeeds.
THEOREM CompiledOnce == Spec => []OncePerCall
<1>1. Init => OnceInv  BY DEF Init, OnceInv, Idle, NoLoop
<1>2. OnceInv => OncePerCall  BY DEF OnceInv, OncePerCall
<1> QED  BY <1>1, <1>2, OnceStep, Invariant, PTL DEF Spec

-----------------------------------------------------------------------------
(* resolve_all() *)

LEMMA AccountStep == Inv /\ AllAccounted /\ [Next]_vars => AllAccounted'
<1> SUFFICES ASSUME Inv, AllAccounted, [Next]_vars PROVE AllAccounted'  OBVIOUS
<1>1. /\ TypeOK /\ IsFiniteSet(known) /\ Cardinality(known) \in Nat
      /\ all.at \in Nat /\ all.ok \in Nat /\ topo \in [Keys -> Nat] /\ known \subseteq Keys
  BY KnownFinite DEF Inv, TypeOK
<1>2. CASE ~all'.on  BY <1>2 DEF AllAccounted
<1>3. CASE ResolveAll
  <2>1. all'.at = 1 /\ all'.ok = 0 /\ all'.failed = {}  BY <1>3 DEF ResolveAll, NoLoop
  <2>2. UNCHANGED <<known, topo, valid>>  BY <1>3 DEF ResolveAll
  <2>3. \A k \in known : ~(topo[k] < 1)
    <3>1. committed  BY <1>3 DEF ResolveAll
    <3>2. {topo[k] : k \in known} = 1..Cardinality(known)  BY <3>1 DEF Inv, GraphInv
    <3> QED  BY <1>1, <3>2
  <2>4. Cardinality({}) = 0  BY FS_EmptySet
  <2> QED  BY <2>1, <2>2, <2>3, <2>4 DEF AllAccounted
<1>4. CASE all.on /\ UNCHANGED <<all, known, topo>> /\ valid \subseteq valid'
  BY <1>4 DEF AllAccounted
<1>5. CASE all.on /\ (AllCached \/ AllReturned)
  <2>1. /\ all.at \in 1..Cardinality(known) /\ committed
        /\ UNCHANGED <<known, topo, valid>>
        /\ all.failed \subseteq {k \in known : topo[k] < all.at}
    <3>1. /\ committed /\ all.failed \subseteq {k \in known : topo[k] < all.at}
          /\ all.at \in 1..Cardinality(known) + 1
          /\ ret # "none" => all.at <= Cardinality(known)
      BY <1>5 DEF Inv, LoopInv
    <3>2. all.at <= Cardinality(known)  BY <1>5, <3>1 DEF AllCached, InLoop, AllReturned
    <3>3. all.at \in 1..Cardinality(known)  BY <1>1, <3>1, <3>2
    <3>4. UNCHANGED <<known, topo, valid>>  BY <1>5 DEF AllCached, AllReturned
    <3> QED  BY <3>1, <3>3, <3>4
  <2>2. /\ Current \in known /\ topo[Current] = all.at
        /\ \A k \in known : topo[k] = all.at => k = Current
    BY <2>1, CurrentIs
  <2>3. IsFiniteSet(all.failed) /\ Cardinality(all.failed) \in Nat
    BY <1>1, <2>1, FS_Subset, FS_CardinalityType
  <2>4. /\ all.ok + Cardinality(all.failed) = all.at - 1
        /\ \A k \in known : topo[k] < all.at /\ k \notin all.failed => k \in valid
    BY <1>5 DEF AllAccounted
  <2>5. \A k \in known : topo[k] < all.at + 1 => topo[k] < all.at \/ k = Current
    BY <1>1, <2>2
  <2> DEFINE c == Current
  <2> HIDE DEF c
  <2>6. CASE /\ c \in valid
             /\ all'.at = all.at + 1 /\ all'.ok = all.ok + 1 /\ all'.failed = all.failed
    BY <1>1, <2>1, <2>3, <2>4, <2>5, <2>6 DEF AllAccounted, c
  <2>7. CASE /\ all'.at = all.at + 1 /\ all'.ok = all.ok /\ all'.failed = all.failed \cup {c}
    <3>1. c \notin all.failed  BY <1>1, <2>1, <2>2 DEF c
    <3>2. Cardinality(all'.failed) = Cardinality(all.failed) + 1
      BY <2>3, <2>7, <3>1, FS_AddElement
    <3> QED  BY <1>1, <2>1, <2>3, <2>4, <2>5, <2>7, <3>2 DEF AllAccounted, c
  <2>8. CASE AllCached
    <3>1. c \in valid /\ all' = SkipCounted  BY <2>8 DEF AllCached, c
    <3>2. all'.at = all.at + 1 /\ all'.ok = all.ok + 1 /\ all'.failed = all.failed
      BY <1>1, <3>1 DEF SkipCounted, NextWith, TypeOK
    <3> QED  BY <2>6, <3>1, <3>2
  <2>9. CASE AllReturned
    <3>1. CASE ret = "ok"
      <4>1. c \in valid  BY <1>5, <2>9, <3>1 DEF AllReturned, Inv, LoopInv, c
      <4>2. all'.at = all.at + 1 /\ all'.ok = all.ok + 1 /\ all'.failed = all.failed
        BY <1>1, <2>9, <3>1 DEF AllReturned, NextWith, TypeOK
      <4> QED  BY <2>6, <4>1, <4>2
    <3>2. CASE ret # "ok"
      <4>1. all'.at = all.at + 1 /\ all'.ok = all.ok /\ all'.failed = all.failed \cup {c}
        BY <1>1, <2>9, <3>2 DEF AllReturned, NextWith, TypeOK, c
      <4> QED  BY <2>7, <4>1
    <3> QED  BY <3>1, <3>2
  <2> QED  BY <1>5, <2>8, <2>9
<1>6. \/ ~all'.on \/ ResolveAll \/ (all.on /\ UNCHANGED <<all, known, topo>> /\ valid \subseteq valid')
      \/ all.on /\ (AllCached \/ AllReturned)
  <2>1. CASE ~all.on
    BY <2>1 DEF Next, vars, Call, Loop, Register, CommitAccepted, CommitRefused, Resolve,
                ResolveDep, DepReturned, Compile, Return, AllCached, AllResolve, AllReturned, AllDone, InLoop,
                Invalidate, Evict, Flip, Clear
  <2>2. CASE all.on
    BY <2>2 DEF Next, vars, Call, Loop, Register, CommitAccepted, CommitRefused, Resolve, ResolveAll,
                ResolveDep, DepReturned, Compile, Store, Return, AllResolve, AllDone, NoLoop,
                Invalidate, Evict, Flip, Clear, Idle
  <2> QED  BY <2>1, <2>2
<1> QED  BY <1>2, <1>3, <1>4, <1>5, <1>6

\* resolve_all() accounts for every node once, and the nodes it counts as
\* compiled are in the cache.
THEOREM LoopAccounts == Spec => []AllAccounted
<1>1. Init => AllAccounted  BY DEF Init, AllAccounted, NoLoop
<1> QED  BY <1>1, AccountStep, Invariant, PTL DEF Spec

-----------------------------------------------------------------------------
(* What the asset system promises *)

\* Every step of the asset system declares, freezes, builds, drops or stutters.
LEMMA DemandStep == Inv /\ [Next]_vars => [Demand!Next]_Demand!build
<1> SUFFICES ASSUME Inv, [Next]_vars PROVE [Demand!Next]_Demand!build  OBVIOUS
<1> USE DEF Demand!build
<1>1. CASE \E k \in Keys, ds \in SUBSET Keys : Register(k, ds)
  <2>1. PICK k \in Keys, ds \in SUBSET Keys : Register(k, ds)  BY <1>1
  <2>2. Demand!Declare(k, ds)  BY <2>1 DEF Register, Demand!Declare
  <2> QED  BY <2>2 DEF Demand!Next
<1>2. CASE CommitAccepted
  <2>1. Demand!Freeze  BY <1>2 DEF CommitAccepted, Demand!Freeze
  <2> QED  BY <2>1 DEF Demand!Next
<1>3. CASE Compile
  <2>1. CASE ret' = "ok"
    <3>1. /\ Top.key \in Keys /\ Top.key \notin valid /\ deps[Top.key] \subseteq valid /\ committed
          /\ valid' = valid \cup {Top.key}
      BY <1>3, <2>1, CompileStep DEF Inv, TypeOK
    <3>2. UNCHANGED <<deps, committed>>  BY <1>3 DEF Compile
    <3>3. Demand!Build(Top.key)  BY <3>1, <3>2 DEF Demand!Build
    <3> QED  BY <3>1, <3>3 DEF Demand!Next
  <2>2. CASE ret' # "ok"
    BY <1>3, <2>2 DEF Compile
  <2> QED  BY <2>1, <2>2
<1>4. CASE \E k \in Keys : Invalidate(k) \/ Evict(k)
  <2>1. PICK k \in Keys : Invalidate(k) \/ Evict(k)  BY <1>4
  <2>2. Demand!Drop({k})  BY <2>1 DEF Invalidate, Evict, Demand!Drop
  <2> QED  BY <2>2 DEF Demand!Next
<1>5. CASE Clear
  <2>1. valid \in SUBSET Keys  BY DEF Inv, TypeOK
  <2>2. Demand!Drop(valid)  BY <1>5 DEF Clear, Demand!Drop
  <2> QED  BY <2>1, <2>2 DEF Demand!Next
<1>6. CASE UNCHANGED <<deps, committed, valid>>  BY <1>6
<1>7. \/ \E k \in Keys, ds \in SUBSET Keys : Register(k, ds)
      \/ CommitAccepted \/ Compile \/ (\E k \in Keys : Invalidate(k) \/ Evict(k)) \/ Clear
      \/ UNCHANGED <<deps, committed, valid>>
  BY DEF Next, vars, Call, Loop, CommitRefused, Resolve, ResolveAll, ResolveDep, DepReturned, Return,
         AllCached, AllResolve, AllReturned, AllDone, Flip
<1> QED  BY <1>1, <1>2, <1>3, <1>4, <1>5, <1>6, <1>7

\* The asset system implements DemandBuild: a key becomes ready only by a build
\* from prerequisites that are ready.
THEOREM DemandImplemented == Spec => DemandSpec
<1>1. Init => Demand!Init  BY DEF Init, Demand!Init
<1> QED  BY <1>1, DemandStep, Invariant, PTL DEF Spec, DemandSpec, Demand!Spec
=============================================================================
