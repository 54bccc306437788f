---------------------------- MODULE LoggerProofs ----------------------------
(***************************************************************************)
(* For every number of producers and waiters, every capacity and every     *)
(* interleaving: the types of Logger, the exactness of its in-flight       *)
(* counter, what wait_until_idle() promises when it returns, what becomes  *)
(* of a replaced sink, what shutdown_logger() delivers, the order of       *)
(* delivery, and that the logger implements LogChannel.                    *)
(***************************************************************************)
EXTENDS Logger, FiniteSetTheorems, SequenceTheorems, TLAPS

\* A producer that has claimed a number carries one record; one that is
\* inside push() has counted its call.
PushLocal ==
    \A p \in Producers :
        /\ pushPc[p] \in {"ring", "submit"} => Len(pushMsg[p]) = 1
        /\ pushPc[p] # "out" => calls[p] >= 1

\* The worker holds a record exactly from the pop to the fetch_sub, and is
\* gone once it is joined.
WorkLocal ==
    /\ Len(workMsg) = IF workPc \in {"dispatch", "sink", "release"} THEN 1 ELSE 0
    /\ stopPc = "joined" => workPc = "exited"

\* Where a record is that the ring has accepted.
Reached(r) ==
    \/ r \in Delivered
    \/ \E i \in 1..Len(ring) : ring[i] = r
    \/ workPc = "dispatch" /\ workMsg[1] = r

\* Whatever push() has returned true for, or is about to, is in the ring, in
\* the worker's hands or delivered.
NothingLost ==
    /\ \A r \in accepted : Reached(r)
    /\ \A p \in Producers : pushPc[p] = "submit" => Reached(pushMsg[p][1])

\* A waiter waits for what was accepted when it called.
WaitLocal ==
    \A w \in Waiters :
        /\ waitFor[w] \subseteq accepted
        /\ waitPc[w] = "out" => waitFor[w] = {}

CountInv == TypeOK /\ PushLocal /\ WorkLocal /\ InFlightExact
IdleInv  == NothingLost /\ WaitLocal /\ IdleReturnDelivers

USE DEF pushFrame, waitFrame, workFrame, stopFrame

-----------------------------------------------------------------------------
(* Counting the pushes under way *)

\* The pushes that have counted themselves in are finitely many.
LEMMA CountedFinite ==
    ASSUME TypeOK
    PROVE  IsFiniteSet(Counted) /\ Cardinality(Counted) \in Nat
<1>1. Counted \subseteq Producers  BY DEF Counted
<1>2. IsFiniteSet(Counted)  BY <1>1, LoggerAssumption, FS_Subset DEF LoggerAssumption
<1> QED  BY <1>2, FS_CardinalityType

\* One more push under way is one more to count (PushBegin).
LEMMA CountedGrows ==
    ASSUME TypeOK, NEW p \in Producers, p \notin Counted, Counted' = Counted \cup {p}
    PROVE  Cardinality(Counted') = Cardinality(Counted) + 1
BY CountedFinite, FS_AddElement

\* One push less under way is one less to count (PushRing, PushUnwind).
LEMMA CountedShrinks ==
    ASSUME TypeOK, NEW p \in Producers, p \in Counted, Counted' = Counted \ {p}
    PROVE  Cardinality(Counted') = Cardinality(Counted) - 1
BY CountedFinite, FS_RemoveElement

\* No record at all is a sequence of records.
LEMMA NoMsgType == NoMsg \in Seq(Record) /\ Len(NoMsg) = 0
BY EmptySeq DEF NoMsg

\* Appending a sequence of one record leaves the others where they were.
LEMMA AppendOne ==
    ASSUME NEW s \in Seq(Record), NEW t \in Seq(Record), Len(t) = 1
    PROVE  /\ Len(s \o t) = Len(s) + 1
           /\ \A i \in 1..Len(s) : (s \o t)[i] = s[i]
           /\ (s \o t)[Len(s) + 1] = t[1]
<1>1. Len(s) \in Nat  BY LenProperties
<1>a. /\ Len(s \o t) = Len(s) + Len(t)
      /\ \A i \in 1..Len(s) + Len(t) : (s \o t)[i] = IF i <= Len(s) THEN s[i] ELSE t[i - Len(s)]
  BY ConcatProperties, Zenon
<1>2. /\ Len(s \o t) = Len(s) + 1
      /\ \A i \in 1..Len(s) + 1 : (s \o t)[i] = IF i <= Len(s) THEN s[i] ELSE t[i - Len(s)]
  BY <1>a
<1>3. (s \o t)[Len(s) + 1] = t[1]
  <2>1. Len(s) + 1 \in 1..Len(s) + 1 /\ ~(Len(s) + 1 <= Len(s)) /\ Len(s) + 1 - Len(s) = 1
    BY <1>1
  <2> QED  BY <1>2, <2>1
<1> QED  BY <1>1, <1>2, <1>3

-----------------------------------------------------------------------------
(* The in-flight counter *)

LEMMA CountInit == Init => CountInv
<1> SUFFICES ASSUME Init PROVE CountInv  OBVIOUS
<1>1. Counted = {}  BY DEF Init, Counted
<1>2. Cardinality(Counted) = 0  BY <1>1, FS_EmptySet
<1>3. TypeOK
  <2>1. ring \in Seq(Record) /\ Len(ring) <= Capacity /\ delivered \in Seq(Record)
    BY NoMsgType, LoggerAssumption DEF Init, NoMsg, LoggerAssumption
  <2>2. /\ pushPc \in [Producers -> PushPc] /\ pushMsg \in [Producers -> Seq(Record)]
        /\ calls \in [Producers -> Nat] /\ accepted \subseteq Record
    BY NoMsgType, LoggerAssumption DEF Init, PushPc, LoggerAssumption
  <2>3. /\ waitPc \in [Waiters -> WaitPc] /\ waitFor \in [Waiters -> SUBSET Record]
        /\ idleHolder \in Waiters \cup {"free"}
    BY DEF Init, WaitPc
  <2>4. workMsg \in Seq(Record) /\ Len(workMsg) <= 1 /\ workPc \in WorkPc
    BY NoMsgType DEF Init, WorkPc
  <2>5. accepting \in BOOLEAN /\ running \in BOOLEAN /\ draining \in BOOLEAN
    BY DEF Init
  <2>6. /\ nextSequence \in Nat /\ dropped \in Nat /\ submitted \in Nat /\ inFlight \in Nat
        /\ inits \in 0..MaxInits /\ setSinks \in 0..MaxSetSinks /\ staleCalls \in Nat
    BY LoggerAssumption DEF Init, LoggerAssumption
  <2>7. /\ handle \in {"null", "live"} /\ stopPc \in StopPc
        /\ toolSink \in Sinks \cup {NoSink} /\ workSink \in Sinks \cup {NoSink}
    BY DEF Init, StopPc
  <2> QED  BY <2>1, <2>2, <2>3, <2>4, <2>5, <2>6, <2>7 DEF TypeOK
<1>4. PushLocal /\ WorkLocal  BY DEF Init, PushLocal, WorkLocal, NoMsg
<1>5. InFlightExact  BY <1>2 DEF Init, InFlightExact, NoMsg
<1> QED  BY <1>3, <1>4, <1>5 DEF CountInv

\* Every producer step keeps the count.
LEMMA CountPush ==
    ASSUME CountInv, NEW p \in Producers, Push(p)
    PROVE  CountInv'
<1> USE LoggerAssumption DEF LoggerAssumption, CountInv
<1>c. Cardinality(Counted) \in Nat  BY CountedFinite
<1>1. CASE LogFiltered(p)
  <2>1. TypeOK'  BY <1>1 DEF LogFiltered, TypeOK, queueVars, workVars, waitVars, sinkVars, lifeVars
  <2>2. PushLocal'  BY <1>1 DEF LogFiltered, TypeOK, PushLocal
  <2>3. WorkLocal'  BY <1>1 DEF LogFiltered, WorkLocal, workVars, lifeVars
  <2>4. InFlightExact'  BY <1>1 DEF LogFiltered, InFlightExact, Counted, workVars, queueVars
  <2> QED  BY <2>1, <2>2, <2>3, <2>4
<1>2. CASE PushBegin(p)
  <2>1. TypeOK'  BY <1>2 DEF PushBegin, CountIn, TypeOK, PushPc, queueVars, workVars, waitVars, sinkVars, lifeVars
  <2>2. PushLocal'  BY <1>2 DEF PushBegin, TypeOK, PushLocal
  <2>3. WorkLocal'  BY <1>2 DEF PushBegin, WorkLocal, workVars, lifeVars
  <2>4. InFlightExact'
    <3>1. p \notin Counted /\ Counted' = Counted \cup {p}  BY <1>2 DEF PushBegin, Counted, TypeOK
    <3>2. Cardinality(Counted') = Cardinality(Counted) + 1  BY <3>1, CountedGrows
    <3> QED  BY <1>2, <1>c, <3>2 DEF PushBegin, CountIn, InFlightExact, TypeOK, workVars, queueVars
  <2> QED  BY <2>1, <2>2, <2>3, <2>4
<1>3. CASE PushGate(p)
  <2>0. /\ pushPc' \in [Producers -> PushPc] /\ pushMsg' \in [Producers -> Seq(Record)]
        /\ dropped' \in Nat
    <3>1. \/ pushPc' = [pushPc EXCEPT ![p] = "claim"] /\ dropped' = dropped /\ pushMsg' = pushMsg
          \/ Rejected(p)
      BY <1>3, Zenon DEF PushGate
    <3>2. pushPc' \in [Producers -> PushPc]  BY <3>1 DEF Rejected, TypeOK, PushPc
    <3>3. pushMsg' \in [Producers -> Seq(Record)]  BY <3>1, NoMsgType DEF Rejected, TypeOK
    <3>4. dropped' \in Nat  BY <3>1 DEF Rejected, TypeOK
    <3> QED  BY <3>2, <3>3, <3>4
  <2>1. TypeOK'  BY <1>3, <2>0 DEF PushGate, TypeOK, workVars, waitVars, sinkVars, lifeVars
  <2>2. PushLocal'  BY <1>3 DEF PushGate, Rejected, TypeOK, PushLocal
  <2>3. WorkLocal'  BY <1>3 DEF PushGate, WorkLocal, workVars, lifeVars
  <2>4. InFlightExact'
    <3>1. Counted' = Counted  BY <1>3 DEF PushGate, Rejected, Counted, TypeOK
    <3> QED  BY <1>3, <3>1 DEF PushGate, InFlightExact, workVars
  <2> QED  BY <2>1, <2>2, <2>3, <2>4
<1>4. CASE PushClaim(p)
  <2>0. [from |-> p, n |-> calls[p], seq |-> nextSequence] \in Record
    BY <1>4 DEF PushClaim, TypeOK, PushLocal, Record
  <2>1. TypeOK'  BY <1>4, <2>0 DEF PushClaim, SequenceNumber, TypeOK, PushPc, workVars, waitVars, sinkVars, lifeVars
  <2>2. PushLocal'  BY <1>4 DEF PushClaim, TypeOK, PushLocal
  <2>3. WorkLocal'  BY <1>4 DEF PushClaim, WorkLocal, workVars, lifeVars
  <2>4. InFlightExact'
    <3>1. Counted' = Counted  BY <1>4 DEF PushClaim, Counted, TypeOK
    <3> QED  BY <1>4, <3>1 DEF PushClaim, InFlightExact, workVars
  <2> QED  BY <2>1, <2>2, <2>3, <2>4
<1>5. CASE PushRing(p)
  <2>0. CASE Len(ring) < Capacity
    <3>0. /\ Len(pushMsg[p]) = 1 /\ pushMsg[p] \in Seq(Record)
          /\ ring' = ring \o pushMsg[p] /\ pushPc' = [pushPc EXCEPT ![p] = "submit"]
          /\ UNCHANGED <<dropped, pushMsg>>
      BY <1>5, <2>0 DEF PushRing, TypeOK, PushLocal
    <3>a. ring \in Seq(Record)  BY DEF TypeOK
    <3>b. /\ ring \o pushMsg[p] \in Seq(Record)
          /\ Len(ring \o pushMsg[p]) = Len(ring) + Len(pushMsg[p])
      BY <3>0, <3>a, ConcatProperties
    <3>5. ring' \in Seq(Record) /\ Len(ring') = Len(ring) + 1
      BY <3>0, <3>b
    <3>1. TypeOK'  BY <1>5, <2>0, <3>0, <3>5 DEF PushRing, TypeOK, PushPc, workVars, waitVars, sinkVars, lifeVars
    <3>2. PushLocal'  BY <1>5, <3>0 DEF PushRing, TypeOK, PushLocal
    <3>3. WorkLocal'  BY <1>5 DEF PushRing, WorkLocal, workVars, lifeVars
    <3>4. InFlightExact'
      <4>1. p \in Counted /\ Counted' = Counted \ {p}  BY <1>5, <3>0 DEF PushRing, Counted, TypeOK
      <4>2. Cardinality(Counted') = Cardinality(Counted) - 1  BY <4>1, CountedShrinks
      <4> QED  BY <1>5, <1>c, <3>5, <4>2 DEF PushRing, InFlightExact, TypeOK, workVars
    <3> QED  BY <3>1, <3>2, <3>3, <3>4
  <2>1. CASE Len(ring) >= Capacity
    <3>0. Rejected(p) /\ UNCHANGED ring  BY <1>5, <2>1 DEF PushRing, TypeOK
    <3>1. TypeOK'  BY <1>5, <3>0, NoMsgType DEF PushRing, Rejected, TypeOK, PushPc, workVars, waitVars, sinkVars, lifeVars
    <3>2. PushLocal'  BY <1>5, <3>0 DEF PushRing, Rejected, TypeOK, PushLocal
    <3>3. WorkLocal'  BY <1>5 DEF PushRing, WorkLocal, workVars, lifeVars
    <3>4. InFlightExact'
      <4>1. Counted' = Counted  BY <1>5, <3>0 DEF PushRing, Rejected, Counted, TypeOK
      <4> QED  BY <1>5, <3>0, <4>1 DEF PushRing, InFlightExact, workVars
    <3> QED  BY <3>1, <3>2, <3>3, <3>4
  <2>2. Len(ring) \in Nat  BY LenProperties DEF TypeOK
  <2> QED  BY <2>0, <2>1, <2>2
<1>6. CASE PushSubmit(p)
  <2>0. pushMsg[p][1] \in Record  BY <1>6 DEF PushSubmit, TypeOK, PushLocal
  <2>1. TypeOK'  BY <1>6, <2>0, NoMsgType DEF PushSubmit, CountSubmitted, TypeOK, PushPc, workVars, waitVars, sinkVars, lifeVars
  <2>2. PushLocal'  BY <1>6 DEF PushSubmit, TypeOK, PushLocal
  <2>3. WorkLocal'  BY <1>6 DEF PushSubmit, WorkLocal, workVars, lifeVars
  <2>4. InFlightExact'
    <3>1. Counted' = Counted  BY <1>6 DEF PushSubmit, Counted, TypeOK
    <3> QED  BY <1>6, <3>1 DEF PushSubmit, InFlightExact, workVars
  <2> QED  BY <2>1, <2>2, <2>3, <2>4
<1>7. CASE PushUnwind(p)
  <2>0. p \in Counted /\ Counted' = Counted \ {p}
    BY <1>7 DEF PushUnwind, Counted, TypeOK
  <2>1. Cardinality(Counted') = Cardinality(Counted) - 1  BY <2>0, CountedShrinks
  <2>2. IsFiniteSet(Counted')  BY <2>0, CountedFinite, FS_RemoveElement
  <2>3. Cardinality(Counted') \in Nat  BY <2>2, FS_CardinalityType
  <2>4. inFlight' \in Nat  BY <1>7, <1>c, <2>1, <2>3 DEF PushUnwind, InFlightExact, TypeOK
  <2>5. TypeOK'  BY <1>7, <2>4 DEF PushUnwind, TypeOK, PushPc, queueVars, workVars, waitVars, sinkVars, lifeVars
  <2>6. PushLocal'  BY <1>7 DEF PushUnwind, TypeOK, PushLocal
  <2>7. WorkLocal'  BY <1>7 DEF PushUnwind, WorkLocal, workVars, lifeVars
  <2>8. InFlightExact'  BY <1>7, <1>c, <2>1 DEF PushUnwind, InFlightExact, TypeOK, queueVars, workVars
  <2> QED  BY <2>5, <2>6, <2>7, <2>8
<1>8. CASE PushNotify(p)
  <2>1. TypeOK'  BY <1>8 DEF PushNotify, NotifyAll, TypeOK, PushPc, WaitPc, queueVars, workVars, sinkVars, lifeVars
  <2>2. PushLocal'  BY <1>8 DEF PushNotify, TypeOK, PushLocal
  <2>3. WorkLocal'  BY <1>8 DEF PushNotify, WorkLocal, workVars, lifeVars
  <2>4. InFlightExact'
    <3>1. Counted' = Counted  BY <1>8 DEF PushNotify, Counted, TypeOK
    <3> QED  BY <1>8, <3>1 DEF PushNotify, InFlightExact, queueVars, workVars
  <2> QED  BY <2>1, <2>2, <2>3, <2>4
<1> QED  BY <1>1, <1>2, <1>3, <1>4, <1>5, <1>6, <1>7, <1>8 DEF Push

\* A waiter's step touches neither the records nor the counter.
LEMMA CountWait ==
    ASSUME CountInv, NEW w \in Waiters, Wait(w)
    PROVE  CountInv'
<1> USE DEF CountInv
<1>1. TypeOK'
  BY DEF Wait, WaitBegin, WaitLock, WaitCheck, WaitSleep, WaitSpurious, WaitReturn, TypeOK, WaitPc,
         queueVars, pushVars, workVars, sinkVars, lifeVars
<1>2. UNCHANGED <<queueVars, inFlight, pushVars, workVars, lifeVars>>
  BY DEF Wait, WaitBegin, WaitLock, WaitCheck, WaitSleep, WaitSpurious, WaitReturn
<1>3. PushLocal' /\ WorkLocal'
  BY <1>2 DEF PushLocal, WorkLocal, pushVars, workVars, lifeVars
<1>4. InFlightExact'
  BY <1>2 DEF InFlightExact, Counted, queueVars, pushVars, workVars
<1> QED  BY <1>1, <1>3, <1>4

\* The worker moves a record from the ring into its hands and gives the count
\* back when it lets go of it.
LEMMA CountWorker ==
    ASSUME CountInv, Worker
    PROVE  CountInv'
<1> USE DEF CountInv
<1>c. Cardinality(Counted) \in Nat  BY CountedFinite
<1>1. UNCHANGED <<pushVars, accepting, nextSequence, dropped, submitted, sinkVars, lifeVars>>
  BY DEF Worker, WorkerTest, WorkerPop, WorkerDispatch, WorkerSink, WorkerRelease, WorkerNotify,
         WorkerExit, queueVars
<1>2. PushLocal' /\ Counted' = Counted
  BY <1>1 DEF PushLocal, Counted, pushVars
<1>3. CASE WorkerPop /\ ring # <<>>
  <2>1. /\ workMsg' = <<Head(ring)>> /\ ring' = Tail(ring) /\ workPc' = "dispatch"
        /\ UNCHANGED <<inFlight, draining, workSink, delivered, staleCalls, waitVars>>
    BY <1>3 DEF WorkerPop, PopOldest
  <2>2. /\ Head(ring) \in Record /\ ring' \in Seq(Record)
        /\ Len(ring') = Len(ring) - 1 /\ Len(ring) \in Nat
    BY <1>3, <2>1, HeadTailProperties, LenProperties DEF TypeOK
  <2>3. workMsg' \in Seq(Record) /\ Len(workMsg') = 1
    BY <2>1, <2>2
  <2>4. workPc = "pop" /\ Len(workMsg) = 0
    BY <1>3 DEF WorkerPop, WorkLocal
  <2>5. TypeOK'
    BY <1>1, <2>1, <2>2, <2>3, LoggerAssumption
       DEF TypeOK, WorkPc, LoggerAssumption, pushVars, waitVars, sinkVars, lifeVars
  <2>6. WorkLocal'  BY <1>1, <2>1, <2>3, <2>4 DEF WorkLocal, lifeVars
  <2>7. InFlightExact'
    BY <1>2, <1>c, <2>1, <2>2, <2>3, <2>4 DEF InFlightExact, TypeOK
  <2> QED  BY <1>2, <2>5, <2>6, <2>7
<1>4. CASE WorkerTest \/ (WorkerPop /\ ring = <<>>) \/ WorkerSink
  <2>1. UNCHANGED <<inFlight, workMsg, ring, delivered, workSink, waitVars>>
    BY <1>4 DEF WorkerTest, WorkerPop, WorkerSink, queueVars
  <2>a. workPc' \in WorkPc /\ staleCalls' \in Nat
    BY <1>4 DEF WorkerTest, WorkerPop, WorkerSink, WorkPc, TypeOK
  <2>b. draining' \in BOOLEAN
    BY <1>4, Zenon DEF WorkerTest, WorkerPop, WorkerSink, TypeOK
  <2>2. TypeOK'
    BY <1>1, <2>1, <2>a, <2>b DEF TypeOK, pushVars, waitVars, sinkVars, lifeVars
  <2>3. WorkLocal'  BY <1>1, <1>4, <2>1 DEF WorkerTest, WorkerPop, WorkerSink, WorkLocal, lifeVars
  <2>4. InFlightExact'  BY <1>2, <2>1 DEF InFlightExact
  <2> QED  BY <1>2, <2>2, <2>3, <2>4
<1>5. CASE WorkerDispatch
  <2>1. delivered' \in Seq(Record)
    BY <1>5, ConcatProperties DEF WorkerDispatch, TypeOK
  <2>2. UNCHANGED <<inFlight, workMsg, ring, waitVars, draining, staleCalls>>
    BY <1>5 DEF WorkerDispatch, queueVars
  <2>3. TypeOK'
    BY <1>1, <1>5, <2>1, <2>2 DEF WorkerDispatch, CopySink, TypeOK, WorkPc, pushVars, waitVars,
       sinkVars, lifeVars
  <2>4. WorkLocal'  BY <1>1, <1>5 DEF WorkerDispatch, WorkLocal, lifeVars
  <2>5. InFlightExact'  BY <1>2, <2>2 DEF InFlightExact
  <2> QED  BY <1>2, <2>3, <2>4, <2>5
<1>6. CASE WorkerRelease
  <2>1. Len(workMsg) = 1 /\ inFlight' = inFlight - 1 /\ workMsg' = NoMsg
        /\ UNCHANGED <<ring, delivered, workSink, draining, staleCalls, waitVars>>
    BY <1>6 DEF WorkerRelease, WorkLocal, queueVars
  <2>2. Len(ring) \in Nat  BY LenProperties DEF TypeOK
  <2>a. inFlight = Cardinality(Counted) + Len(ring) + 1
    BY <2>1 DEF InFlightExact
  <2>3. inFlight' = Cardinality(Counted) + Len(ring) /\ inFlight' \in Nat
    BY <1>c, <2>1, <2>2, <2>a
  <2>4. TypeOK'
    BY <1>1, <1>6, <2>1, <2>3, NoMsgType
       DEF WorkerRelease, TypeOK, WorkPc, pushVars, waitVars, sinkVars, lifeVars
  <2>5. WorkLocal'  BY <1>1, <1>6, <2>1, NoMsgType DEF WorkerRelease, WorkLocal, lifeVars
  <2>6. InFlightExact'
    <3>1. Len(workMsg') = 0 /\ Len(ring') = Len(ring)  BY <2>1, NoMsgType
    <3> QED  BY <1>2, <1>c, <2>2, <2>3, <3>1 DEF InFlightExact
  <2> QED  BY <1>2, <2>4, <2>5, <2>6
<1>7. CASE WorkerNotify \/ WorkerExit
  <2>1. UNCHANGED <<inFlight, workMsg, ring, delivered, workSink, draining, staleCalls, idleHolder, waitFor>>
    BY <1>7 DEF WorkerNotify, WorkerExit, NotifyAll, queueVars
  <2>2. TypeOK'
    BY <1>1, <1>7, <2>1 DEF WorkerNotify, WorkerExit, NotifyAll, TypeOK, WorkPc, WaitPc, pushVars,
       sinkVars, lifeVars
  <2>3. WorkLocal'  BY <1>1, <1>7, <2>1 DEF WorkerNotify, WorkerExit, WorkLocal, lifeVars
  <2>4. InFlightExact'  BY <1>2, <2>1 DEF InFlightExact
  <2> QED  BY <1>2, <2>2, <2>3, <2>4
<1> QED  BY <1>3, <1>4, <1>5, <1>6, <1>7 DEF Worker

\* A new LoggerState starts with nothing in flight; stop() and set_sink() leave
\* the records alone, and the state is deleted after the worker has let go.
LEMMA CountLife ==
    ASSUME CountInv, InitLogger \/ Stop \/ \E s \in Sinks \cup {NoSink} : SetSink(s)
    PROVE  CountInv'
<1> USE LoggerAssumption DEF LoggerAssumption, CountInv
<1>1. CASE InitLogger
  <2>0. NoMsg' = NoMsg /\ ring' = NoMsg /\ delivered' = NoMsg  BY <1>1 DEF InitLogger, NoMsg
  <2>a. /\ ring' \in Seq(Record) /\ Len(ring') <= Capacity /\ delivered' \in Seq(Record)
        /\ workMsg' \in Seq(Record) /\ Len(workMsg') <= 1
    BY <1>1, <2>0, NoMsgType DEF InitLogger
  <2>b. UNCHANGED <<pushPc, pushMsg, calls, waitPc, idleHolder, waitFor, setSinks>>
    BY <1>1 DEF InitLogger, waitVars
  <2>c. /\ handle' = "live" /\ inits' \in 0..MaxInits /\ stopPc' = "no"
        /\ accepting' = TRUE /\ running' = TRUE /\ draining' = FALSE
        /\ nextSequence' = 1 /\ dropped' = 0 /\ submitted' = 0 /\ inFlight' = 0
        /\ toolSink' = NoSink /\ workSink' = NoSink /\ workPc' = "test"
        /\ accepted' = {} /\ staleCalls' = 0
    BY <1>1 DEF InitLogger, TypeOK
  <2>1. TypeOK'
    BY <2>a, <2>b, <2>c DEF TypeOK, WorkPc, StopPc
  <2>2. PushLocal'  BY <1>1 DEF InitLogger, PushLocal
  <2>3. WorkLocal'  BY <1>1, NoMsgType DEF InitLogger, WorkLocal
  <2>4. Counted' = {}  BY <1>1 DEF InitLogger, CallersOut, Counted
  <2>5. Cardinality(Counted') = 0  BY <2>4, FS_EmptySet
  <2>6. InFlightExact'  BY <1>1, <2>0, <2>5, NoMsgType DEF InitLogger, InFlightExact
  <2> QED  BY <2>1, <2>2, <2>3, <2>6
<1>2. CASE Stop
  <2>1. UNCHANGED <<ring, inFlight, pushVars, workMsg, delivered>>
    BY <1>2 DEF Stop, StopClose, StopRunning, StopJoin, StopDelete, queueVars, workVars
  <2>2. TypeOK'
    BY <1>2 DEF Stop, StopClose, StopRunning, StopJoin, StopDelete, TypeOK, WorkPc, StopPc,
       queueVars, pushVars, workVars, waitVars, sinkVars
  <2>3. PushLocal'  BY <2>1 DEF PushLocal, pushVars
  <2>4. WorkLocal'
    BY <1>2, <2>1 DEF Stop, StopClose, StopRunning, StopJoin, StopDelete, WorkLocal, workVars
  <2>5. InFlightExact'  BY <2>1 DEF InFlightExact, Counted, pushVars
  <2> QED  BY <2>2, <2>3, <2>4, <2>5
<1>3. ASSUME NEW s \in Sinks \cup {NoSink}, SetSink(s) PROVE CountInv'
  <2>1. TypeOK'
    BY <1>3 DEF SetSink, TypeOK, queueVars, pushVars, waitVars, lifeVars
  <2>2. PushLocal' /\ WorkLocal'  BY <1>3 DEF SetSink, PushLocal, WorkLocal, pushVars, lifeVars
  <2>3. InFlightExact'  BY <1>3 DEF SetSink, InFlightExact, Counted, pushVars, queueVars
  <2> QED  BY <2>1, <2>2, <2>3
<1> QED  BY <1>1, <1>2, <1>3

LEMMA CountNext == CountInv /\ [Next]_vars => CountInv'
<1> SUFFICES ASSUME CountInv, [Next]_vars PROVE CountInv'  OBVIOUS
<1>1. CASE UNCHANGED vars
  BY <1>1 DEF CountInv, TypeOK, PushLocal, WorkLocal, InFlightExact, Counted, vars, queueVars,
     pushVars, workVars, waitVars, sinkVars, lifeVars
<1>2. CASE Next
  BY <1>2, CountPush, CountWait, CountWorker, CountLife DEF Next
<1> QED  BY <1>1, <1>2

\* Types: in particular the in-flight counter never goes below zero and the
\* ring never above its capacity, whatever the threads do.
THEOREM TypeCorrect == Spec => []TypeOK
<1>1. Spec => []CountInv  BY CountInit, CountNext, PTL DEF Spec
<1>2. CountInv => TypeOK  BY DEF CountInv
<1> QED  BY <1>1, <1>2, PTL

\* The in-flight counter is exact at every instant, for any number of threads.
THEOREM InFlightCorrect == Spec => []InFlightExact
<1>1. Spec => []CountInv  BY CountInit, CountNext, PTL DEF Spec
<1>2. CountInv => InFlightExact  BY DEF CountInv
<1> QED  BY <1>1, <1>2, PTL

-----------------------------------------------------------------------------
(* What an idle logger has delivered *)

\* Every step but a fresh start keeps a record where it was or moves it on.
LEMMA ReachedStays ==
    ASSUME CountInv, Next, ~InitLogger, NEW r \in Record, Reached(r)
    PROVE  Reached(r)'
<1>t. /\ ring \in Seq(Record) /\ delivered \in Seq(Record) /\ workMsg \in Seq(Record)
      /\ pushMsg \in [Producers -> Seq(Record)] /\ Len(ring) \in Nat /\ Len(delivered) \in Nat
  BY LenProperties DEF CountInv, TypeOK
<1>1. CASE WorkerPop /\ ring # <<>>
  <2>1. /\ workMsg' = <<Head(ring)>> /\ ring' = Tail(ring) /\ workPc' = "dispatch"
        /\ delivered' = delivered /\ workPc = "pop"
    BY <1>1 DEF WorkerPop, PopOldest
  <2>2. Len(ring') = Len(ring) - 1 /\ \A i \in 1..Len(ring') : ring'[i] = ring[i+1]
    BY <1>1, <1>t, <2>1, HeadTailProperties
  <2>3. CASE r \in Delivered  BY <2>1, <2>3 DEF Reached, Delivered
  <2>4. ASSUME NEW i \in 1..Len(ring), ring[i] = r PROVE Reached(r)'
    <3>1. CASE i = 1
      <4>1. workMsg'[1] = r  BY <1>1, <1>t, <2>1, <2>4, <3>1
      <4> QED  BY <2>1, <4>1 DEF Reached
    <3>2. CASE i # 1
      <4>1. i - 1 \in 1..Len(ring') /\ ring'[i-1] = r  BY <1>t, <2>2, <2>4, <3>2
      <4> QED  BY <4>1 DEF Reached
    <3> QED  BY <3>1, <3>2
  <2> QED  BY <2>1, <2>3, <2>4 DEF Reached
<1>2. CASE WorkerDispatch
  <2>1. delivered' = delivered \o workMsg /\ ring' = ring /\ workPc = "dispatch" /\ Len(workMsg) = 1
    BY <1>2 DEF WorkerDispatch, queueVars, CountInv, WorkLocal
  <2>2. /\ Len(delivered') = Len(delivered) + 1
        /\ \A i \in 1..Len(delivered) : delivered'[i] = delivered[i]
        /\ delivered'[Len(delivered) + 1] = workMsg[1]
    BY <1>t, <2>1, AppendOne
  <2>3. Delivered \subseteq Delivered' /\ workMsg[1] \in Delivered'
    BY <1>t, <2>2 DEF Delivered
  <2> QED  BY <2>1, <2>3 DEF Reached
<1>3. ASSUME NEW p \in Producers, PushRing(p), Len(ring) < Capacity PROVE Reached(r)'
  <2>1. ring' = ring \o pushMsg[p] /\ UNCHANGED <<delivered, workPc, workMsg>>
    <3>1. ~(Len(ring) >= Capacity)  BY <1>3, <1>t, LoggerAssumption DEF LoggerAssumption
    <3>2. ring' = ring \o pushMsg[p]  BY <1>3, <3>1 DEF PushRing
    <3>3. UNCHANGED workVars  BY <1>3 DEF PushRing
    <3> QED  BY <3>2, <3>3 DEF workVars
  <2>2. Len(ring') \in Nat /\ Len(ring') >= Len(ring) /\ \A i \in 1..Len(ring) : ring'[i] = ring[i]
    <3>1. pushMsg[p] \in Seq(Record) /\ Len(pushMsg[p]) \in Nat  BY <1>t, LenProperties
    <3> QED  BY <1>t, <2>1, <3>1, ConcatProperties
  <2>3. ASSUME NEW i \in 1..Len(ring), ring[i] = r PROVE Reached(r)'
    <3>1. i \in 1..Len(ring') /\ ring'[i] = r  BY <1>t, <2>2, <2>3
    <3> QED  BY <3>1 DEF Reached
  <2> QED  BY <2>1, <2>3 DEF Reached, Delivered
<1>4. ASSUME NEW p \in Producers, Push(p), ~(PushRing(p) /\ Len(ring) < Capacity)
      PROVE  Reached(r)'
  <2>1. UNCHANGED <<ring, delivered, workPc, workMsg>>
    BY <1>4 DEF Push, LogFiltered, PushBegin, PushGate, PushClaim, PushRing, PushSubmit, PushUnwind,
       PushNotify, queueVars, workVars
  <2> QED  BY <2>1 DEF Reached, Delivered
<1>5. ASSUME NEW w \in Waiters, Wait(w) PROVE Reached(r)'
  <2>1. UNCHANGED <<ring, delivered, workPc, workMsg>>
    BY <1>5 DEF Wait, WaitBegin, WaitLock, WaitCheck, WaitSleep, WaitSpurious, WaitReturn,
       queueVars, workVars
  <2> QED  BY <2>1 DEF Reached, Delivered
<1>6. CASE Worker /\ ~WorkerDispatch /\ ~(WorkerPop /\ ring # <<>>)
  <2>1. UNCHANGED <<ring, delivered>> /\ workPc # "dispatch"
    BY <1>6 DEF Worker, WorkerTest, WorkerPop, WorkerSink, WorkerRelease, WorkerNotify, WorkerExit,
       queueVars
  <2> QED  BY <2>1 DEF Reached, Delivered
<1>7. CASE Stop \/ \E s \in Sinks \cup {NoSink} : SetSink(s)
  <2>1. UNCHANGED <<ring, delivered, workMsg>> /\ (workPc = "dispatch" => workPc' = "dispatch")
    BY <1>7 DEF Stop, StopClose, StopRunning, StopJoin, StopDelete, SetSink, queueVars, workVars,
       CountInv, WorkLocal
  <2> QED  BY <2>1 DEF Reached, Delivered
<1> QED  BY <1>1, <1>2, <1>3, <1>4, <1>5, <1>6, <1>7 DEF Next

\* What the sinks have seen stays seen.
LEMMA DeliveredGrows ==
    ASSUME CountInv, Next, ~InitLogger
    PROVE  Delivered \subseteq Delivered'
<1>1. CASE WorkerDispatch
  <2>1. /\ delivered \in Seq(Record) /\ workMsg \in Seq(Record) /\ Len(workMsg) = 1
        /\ delivered' = delivered \o workMsg /\ Len(delivered) \in Nat
    BY <1>1, LenProperties DEF WorkerDispatch, CountInv, TypeOK, WorkLocal
  <2>2. Len(delivered') = Len(delivered) + 1 /\ \A i \in 1..Len(delivered) : delivered'[i] = delivered[i]
    BY <2>1, ConcatProperties
  <2> QED  BY <2>1, <2>2 DEF Delivered
<1>2. CASE ~WorkerDispatch
  <2>1. UNCHANGED delivered
    BY <1>2 DEF Next, Push, LogFiltered, PushBegin, PushGate, PushClaim, PushRing, PushSubmit,
       PushUnwind, PushNotify, Wait, WaitBegin, WaitLock, WaitCheck, WaitSleep, WaitSpurious,
       WaitReturn, Worker, WorkerTest, WorkerPop, WorkerSink, WorkerRelease, WorkerNotify, WorkerExit,
       SetSink, Stop, StopClose, StopRunning, StopJoin, StopDelete, workVars
  <2> QED  BY <2>1 DEF Delivered
<1> QED  BY <1>1, <1>2

LEMMA IdleInit == Init => IdleInv
BY DEF Init, IdleInv, NothingLost, WaitLocal, IdleReturnDelivers, Reached, Delivered

\* A fresh LoggerState has accepted nothing and nobody waits for it.
LEMMA IdleFresh ==
    ASSUME IdleInv, InitLogger
    PROVE  IdleInv'
<1>1. accepted' = {} /\ UNCHANGED <<pushPc, waitPc, waitFor>> /\ CallersOut
  BY DEF InitLogger, waitVars
<1>2. NothingLost'  BY <1>1 DEF NothingLost, CallersOut
<1>3. \A w \in Waiters : waitPc'[w] = "out" /\ waitFor'[w] = {}
  BY <1>1 DEF IdleInv, WaitLocal, CallersOut
<1> QED  BY <1>2, <1>3 DEF IdleInv, WaitLocal, IdleReturnDelivers

\* An accepted record is never lost on its way to the sinks.
LEMMA NothingLostNext ==
    ASSUME CountInv, IdleInv, Next, ~InitLogger
    PROVE  NothingLost'
<1>t. /\ ring \in Seq(Record) /\ Len(ring) \in Nat /\ accepted \subseteq Record
      /\ pushMsg \in [Producers -> Seq(Record)] /\ pushPc \in [Producers -> PushPc]
  BY LenProperties DEF CountInv, TypeOK
<1>r. \A p \in Producers : pushPc[p] \in {"ring", "submit"} =>
          /\ Len(pushMsg[p]) = 1 /\ pushMsg[p] \in Seq(Record) /\ pushMsg[p][1] \in Record
  BY <1>t DEF CountInv, PushLocal
<1>a. \A r \in Record : Reached(r) => Reached(r)'  BY ReachedStays
<1>1. ASSUME NEW p \in Producers, PushRing(p), Len(ring) < Capacity PROVE NothingLost'
  <2>1. /\ ring' = ring \o pushMsg[p] /\ pushPc' = [pushPc EXCEPT ![p] = "submit"]
        /\ pushMsg' = pushMsg /\ accepted' = accepted /\ pushPc[p] = "ring"
    <3>1. ~(Len(ring) >= Capacity)  BY <1>1, <1>t, LoggerAssumption DEF LoggerAssumption
    <3> QED  BY <1>1, <3>1 DEF PushRing
  <2>2. Len(ring') = Len(ring) + 1 /\ ring'[Len(ring) + 1] = pushMsg[p][1]
    <3>1. pushMsg[p] \in Seq(Record) /\ Len(pushMsg[p]) = 1  BY <1>r, <2>1
    <3> QED  BY <1>t, <2>1, <3>1, AppendOne
  <2>3. Reached(pushMsg[p][1])'  BY <1>t, <2>1, <2>2 DEF Reached
  <2>4. ASSUME NEW q \in Producers, q # p, pushPc'[q] = "submit" PROVE Reached(pushMsg[q][1])'
    <3>1. pushPc[q] = "submit"  BY <1>t, <2>1, <2>4
    <3>2. PICK r \in Record : r = pushMsg[q][1]  BY <1>r, <3>1
    <3>3. Reached(r)'  BY <1>a, <3>1, <3>2 DEF IdleInv, NothingLost
    <3> QED  BY <2>1, <3>2, <3>3
  <2>5. \A r \in accepted' : Reached(r)'  BY <1>a, <1>t, <2>1 DEF IdleInv, NothingLost
  <2>6. \A q \in Producers : pushPc'[q] = "submit" => Reached(pushMsg[q][1])'
    BY <2>3, <2>4
  <2> QED  BY <2>5, <2>6 DEF NothingLost
<1>2. ASSUME NEW p \in Producers, PushSubmit(p) PROVE NothingLost'
  <2>1. /\ accepted' = accepted \cup {pushMsg[p][1]} /\ pushPc[p] = "submit"
        /\ pushPc' = [pushPc EXCEPT ![p] = "out"] /\ pushMsg' = [pushMsg EXCEPT ![p] = NoMsg]
    BY <1>2 DEF PushSubmit
  <2>2. \A r \in accepted' : Reached(r)'
    BY <1>a, <1>r, <1>t, <2>1 DEF IdleInv, NothingLost
  <2>3. ASSUME NEW q \in Producers, pushPc'[q] = "submit" PROVE Reached(pushMsg[q][1])'
    <3>1. q # p /\ pushMsg'[q] = pushMsg[q] /\ pushPc[q] = "submit"  BY <1>t, <2>1, <2>3
    <3>2. PICK r \in Record : r = pushMsg[q][1]  BY <1>r, <3>1
    <3>3. Reached(r)'  BY <1>a, <3>1, <3>2 DEF IdleInv, NothingLost
    <3> QED  BY <3>1, <3>2, <3>3
  <2> QED  BY <2>2, <2>3 DEF NothingLost
<1>3. CASE /\ \A p \in Producers : ~PushSubmit(p) /\ ~(PushRing(p) /\ Len(ring) < Capacity)
  <2>1. accepted' = accepted
    BY <1>3 DEF Next, Push, LogFiltered, PushBegin, PushGate, PushClaim, PushRing,
       PushUnwind, PushNotify, Wait, WaitBegin, WaitLock, WaitCheck, WaitSleep, WaitSpurious,
       WaitReturn, Worker, WorkerTest, WorkerPop, WorkerDispatch, WorkerSink, WorkerRelease,
       WorkerNotify, WorkerExit, SetSink, Stop, StopClose, StopRunning, StopJoin, StopDelete, pushVars
  <2>2. ASSUME NEW q \in Producers, pushPc'[q] = "submit"
        PROVE  pushPc[q] = "submit" /\ pushMsg'[q] = pushMsg[q]
    <3>1. CASE UNCHANGED pushVars  BY <2>2, <3>1 DEF pushVars
    <3>2. ASSUME NEW p \in Producers, Push(p)
          PROVE  pushPc[q] = "submit" /\ pushMsg'[q] = pushMsg[q]
      BY <1>3, <1>t, <2>2, <3>2 DEF Push, LogFiltered, PushBegin, PushGate, PushClaim, PushRing,
         PushUnwind, PushNotify, Rejected
    <3>3. (\E p \in Producers : Push(p)) \/ UNCHANGED pushVars
      BY DEF Next, Wait, WaitBegin, WaitLock, WaitCheck, WaitSleep, WaitSpurious,
         WaitReturn, Worker, WorkerTest, WorkerPop, WorkerDispatch, WorkerSink, WorkerRelease,
         WorkerNotify, WorkerExit, SetSink, Stop, StopClose, StopRunning, StopJoin, StopDelete
    <3> QED  BY <3>1, <3>2, <3>3
  <2>3. \A r \in accepted' : Reached(r)'  BY <1>a, <1>t, <2>1 DEF IdleInv, NothingLost
  <2>4. ASSUME NEW q \in Producers, pushPc'[q] = "submit" PROVE Reached(pushMsg[q][1])'
    <3>1. pushPc[q] = "submit" /\ pushMsg'[q] = pushMsg[q]  BY <2>2, <2>4
    <3>2. PICK r \in Record : r = pushMsg[q][1]  BY <1>r, <3>1
    <3>3. Reached(r)'  BY <1>a, <3>1, <3>2 DEF IdleInv, NothingLost
    <3> QED  BY <3>1, <3>2, <3>3
  <2> QED  BY <2>3, <2>4 DEF NothingLost
<1> QED  BY <1>1, <1>2, <1>3

\* A waiter leaves with what had been accepted before it came, delivered.
LEMMA WaitersNext ==
    ASSUME CountInv, IdleInv, Next, ~InitLogger
    PROVE  WaitLocal' /\ IdleReturnDelivers'
<1>t. waitPc \in [Waiters -> WaitPc] /\ waitFor \in [Waiters -> SUBSET Record]
  BY DEF CountInv, TypeOK
<1>d. Delivered \subseteq Delivered'  BY DeliveredGrows
<1>a. accepted \subseteq accepted'
  BY DEF Next, Push, LogFiltered, PushBegin, PushGate, PushClaim, PushRing, PushSubmit,
     PushUnwind, PushNotify, Wait, WaitBegin, WaitLock, WaitCheck, WaitSleep, WaitSpurious,
     WaitReturn, Worker, WorkerTest, WorkerPop, WorkerDispatch, WorkerSink, WorkerRelease,
     WorkerNotify, WorkerExit, SetSink, Stop, StopClose, StopRunning, StopJoin, StopDelete, pushVars
<1>1. ASSUME NEW v \in Waiters, Wait(v) PROVE WaitLocal' /\ IdleReturnDelivers'
  <2>1. CASE WaitBegin(v)
    BY <1>a, <1>d, <1>t, <2>1 DEF WaitBegin, IdleInv, WaitLocal, IdleReturnDelivers
  <2>2. CASE WaitCheck(v) /\ Idle
    <3>1. Len(ring) = 0 /\ Len(workMsg) = 0
      <4>1. /\ Cardinality(Counted) \in Nat /\ Len(ring) \in Nat /\ Len(workMsg) \in Nat
        BY CountedFinite, LenProperties DEF CountInv, TypeOK
      <4> QED  BY <2>2, <4>1 DEF Idle, CountInv, InFlightExact
    <3>2. workPc # "dispatch"  BY <3>1 DEF CountInv, WorkLocal
    <3>3. accepted \subseteq Delivered  BY <3>1, <3>2 DEF IdleInv, NothingLost, Reached
    <3>4. waitFor[v] \subseteq Delivered'  BY <1>d, <3>3 DEF IdleInv, WaitLocal
    <3>5. waitFor' = waitFor /\ \A w \in Waiters \ {v} : waitPc'[w] = waitPc[w]
      BY <1>t, <2>2 DEF WaitCheck
    <3>6. waitPc'[v] # "out"  BY <1>t, <2>2 DEF WaitCheck
    <3> QED  BY <1>a, <1>d, <3>4, <3>5, <3>6 DEF IdleInv, WaitLocal, IdleReturnDelivers
  <2>3. CASE WaitLock(v) \/ (WaitCheck(v) /\ ~Idle) \/ WaitSleep(v) \/ WaitSpurious(v)
    BY <1>a, <1>d, <1>t, <2>3
       DEF WaitLock, WaitCheck, WaitSleep, WaitSpurious, IdleInv, WaitLocal, IdleReturnDelivers
  <2>4. CASE WaitReturn(v)
    BY <1>a, <1>d, <1>t, <2>4 DEF WaitReturn, IdleInv, WaitLocal, IdleReturnDelivers
  <2> QED  BY <1>1, <2>1, <2>2, <2>3, <2>4 DEF Wait
<1>2. CASE NotifyAll /\ UNCHANGED waitFor
  BY <1>2, <1>a, <1>d, <1>t DEF NotifyAll, IdleInv, WaitLocal, IdleReturnDelivers
<1>3. CASE UNCHANGED <<waitPc, waitFor>>
  BY <1>3, <1>a, <1>d DEF IdleInv, WaitLocal, IdleReturnDelivers
<1>4. \/ \E v \in Waiters : Wait(v)
      \/ NotifyAll /\ UNCHANGED waitFor
      \/ UNCHANGED <<waitPc, waitFor>>
  <2>1. ASSUME NEW p \in Producers, Push(p)
        PROVE  (NotifyAll /\ UNCHANGED waitFor) \/ UNCHANGED <<waitPc, waitFor>>
    <3>1. CASE PushNotify(p)  BY <3>1 DEF PushNotify, NotifyAll
    <3> QED  BY <2>1, <3>1 DEF Push, LogFiltered, PushBegin, PushGate, PushClaim, PushRing,
                PushSubmit, PushUnwind, waitVars
  <2>2. ASSUME Worker
        PROVE  (NotifyAll /\ UNCHANGED waitFor) \/ UNCHANGED <<waitPc, waitFor>>
    <3>1. CASE WorkerNotify \/ WorkerExit  BY <3>1 DEF WorkerNotify, WorkerExit, NotifyAll
    <3> QED  BY <2>2, <3>1 DEF Worker, WorkerTest, WorkerPop, WorkerDispatch, WorkerSink,
                WorkerRelease, waitVars
  <2>3. ASSUME NEW s \in Sinks \cup {NoSink}, SetSink(s) PROVE UNCHANGED <<waitPc, waitFor>>
    BY <2>3 DEF SetSink, waitVars
  <2>4. Stop => UNCHANGED <<waitPc, waitFor>>
    BY DEF Stop, StopClose, StopRunning, StopJoin, StopDelete, waitVars
  <2> QED  BY <2>1, <2>2, <2>3, <2>4 DEF Next
<1> QED  BY <1>1, <1>2, <1>3, <1>4

LEMMA IdleNext == CountInv /\ IdleInv /\ [Next]_vars => IdleInv'
<1> SUFFICES ASSUME CountInv, IdleInv, [Next]_vars PROVE IdleInv'  OBVIOUS
<1>1. CASE InitLogger  BY <1>1, IdleFresh
<1>2. CASE Next /\ ~InitLogger  BY <1>2, NothingLostNext, WaitersNext DEF IdleInv
<1>3. CASE UNCHANGED vars
  BY <1>3 DEF IdleInv, NothingLost, WaitLocal, IdleReturnDelivers, Reached, Delivered, vars, queueVars,
     pushVars, workVars, waitVars
<1> QED  BY <1>1, <1>2, <1>3

\* wait_until_idle() returns only when every record accepted before the call
\* has reached the sinks, for any number of producers and waiters and any
\* capacity, whether or not shutdown_logger() races with the callers.
THEOREM IdleReturnCorrect == Spec => []IdleReturnDelivers
<1>1. Init => CountInv /\ IdleInv  BY CountInit, IdleInit
<1>2. CountInv /\ IdleInv /\ [Next]_vars => (CountInv /\ IdleInv)'  BY CountNext, IdleNext
<1>3. CountInv /\ IdleInv => IdleReturnDelivers  BY DEF IdleInv
<1> QED  BY <1>1, <1>2, <1>3, PTL DEF Spec

-----------------------------------------------------------------------------
(* Waiters that have found the counter above zero *)

\* Whoever is between the test and the sleep holds idle_mutex_, and the main
\* loop is the worker's only while it does not drain.
SleepInv ==
    /\ \A w \in Waiters : waitPc[w] \in {"check", "doze"} => idleHolder = w
    /\ workPc \in {"test", "notify"} => ~draining
    /\ SleepersNoticed

\* A notify_all() leaves nobody asleep, and nobody about to be.
LEMMA NotifiedWake ==
    ASSUME CountInv, SleepInv, NotifyAll
    PROVE  /\ \A w \in Waiters : waitPc'[w] \notin {"check", "doze", "asleep"}
           /\ \A w \in Waiters : waitPc'[w] \in {"check", "doze"} => idleHolder' = w
<1>1. \A w \in Waiters : waitPc[w] \notin {"check", "doze"}
  BY LoggerAssumption DEF LoggerAssumption, NotifyAll, SleepInv
<1> QED  BY <1>1 DEF NotifyAll

LEMMA SleepPush ==
    ASSUME CountInv, SleepInv, NEW p \in Producers, Push(p)
    PROVE  SleepInv'
<1>t. pushPc \in [Producers -> PushPc] /\ inFlight \in Nat  BY DEF CountInv, TypeOK
<1>1. UNCHANGED <<workPc, draining>>
  BY DEF Push, LogFiltered, PushBegin, PushGate, PushClaim, PushRing, PushSubmit, PushUnwind,
     PushNotify, workVars
<1>2. CASE PushNotify(p)
  BY <1>1, <1>2, NotifiedWake DEF PushNotify, SleepInv, SleepersNoticed
<1>3. CASE ~PushNotify(p)
  <2>1. UNCHANGED waitVars
    BY <1>3 DEF Push, LogFiltered, PushBegin, PushGate, PushClaim, PushRing, PushSubmit, PushUnwind
  <2>2. ASSUME inFlight' = 0 PROVE inFlight = 0 \/ pushPc'[p] = "notify"
    BY <1>t, <1>3, <2>2 DEF Push, LogFiltered, PushBegin, PushGate, PushClaim, PushRing, PushSubmit,
       PushUnwind, CountIn, LastOut
  <2>3. \A q \in Producers : pushPc[q] = "notify" => pushPc'[q] = "notify"
    BY <1>t, <1>3 DEF Push, LogFiltered, PushBegin, PushGate, PushClaim, PushRing, PushSubmit,
       PushUnwind, Rejected
  <2>4. SleepersNoticed'
    BY <1>1, <2>1, <2>2, <2>3 DEF SleepInv, SleepersNoticed, NoticeDue, waitVars
  <2> QED  BY <1>1, <2>1, <2>4 DEF SleepInv, waitVars
<1> QED  BY <1>2, <1>3

LEMMA SleepWait ==
    ASSUME CountInv, SleepInv, NEW v \in Waiters, Wait(v)
    PROVE  SleepInv'
<1>t. waitPc \in [Waiters -> WaitPc] /\ "free" \notin Waiters
  BY LoggerAssumption DEF CountInv, TypeOK, LoggerAssumption
<1>1. UNCHANGED <<workPc, draining, pushPc, inFlight>>
  BY DEF Wait, WaitBegin, WaitLock, WaitCheck, WaitSleep, WaitSpurious, WaitReturn, workVars, pushVars
<1>2. \A w \in Waiters \ {v} : waitPc'[w] = waitPc[w]
  BY <1>t DEF Wait, WaitBegin, WaitLock, WaitCheck, WaitSleep, WaitSpurious, WaitReturn
<1>3. waitPc'[v] \in {"check", "doze"} => idleHolder' = v
  BY <1>t DEF Wait, WaitBegin, WaitLock, WaitCheck, WaitSleep, WaitSpurious, WaitReturn, SleepInv
<1>4. ASSUME NEW w \in Waiters \ {v}, waitPc'[w] \in {"check", "doze"} PROVE idleHolder' = w
  <2>1. idleHolder = w  BY <1>2, <1>4 DEF SleepInv
  <2>2. waitPc[v] \notin {"check", "doze"} /\ idleHolder # "free"  BY <1>t, <2>1 DEF SleepInv
  <2> QED  BY <1>t, <2>1, <2>2 DEF Wait, WaitBegin, WaitLock, WaitCheck, WaitSleep, WaitSpurious, WaitReturn
<1>5. waitPc'[v] \in {"doze", "asleep"} => inFlight # 0 \/ waitPc[v] \in {"doze", "asleep"}
  BY <1>t DEF Wait, WaitBegin, WaitLock, WaitCheck, WaitSleep, WaitSpurious, WaitReturn, Idle
<1>6. SleepersNoticed'  BY <1>1, <1>2, <1>5 DEF SleepInv, SleepersNoticed, NoticeDue
<1> QED  BY <1>1, <1>3, <1>4, <1>6 DEF SleepInv

LEMMA SleepWorker ==
    ASSUME CountInv, SleepInv, Worker
    PROVE  SleepInv'
<1>t. inFlight \in Nat  BY DEF CountInv, TypeOK
<1>1. UNCHANGED pushPc
  BY DEF Worker, WorkerTest, WorkerPop, WorkerDispatch, WorkerSink, WorkerRelease, WorkerNotify,
     WorkerExit, pushVars
<1>2. workPc' \in {"test", "notify"} => ~draining'
  BY DEF Worker, WorkerTest, WorkerPop, WorkerDispatch, WorkerSink, WorkerRelease, WorkerNotify,
     WorkerExit, SleepInv
<1>3. CASE WorkerNotify \/ WorkerExit
  <2>1. NotifyAll  BY <1>3 DEF WorkerNotify, WorkerExit
  <2> QED  BY <1>2, <2>1, NotifiedWake DEF SleepInv, SleepersNoticed
<1>4. CASE ~(WorkerNotify \/ WorkerExit)
  <2>1. UNCHANGED waitVars
    BY <1>4 DEF Worker, WorkerTest, WorkerPop, WorkerDispatch, WorkerSink, WorkerRelease
  <2>2. workPc \notin {"none", "notify", "exited"} /\ workPc' \notin {"none", "exited"}
    BY <1>4 DEF Worker, WorkerTest, WorkerPop, WorkerDispatch, WorkerSink, WorkerRelease
  <2>3. draining => draining'
    BY <1>4 DEF Worker, WorkerTest, WorkerPop, WorkerDispatch, WorkerSink, WorkerRelease, SleepInv
  <2>4. inFlight' = 0 => inFlight = 0 \/ draining' \/ workPc' = "notify"
    BY <1>t, <1>4 DEF Worker, WorkerTest, WorkerPop, WorkerDispatch, WorkerSink, WorkerRelease, LastOut
  <2>5. SleepersNoticed'
    BY <1>1, <2>1, <2>2, <2>3, <2>4 DEF SleepInv, SleepersNoticed, NoticeDue, waitVars
  <2> QED  BY <1>2, <2>1, <2>5 DEF SleepInv, waitVars
<1> QED  BY <1>3, <1>4

LEMMA SleepNext == CountInv /\ SleepInv /\ [Next]_vars => SleepInv'
<1> SUFFICES ASSUME CountInv, SleepInv, [Next]_vars PROVE SleepInv'  OBVIOUS
<1>1. CASE InitLogger
  <2>1. \A w \in Waiters : waitPc[w] = "out"  BY <1>1 DEF InitLogger, CallersOut
  <2> QED  BY <1>1, <2>1 DEF InitLogger, waitVars, SleepInv, SleepersNoticed
<1>2. CASE UNCHANGED <<workPc, draining, pushPc, inFlight, waitPc, idleHolder>>
  BY <1>2 DEF SleepInv, SleepersNoticed, NoticeDue
<1>3. CASE \E s \in Sinks \cup {NoSink} : SetSink(s)
  BY <1>2, <1>3 DEF SetSink, pushVars, waitVars
<1>4. CASE StopClose \/ StopRunning \/ StopJoin
  BY <1>2, <1>4 DEF StopClose, StopRunning, StopJoin, pushVars, workVars, waitVars
<1>5. CASE StopDelete
  <2>1. workPc = "exited" /\ workPc' = "none"  BY <1>5 DEF StopDelete, CountInv, WorkLocal
  <2>2. UNCHANGED <<draining, pushPc, inFlight, waitPc, idleHolder>>
    BY <1>5 DEF StopDelete, pushVars, waitVars
  <2> QED  BY <2>1, <2>2 DEF SleepInv, SleepersNoticed, NoticeDue
<1>6. CASE UNCHANGED vars  BY <1>2, <1>6 DEF vars, pushVars, workVars, waitVars
<1> QED  BY <1>1, <1>3, <1>4, <1>5, <1>6, SleepPush, SleepWait, SleepWorker DEF Next, Stop

\* No wakeup is lost, for any number of producers and waiters: whoever waits
\* while the counter is zero has a notify_all() to come, also from the final
\* drain of a shutdown that overtakes the wait.
THEOREM NoWakeupLost == Spec => []SleepersNoticed
<1>1. Init => CountInv /\ SleepInv  BY CountInit DEF Init, SleepInv, SleepersNoticed
<1>2. CountInv /\ SleepInv /\ [Next]_vars => (CountInv /\ SleepInv)'  BY CountNext, SleepNext
<1>3. SleepInv => SleepersNoticed  BY DEF SleepInv
<1> QED  BY <1>1, <1>2, <1>3, PTL DEF Spec

-----------------------------------------------------------------------------
(* The replaced sink *)

\* Once a replaced sink has been called, the copy the worker holds is the
\* present sink.
SinkInv ==
    /\ StaleSinkAtMostOnce
    /\ staleCalls = 1 /\ workPc = "sink" => workSink = toolSink

LEMMA SinkNext == CountInv /\ SinkInv /\ [Next]_vars => SinkInv'
<1> SUFFICES ASSUME CountInv, SinkInv, [Next]_vars PROVE SinkInv'  OBVIOUS
<1>t. staleCalls \in Nat  BY DEF CountInv, TypeOK
<1> USE DEF SinkInv, StaleSinkAtMostOnce
<1>1. CASE UNCHANGED <<workPc, workSink, toolSink, staleCalls>>
  BY <1>1
<1>2. CASE InitLogger  BY <1>2 DEF InitLogger
<1>3. CASE Worker
  <2>1. toolSink' = toolSink  BY <1>3 DEF Worker, WorkerTest, WorkerPop, WorkerDispatch, WorkerSink,
        WorkerRelease, WorkerNotify, WorkerExit, sinkVars
  <2>2. CASE WorkerDispatch  BY <2>1, <2>2 DEF WorkerDispatch, CopySink
  <2>3. CASE WorkerSink  BY <1>t, <2>1, <2>3 DEF WorkerSink
  <2>4. CASE ~WorkerDispatch /\ ~WorkerSink
    BY <1>3, <2>4 DEF Worker, WorkerTest, WorkerPop, WorkerRelease, WorkerNotify, WorkerExit
  <2> QED  BY <2>2, <2>3, <2>4
<1>4. ASSUME NEW s \in Sinks \cup {NoSink}, SetSink(s) PROVE SinkInv'  BY <1>4 DEF SetSink
<1>5. CASE Stop
  BY <1>5 DEF Stop, StopClose, StopRunning, StopJoin, StopDelete, workVars, sinkVars
<1>6. ASSUME NEW p \in Producers, Push(p) PROVE SinkInv'
  <2>1. UNCHANGED <<workVars, sinkVars>>
    BY <1>6 DEF Push, LogFiltered, PushBegin, PushGate, PushClaim, PushRing, PushSubmit, PushUnwind,
       PushNotify
  <2> QED  BY <1>1, <2>1 DEF workVars, sinkVars
<1>7. ASSUME NEW w \in Waiters, Wait(w) PROVE SinkInv'
  <2>1. UNCHANGED <<workVars, sinkVars>>
    BY <1>7 DEF Wait, WaitBegin, WaitLock, WaitCheck, WaitSleep, WaitSpurious, WaitReturn
  <2> QED  BY <1>1, <2>1 DEF workVars, sinkVars
<1>8. CASE UNCHANGED vars  BY <1>1, <1>8 DEF vars, workVars, sinkVars
<1> QED  BY <1>2, <1>3, <1>4, <1>5, <1>6, <1>7, <1>8 DEF Next

\* A sink that set_log_sink() has replaced is called at most once more,
\* whatever the worker was doing when it was replaced.
THEOREM ReplacedSinkCalledOnce == Spec => []StaleSinkAtMostOnce
<1>1. Init => CountInv /\ SinkInv  BY CountInit DEF Init, SinkInv, StaleSinkAtMostOnce
<1>2. CountInv /\ SinkInv /\ [Next]_vars => (CountInv /\ SinkInv)'  BY CountNext, SinkNext
<1>3. SinkInv => StaleSinkAtMostOnce  BY DEF SinkInv
<1> QED  BY <1>1, <1>2, <1>3, PTL DEF Spec

-----------------------------------------------------------------------------
(* Shutdown while the callers stay out *)

\* Nobody is inside once shutdown has begun; the worker drains only after
\* running_ was cleared, and ends only with an empty ring.
DrainInv ==
    /\ stopPc # "no" => CallersOut
    /\ workPc # "none" /\ ~running => stopPc \in {"join", "joined", "deleted"}
    /\ workPc # "none" /\ draining => stopPc \in {"join", "joined", "deleted"}
    /\ workPc \in {"final", "exited"} => stopPc # "no" /\ ring = <<>>
    /\ handle = "null" => workPc = "none" /\ ring = <<>>
    /\ stopPc = "deleted" => handle = "null"
    /\ DrainedOnShutdown

LEMMA DrainInit == Init => DrainInv
BY DEF Init, DrainInv, DrainedOnShutdown

LEMMA DrainNext ==
    OrderlyShutdown /\ CountInv /\ IdleInv /\ DrainInv /\ [Next]_vars => DrainInv'
<1> SUFFICES ASSUME OrderlyShutdown, CountInv, IdleInv, DrainInv, [Next]_vars PROVE DrainInv'  OBVIOUS
<1>t. ring \in Seq(Record) /\ stopPc \in StopPc /\ pushPc \in [Producers -> PushPc]
      /\ waitPc \in [Waiters -> WaitPc] /\ draining \in BOOLEAN /\ running \in BOOLEAN
  BY DEF CountInv, TypeOK
<1>1. CASE InitLogger
  BY <1>1 DEF InitLogger, DrainInv, DrainedOnShutdown
<1>2. ASSUME NEW p \in Producers, Push(p) PROVE DrainInv'
  <2>1. UNCHANGED <<workVars, sinkVars, lifeVars>>
    BY <1>2 DEF Push, LogFiltered, PushBegin, PushGate, PushClaim, PushRing, PushSubmit, PushUnwind,
       PushNotify
  <2>2. stopPc = "no" /\ handle = "live"
    BY <1>2 DEF Push, LogFiltered, PushBegin, PushGate, PushClaim, PushRing, PushSubmit, PushUnwind,
       PushNotify, MayEnter, DrainInv, CallersOut
  <2> QED  BY <2>1, <2>2 DEF DrainInv, DrainedOnShutdown, workVars, lifeVars
<1>3. ASSUME NEW w \in Waiters, Wait(w) PROVE DrainInv'
  <2>1. UNCHANGED <<workVars, queueVars, lifeVars>>
    BY <1>3 DEF Wait, WaitBegin, WaitLock, WaitCheck, WaitSleep, WaitSpurious, WaitReturn
  <2>2. stopPc = "no" /\ handle = "live"
    BY <1>3 DEF Wait, WaitBegin, WaitLock, WaitCheck, WaitSleep, WaitSpurious, WaitReturn, MayEnter,
       DrainInv, CallersOut
  <2> QED  BY <2>1, <2>2 DEF DrainInv, DrainedOnShutdown, workVars, lifeVars
<1>4. CASE Worker
  <2>1. UNCHANGED <<pushVars, lifeVars>>
    BY <1>4 DEF Worker, WorkerTest, WorkerPop, WorkerDispatch, WorkerSink, WorkerRelease, WorkerNotify, WorkerExit
  <2>2. workPc # "none" /\ workPc # "exited" /\ workPc' # "none"
    BY <1>4 DEF Worker, WorkerTest, WorkerPop, WorkerDispatch, WorkerSink, WorkerRelease, WorkerNotify, WorkerExit
  <2>3. stopPc \notin {"joined", "deleted"} /\ handle # "null"
    BY <2>2 DEF DrainInv, CountInv, WorkLocal
  <2>4. stopPc' # "no" => CallersOut'
    <3>1. CASE UNCHANGED waitPc
      BY <2>1, <3>1 DEF DrainInv, CallersOut, pushVars, lifeVars
    <3>2. CASE NotifyAll
      BY <2>1, <3>2 DEF NotifyAll, DrainInv, CallersOut, pushVars, lifeVars
    <3> QED  BY <1>4, <3>1, <3>2 DEF Worker, WorkerTest, WorkerPop, WorkerDispatch, WorkerSink,
                WorkerRelease, WorkerNotify, WorkerExit, waitVars
  <2>5. draining' => stopPc' \in {"join", "joined", "deleted"}
    <3>1. CASE draining' = draining  BY <2>1, <2>2, <3>1 DEF DrainInv, lifeVars
    <3>2. CASE WorkerTest
      <4>1. draining' => ~running  BY <3>2, Zenon DEF WorkerTest
      <4> QED  BY <2>1, <2>2, <4>1 DEF DrainInv, lifeVars
    <3> QED  BY <1>4, <3>1, <3>2 DEF Worker, WorkerPop, WorkerDispatch, WorkerSink,
                WorkerRelease, WorkerNotify, WorkerExit
  <2>6. workPc' \in {"final", "exited"} => stopPc' # "no" /\ ring' = <<>>
    <3>1. CASE WorkerPop  BY <2>1, <2>2, <3>1 DEF WorkerPop, DrainInv, lifeVars
    <3>2. CASE ~WorkerPop
      BY <1>4, <2>1, <3>2 DEF Worker, WorkerTest, WorkerDispatch, WorkerSink,
         WorkerRelease, WorkerNotify, WorkerExit, queueVars, DrainInv, lifeVars
    <3> QED  BY <3>1, <3>2
  <2> QED  BY <2>1, <2>2, <2>3, <2>4, <2>5, <2>6 DEF DrainInv, DrainedOnShutdown, lifeVars
<1>5. ASSUME NEW s \in Sinks \cup {NoSink}, SetSink(s) PROVE DrainInv'
  BY <1>5 DEF SetSink, DrainInv, DrainedOnShutdown, Delivered, CallersOut, queueVars, pushVars, waitVars, lifeVars
<1>6. CASE Stop
  <2>0. UNCHANGED <<queueVars, pushVars, workMsg, draining, delivered, waitVars>> \/ StopClose
    BY <1>6 DEF Stop, StopRunning, StopJoin, StopDelete, workVars
  <2>1. CASE StopClose
    BY <2>1 DEF StopClose, DrainInv, DrainedOnShutdown, CallersOut, pushVars, workVars, waitVars
  <2>2. CASE StopRunning
    BY <2>2 DEF StopRunning, DrainInv, DrainedOnShutdown, CallersOut, queueVars, pushVars, workVars, waitVars
  <2>3. CASE StopJoin
    <3>1. ring = <<>> /\ workPc = "exited"  BY <2>3 DEF StopJoin, DrainInv
    <3>2. accepted \subseteq Delivered
      <4>1. Len(ring) = 0  BY <3>1
      <4> QED  BY <3>1, <4>1 DEF IdleInv, NothingLost, Reached
    <3>3. accepted' \subseteq Delivered'  BY <2>3, <3>2 DEF StopJoin, Delivered, pushVars, workVars
    <3> QED  BY <2>3, <3>3 DEF StopJoin, DrainInv, DrainedOnShutdown, CallersOut, queueVars, pushVars, workVars, waitVars
  <2>4. CASE StopDelete
    <3>1. ring = <<>>  BY <2>4 DEF StopDelete, DrainInv, CountInv, WorkLocal
    <3>2. accepted' \subseteq Delivered'
      BY <2>4 DEF StopDelete, DrainInv, DrainedOnShutdown, Delivered, pushVars
    <3> QED  BY <2>4, <3>1, <3>2 DEF StopDelete, DrainInv, DrainedOnShutdown, CallersOut, queueVars, pushVars, waitVars
  <2> QED  BY <1>6, <2>1, <2>2, <2>3, <2>4 DEF Stop
<1>7. CASE UNCHANGED vars
  BY <1>7 DEF vars, DrainInv, DrainedOnShutdown, Delivered, CallersOut, queueVars, pushVars, workVars, waitVars, lifeVars
<1> QED  BY <1>1, <1>2, <1>3, <1>4, <1>5, <1>6, <1>7 DEF Next

\* In a program whose callers stay out once shutdown_logger() is called, every
\* accepted record has been delivered when stop() has joined the worker.
THEOREM ShutdownDrains == OrderlyShutdown => (Spec => []DrainedOnShutdown)
<1> SUFFICES ASSUME OrderlyShutdown PROVE Spec => []DrainedOnShutdown  OBVIOUS
<1>1. Init => CountInv /\ IdleInv /\ DrainInv  BY CountInit, IdleInit, DrainInit
<1>2. CountInv /\ IdleInv /\ DrainInv /\ [Next]_vars => (CountInv /\ IdleInv /\ DrainInv)'
  BY CountNext, IdleNext, DrainNext
<1>3. DrainInv => DrainedOnShutdown  BY DEF DrainInv
<1> QED  BY <1>1, <1>2, <1>3, PTL DEF Spec

-----------------------------------------------------------------------------
(* The logger as a channel *)

Channel == INSTANCE LogChannel WITH
    Records <- Record,
    Room    <- Capacity + 1,
    pending <- Pending

\* The record the worker has popped and not yet given to the sinks.
Held == IF workPc = "dispatch" THEN workMsg ELSE <<>>

LEMMA ConcatOneIsAppend ==
    ASSUME NEW s \in Seq(Record), NEW t \in Seq(Record), Len(t) = 1
    PROVE  s \o t = Append(s, t[1])
<1>1. t[1] \in Record  BY LenProperties
<1>2. /\ s \o t \in Seq(Record) /\ Len(s \o t) = Len(s) + 1
      /\ \A i \in 1..Len(s) : (s \o t)[i] = s[i]
      /\ (s \o t)[Len(s) + 1] = t[1]
  BY ConcatProperties, AppendOne
<1>3. /\ Append(s, t[1]) \in Seq(Record) /\ Len(Append(s, t[1])) = Len(s) + 1
      /\ \A i \in 1..Len(s) : Append(s, t[1])[i] = s[i]
      /\ Append(s, t[1])[Len(s) + 1] = t[1]
  BY <1>1, AppendProperties, LenProperties
<1>4. Len(s) \in Nat  BY LenProperties
<1> DEFINE a == s \o t
           b == Append(s, t[1])
<1>5. /\ a \in Seq(Record) /\ b \in Seq(Record) /\ Len(a) = Len(b) /\ Len(a) = Len(s) + 1
      /\ \A i \in 1..Len(s) : a[i] = b[i]
      /\ a[Len(s) + 1] = b[Len(s) + 1]
  BY <1>2, <1>3
<1> HIDE DEF a, b
<1>6. \A i \in 1..Len(a) : a[i] = b[i]  BY <1>4, <1>5
<1>7. a = b  BY <1>5, <1>6, SeqEqual
<1> QED  BY <1>7 DEF a, b

\* A sequence is its head followed by its tail.
LEMMA OneAheadOfRest ==
    ASSUME NEW t \in Seq(Record), NEW s \in Seq(Record), Len(t) = 1
    PROVE  t \o s # <<>> /\ Head(t \o s) = t[1] /\ Tail(t \o s) = s
<1> DEFINE u == t \o s
<1>1. Len(s) \in Nat  BY LenProperties
<1>2. /\ u \in Seq(Record) /\ Len(u) = 1 + Len(s)
      /\ \A i \in 1..1 + Len(s) : u[i] = IF i <= 1 THEN t[i] ELSE s[i - 1]
  <2>1. /\ u \in Seq(Record) /\ Len(u) = Len(t) + Len(s)
        /\ \A i \in 1..Len(t) + Len(s) : u[i] = IF i <= Len(t) THEN t[i] ELSE s[i - Len(t)]
    BY ConcatProperties, Zenon
  <2> QED  BY <2>1
<1> HIDE DEF u
<1>3. u # <<>>  BY <1>1, <1>2
<1>4. Head(u) = t[1]  BY <1>1, <1>2, <1>3
<1>5. /\ Tail(u) \in Seq(Record) /\ Len(Tail(u)) = Len(s)
      /\ \A i \in 1..Len(Tail(u)) : Tail(u)[i] = u[i + 1]
  BY <1>1, <1>2, <1>3, HeadTailProperties
<1>6. \A i \in 1..Len(s) : u[i + 1] = s[i]
  <2> TAKE i \in 1..Len(s)
  <2>1. i + 1 \in 1..1 + Len(s) /\ ~(i + 1 <= 1) /\ (i + 1) - 1 = i  BY <1>1
  <2> QED  BY <1>2, <2>1
<1>7. Tail(u) = s  BY <1>5, <1>6, SeqEqual
<1> QED  BY <1>3, <1>4, <1>7 DEF u

\* A sequence is its head in front of its tail.
LEMMA HeadThenTail ==
    ASSUME NEW s \in Seq(Record), s # <<>>
    PROVE  /\ <<Head(s)>> \o Tail(s) = s
           /\ Head(s) \in Record /\ Tail(s) \in Seq(Record)
<1>t. Len(s) \in Nat  BY LenProperties
<1>1. PICK h \in Record, r \in Seq(Record) : h = Head(s) /\ r = Tail(s)
  BY HeadTailProperties
<1> DEFINE t == <<h>>
           u == t \o r
<1>2. t \in Seq(Record) /\ Len(t) = 1 /\ t[1] = h  OBVIOUS
<1>3. Len(r) \in Nat  BY LenProperties
<1> HIDE DEF t
<1>4. /\ u \in Seq(Record) /\ Len(u) = 1 + Len(r)
      /\ \A i \in 1..1 + Len(r) : u[i] = IF i <= 1 THEN h ELSE r[i - 1]
  <2>1. /\ u \in Seq(Record) /\ Len(u) = Len(t) + Len(r)
        /\ \A i \in 1..Len(t) + Len(r) : u[i] = IF i <= Len(t) THEN t[i] ELSE r[i - Len(t)]
    BY <1>2, ConcatProperties, Zenon
  <2> QED  BY <1>2, <1>3, <2>1
<1> HIDE DEF u
<1>5. Len(r) = Len(s) - 1 /\ \A i \in 1..Len(r) : r[i] = s[i + 1]
  BY <1>1, HeadTailProperties
<1>6. h = s[1] /\ Len(s) >= 1  BY <1>t, <1>1
<1>7. \A i \in 1..Len(s) : u[i] = s[i]
  <2> TAKE i \in 1..Len(s)
  <2>1. CASE i = 1  BY <1>t, <1>4, <1>5, <1>6, <2>1
  <2>2. CASE i # 1
    <3>1. i - 1 \in 1..Len(r) /\ i \in 1..1 + Len(r) /\ ~(i <= 1) /\ (i - 1) + 1 = i
      BY <1>t, <1>5, <2>2
    <3> QED  BY <1>4, <1>5, <3>1
  <2> QED  BY <2>1, <2>2
<1>8. Len(u) = Len(s)  BY <1>t, <1>4, <1>5
<1>9. u = s  BY <1>4, <1>7, <1>8, SeqEqual
<1> QED  BY <1>1, <1>9 DEF t, u

\* What is held, and what is pending, are sequences of records.
LEMMA PendingTyped ==
    ASSUME CountInv
    PROVE  /\ Held \in Seq(Record) /\ Len(Held) \in 0..1
           /\ Pending \in Seq(Record) /\ Pending = Held \o ring
           /\ Len(Pending) = Len(Held) + Len(ring)
<1>0. ring \in Seq(Record) /\ workMsg \in Seq(Record) /\ Len(workMsg) <= 1
  BY DEF CountInv, TypeOK
<1>a. Len(workMsg) \in Nat  BY <1>0, LenProperties
<1> DEFINE k == Len(workMsg)
<1>b. k \in Nat /\ k <= 1  BY <1>0, <1>a
<1> HIDE DEF k
<1>c. k \in 0..1  BY <1>b
<1>1. Len(workMsg) \in 0..1  BY <1>c DEF k
<1>2. Held \in Seq(Record) /\ Len(Held) \in 0..1  BY <1>0, <1>1, NoMsgType DEF Held, NoMsg
<1>3. Pending = Held \o ring  BY DEF Pending, Held
<1> QED  BY <1>0, <1>2, <1>3, ConcatProperties

\* One step of the logger, seen by its callers: nothing, a record accepted at
\* the end of the channel, or its oldest record delivered.
ChannelStep ==
    \/ UNCHANGED <<Pending, delivered>>
    \/ \E p \in Producers :
          /\ pushPc[p] = "ring" /\ Len(Pending) < Capacity + 1
          /\ pushPc' = [pushPc EXCEPT ![p] = "submit"] /\ calls' = calls
          /\ Pending' = Append(Pending, pushMsg[p][1]) /\ delivered' = delivered
    \/ Channel!Deliver

LEMMA ChannelNext ==
    ASSUME CountInv, Next, ~InitLogger
    PROVE  ChannelStep
<1>t. /\ ring \in Seq(Record) /\ delivered \in Seq(Record) /\ workMsg \in Seq(Record)
      /\ pushMsg \in [Producers -> Seq(Record)] /\ Len(ring) \in Nat
  BY LenProperties DEF CountInv, TypeOK
<1>1. CASE WorkerPop /\ ring # <<>>
  <2>1. /\ workMsg' = <<Head(ring)>> /\ ring' = Tail(ring) /\ workPc' = "dispatch"
        /\ delivered' = delivered /\ workPc = "pop"
    BY <1>1 DEF WorkerPop, PopOldest
  <2>2. Pending = ring
    <3>1. Pending = <<>> \o ring  BY <2>1 DEF Pending
    <3> QED  BY <1>t, <3>1, ConcatEmptySeq
  <2>3. Pending' = <<Head(ring)>> \o Tail(ring)
    BY <2>1 DEF Pending
  <2>4. PICK h \in Record, r \in Seq(Record) : h = Head(ring) /\ r = Tail(ring)
    BY <1>1, <1>t, HeadTailProperties
  <2>5. <<h>> \o r = ring  BY <1>1, <1>t, <2>4, HeadThenTail
  <2>6. Pending' = Pending  BY <2>2, <2>3, <2>4, <2>5
  <2> QED  BY <2>1, <2>6 DEF ChannelStep
<1>2. CASE WorkerDispatch
  <2>1. /\ delivered' = delivered \o workMsg /\ ring' = ring /\ workPc = "dispatch"
        /\ workPc' = "sink" /\ Len(workMsg) = 1
    BY <1>2 DEF WorkerDispatch, queueVars, CountInv, WorkLocal
  <2>2. Pending = workMsg \o ring  BY <2>1 DEF Pending
  <2>3. Pending # <<>> /\ Head(Pending) = workMsg[1] /\ Tail(Pending) = ring
    BY <1>t, <2>1, <2>2, OneAheadOfRest
  <2>4. Pending' = ring
    <3>1. Pending' = <<>> \o ring  BY <2>1 DEF Pending
    <3> QED  BY <1>t, <3>1, ConcatEmptySeq
  <2>5. delivered' = Append(delivered, workMsg[1])  BY <1>t, <2>1, ConcatOneIsAppend
  <2>6. Channel!Deliver  BY <2>3, <2>4, <2>5 DEF Channel!Deliver
  <2> QED  BY <2>6 DEF ChannelStep
<1>3. ASSUME NEW p \in Producers, PushRing(p), Len(ring) < Capacity PROVE ChannelStep
  <2>1. /\ ring' = ring \o pushMsg[p] /\ UNCHANGED <<delivered, workPc, workMsg, calls>>
        /\ pushPc[p] = "ring" /\ pushPc' = [pushPc EXCEPT ![p] = "submit"]
    <3>1. ~(Len(ring) >= Capacity)  BY <1>3, <1>t, LoggerAssumption DEF LoggerAssumption
    <3>2. ring' = ring \o pushMsg[p] /\ pushPc[p] = "ring" /\ pushPc' = [pushPc EXCEPT ![p] = "submit"]
      BY <1>3, <3>1 DEF PushRing
    <3>3. UNCHANGED <<workVars, calls>>  BY <1>3 DEF PushRing
    <3> QED  BY <3>2, <3>3 DEF workVars
  <2>2. pushMsg[p] \in Seq(Record) /\ Len(pushMsg[p]) = 1
    BY <1>t, <2>1 DEF CountInv, PushLocal
  <2>3. Held' = Held  BY <2>1 DEF Held
  <2>4. Pending' = Held \o (ring \o pushMsg[p])  BY <2>1, <2>3 DEF Pending, Held
  <2>5. Pending' = Pending \o pushMsg[p]
    <3>1. Held \in Seq(Record) /\ Pending = Held \o ring  BY PendingTyped
    <3>2. (Held \o ring) \o pushMsg[p] = Held \o (ring \o pushMsg[p])
      BY <1>t, <2>2, <3>1, ConcatAssociative
    <3> QED  BY <2>4, <3>1, <3>2
  <2>6. Pending' = Append(Pending, pushMsg[p][1])
    BY <2>2, <2>5, PendingTyped, ConcatOneIsAppend
  <2>7. Len(Pending) < Capacity + 1
    <3>1. Len(Held) \in 0..1 /\ Len(Pending) = Len(Held) + Len(ring)  BY PendingTyped
    <3>2. Capacity \in Nat  BY LoggerAssumption DEF LoggerAssumption
    <3>3. PICK h \in 0..1 : h = Len(Held)  BY <3>1
    <3>4. Len(Pending) = h + Len(ring) /\ Len(ring) < Capacity  BY <1>3, <3>1, <3>3
    <3> QED  BY <1>t, <3>2, <3>4
  <2> QED  BY <2>1, <2>6, <2>7 DEF ChannelStep
<1>4. CASE UNCHANGED <<ring, delivered, workPc, workMsg>>
  BY <1>4 DEF ChannelStep, Pending
<1>5. CASE UNCHANGED <<ring, delivered>> /\ workPc # "dispatch" /\ workPc' # "dispatch"
  BY <1>5 DEF ChannelStep, Pending
<1>6. ASSUME NEW p \in Producers, Push(p), ~(PushRing(p) /\ Len(ring) < Capacity)
      PROVE  UNCHANGED <<ring, delivered, workPc, workMsg>>
  BY <1>6 DEF Push, LogFiltered, PushBegin, PushGate, PushClaim, PushRing, PushSubmit, PushUnwind,
     PushNotify, queueVars, workVars
<1>7. ASSUME NEW w \in Waiters, Wait(w) PROVE UNCHANGED <<ring, delivered, workPc, workMsg>>
  BY <1>7 DEF Wait, WaitBegin, WaitLock, WaitCheck, WaitSleep, WaitSpurious, WaitReturn,
     queueVars, workVars
<1>8. ASSUME Worker, ~WorkerDispatch, ~(WorkerPop /\ ring # <<>>)
      PROVE  UNCHANGED <<ring, delivered>> /\ workPc # "dispatch" /\ workPc' # "dispatch"
  BY <1>8 DEF Worker, WorkerTest, WorkerPop, WorkerSink, WorkerRelease, WorkerNotify, WorkerExit,
     queueVars
<1>9. ASSUME NEW s \in Sinks \cup {NoSink}, SetSink(s)
      PROVE  UNCHANGED <<ring, delivered, workPc, workMsg>>
  BY <1>9 DEF SetSink, queueVars
<1>10. ASSUME Stop
       PROVE  \/ UNCHANGED <<ring, delivered, workPc, workMsg>>
              \/ UNCHANGED <<ring, delivered>> /\ workPc # "dispatch" /\ workPc' # "dispatch"
  BY <1>10 DEF Stop, StopClose, StopRunning, StopJoin, StopDelete, queueVars, workVars, CountInv, WorkLocal
<1> QED  BY <1>1, <1>2, <1>3, <1>4, <1>5, <1>6, <1>7, <1>8, <1>9, <1>10 DEF Next

\* In a program whose callers stay out of shutdown_logger(), the logger is one
\* FIFO channel: what it accepts comes out once, in the order of acceptance,
\* and a LoggerState is only ever replaced when nothing is left in it.
THEOREM LoggerIsChannel == OrderlyShutdown => (Spec => Channel!Safety)
<1> SUFFICES ASSUME OrderlyShutdown PROVE Spec => Channel!Safety  OBVIOUS
<1>1. Init => CountInv /\ IdleInv /\ DrainInv  BY CountInit, IdleInit, DrainInit
<1>2. CountInv /\ IdleInv /\ DrainInv /\ [Next]_vars => (CountInv /\ IdleInv /\ DrainInv)'
  BY CountNext, IdleNext, DrainNext
<1>3. Init => Channel!Init
  <2>1. NoMsg \o NoMsg = NoMsg  BY NoMsgType, ConcatEmptySeq DEF NoMsg
  <2> QED  BY <2>1 DEF Init, Channel!Init, Pending, NoMsg
<1>4. CountInv /\ DrainInv /\ [Next]_vars => [Channel!Next]_(Channel!chan)
  <2> SUFFICES ASSUME CountInv, DrainInv, [Next]_vars
               PROVE  Channel!Next \/ UNCHANGED <<Pending, delivered>>
    BY DEF Channel!chan
  <2>1. CASE InitLogger
    <3>1. workPc = "none" /\ ring = <<>>  BY <2>1 DEF InitLogger, DrainInv
    <3>2. Pending = <<>> \o <<>>  BY <3>1 DEF Pending
    <3>3. Pending' = <<>> \o <<>>  BY <2>1 DEF InitLogger, Pending
    <3>4. NoMsg \o NoMsg = NoMsg  BY NoMsgType, ConcatEmptySeq DEF NoMsg
    <3>5. Pending = <<>> /\ Pending' = Pending  BY <3>2, <3>3, <3>4 DEF NoMsg
    <3>6. delivered' = <<>>  BY <2>1 DEF InitLogger
    <3>7. Channel!Renew  BY <3>5, <3>6 DEF Channel!Renew
    <3> QED  BY <3>7 DEF Channel!Next
  <2>2. CASE Next /\ ~InitLogger
    <3>1. ChannelStep  BY <2>2, ChannelNext
    <3>2. ASSUME NEW p \in Producers, pushPc[p] = "ring", Len(Pending) < Capacity + 1,
                 Pending' = Append(Pending, pushMsg[p][1]), delivered' = delivered
          PROVE  Channel!Next
      <4>1. pushMsg[p][1] \in Record  BY <3>2 DEF CountInv, TypeOK, PushLocal
      <4>2. PICK r \in Record : r = pushMsg[p][1]  BY <4>1
      <4>3. Channel!Accept(r)  BY <3>2, <4>2 DEF Channel!Accept
      <4> QED  BY <4>3 DEF Channel!Next
    <3> QED  BY <3>1, <3>2 DEF ChannelStep, Channel!Next
  <2>3. CASE UNCHANGED vars
    BY <2>3 DEF vars, Pending, queueVars, workVars
  <2> QED  BY <2>1, <2>2, <2>3
<1> QED  BY <1>1, <1>2, <1>3, <1>4, PTL DEF Spec, Channel!Safety

-----------------------------------------------------------------------------
(* The order of delivery *)

\* Every record the ring has ever accepted, in the order of acceptance.
Stream == delivered \o Pending

InOrder(s) ==
    \A i, j \in 1..Len(s) : i < j /\ s[i].from = s[j].from => s[i].n < s[j].n

\* A record in the stream stems from a log() call its producer has begun, and
\* from an earlier one than a push the producer is still offering to the ring.
Past(r) ==
    /\ r.n <= calls[r.from]
    /\ pushPc[r.from] \in {"gate", "claim", "ring"} => r.n < calls[r.from]

OrderInv ==
    /\ InOrder(Stream)
    /\ \A i \in 1..Len(Stream) : Past(Stream[i])
    /\ \A p \in Producers :
          pushPc[p] = "ring" => pushMsg[p][1].from = p /\ pushMsg[p][1].n = calls[p]

\* The stream grows at its end when the ring accepts, and delivery leaves it
\* as it is.
LEMMA StreamNext ==
    ASSUME CountInv, Next, ~InitLogger
    PROVE  \/ Stream' = Stream
           \/ \E p \in Producers :
                 /\ pushPc[p] = "ring" /\ calls' = calls
                 /\ pushPc' = [pushPc EXCEPT ![p] = "submit"]
                 /\ Stream' = Append(Stream, pushMsg[p][1])
<1>t. delivered \in Seq(Record) /\ Pending \in Seq(Record)
  BY PendingTyped DEF CountInv, TypeOK
<1>1. CASE UNCHANGED <<Pending, delivered>>
  BY <1>1 DEF Stream
<1>2. ASSUME NEW p \in Producers, pushPc[p] = "ring",
             Pending' = Append(Pending, pushMsg[p][1]), delivered' = delivered
      PROVE  Stream' = Append(Stream, pushMsg[p][1])
  <2>1. PICK r \in Record : r = pushMsg[p][1]
    BY <1>2 DEF CountInv, TypeOK, PushLocal
  <2> DEFINE t == <<r>>
  <2>2. t \in Seq(Record) /\ Len(t) = 1 /\ t[1] = r  OBVIOUS
  <2> HIDE DEF t
  <2>3. Append(Pending, r) = Pending \o t  BY <1>t, <2>2, ConcatOneIsAppend
  <2>4. Stream \in Seq(Record)  BY <1>t, ConcatProperties DEF Stream
  <2>5. Append(Stream, r) = Stream \o t  BY <2>2, <2>4, ConcatOneIsAppend
  <2>6. (delivered \o Pending) \o t = delivered \o (Pending \o t)
    BY <1>t, <2>2, ConcatAssociative
  <2> QED  BY <1>2, <2>1, <2>3, <2>5, <2>6 DEF Stream
<1>3. CASE Channel!Deliver
  <2>1. /\ Pending # <<>> /\ delivered' = Append(delivered, Head(Pending))
        /\ Pending' = Tail(Pending)
    BY <1>3 DEF Channel!Deliver
  <2>2. PICK h \in Record, r \in Seq(Record) : h = Head(Pending) /\ r = Tail(Pending)
    BY <1>t, <2>1, HeadThenTail
  <2> DEFINE t == <<h>>
  <2>3. t \in Seq(Record) /\ Len(t) = 1 /\ t[1] = h  OBVIOUS
  <2>4. t \o r = Pending  BY <1>t, <2>1, <2>2, HeadThenTail
  <2> HIDE DEF t
  <2>5. Append(delivered, h) = delivered \o t  BY <1>t, <2>3, ConcatOneIsAppend
  <2>6. (delivered \o t) \o r = delivered \o (t \o r)
    BY <1>t, <2>2, <2>3, ConcatAssociative
  <2>7. Stream' = (delivered \o t) \o r  BY <2>1, <2>2, <2>5 DEF Stream
  <2>8. Stream' = Stream  BY <2>4, <2>6, <2>7 DEF Stream
  <2> QED  BY <2>8
<1>4. ChannelStep  BY ChannelNext
<1> QED  BY <1>1, <1>2, <1>3, <1>4 DEF ChannelStep

\* No step makes a record of the past one of the present.
LEMMA PastStays ==
    ASSUME CountInv, Next, ~InitLogger, NEW r \in Record, Past(r)
    PROVE  Past(r)'
<1>t. /\ calls \in [Producers -> Nat] /\ pushPc \in [Producers -> PushPc]
      /\ r.from \in Producers /\ r.n \in Nat
  BY LoggerAssumption DEF CountInv, TypeOK, Record, LoggerAssumption
<1>1. ASSUME NEW p \in Producers, Push(p) PROVE Past(r)'
  <2>1. CASE LogFiltered(p)  BY <1>t, <2>1 DEF LogFiltered, Past
  <2>2. CASE PushBegin(p)  BY <1>t, <2>2 DEF PushBegin, Past
  <2>3. CASE PushGate(p) \/ PushRing(p)  BY <1>t, <2>3 DEF PushGate, PushRing, Rejected, Past
  <2>4. CASE PushClaim(p) \/ PushSubmit(p)  BY <1>t, <2>4 DEF PushClaim, PushSubmit, Past
  <2>5. CASE PushUnwind(p) \/ PushNotify(p)  BY <1>t, <2>5 DEF PushUnwind, PushNotify, Past
  <2> QED  BY <1>1, <2>1, <2>2, <2>3, <2>4, <2>5 DEF Push
<1>2. CASE UNCHANGED <<calls, pushPc>>  BY <1>2 DEF Past
<1>3. (\E p \in Producers : Push(p)) \/ UNCHANGED <<calls, pushPc>>
  BY DEF Next, Wait, WaitBegin, WaitLock, WaitCheck, WaitSleep, WaitSpurious, WaitReturn,
     Worker, WorkerTest, WorkerPop, WorkerDispatch, WorkerSink, WorkerRelease, WorkerNotify,
     WorkerExit, SetSink, Stop, StopClose, StopRunning, StopJoin, StopDelete, pushVars
<1> QED  BY <1>1, <1>2, <1>3

\* A push that offers a record to the ring offers that of its latest call.
LEMMA OfferedNext ==
    ASSUME CountInv, OrderInv, Next, ~InitLogger, NEW q \in Producers, pushPc'[q] = "ring"
    PROVE  pushMsg'[q][1].from = q /\ pushMsg'[q][1].n = calls'[q]
<1>t. /\ calls \in [Producers -> Nat] /\ pushPc \in [Producers -> PushPc]
      /\ pushMsg \in [Producers -> Seq(Record)]
  BY DEF CountInv, TypeOK
<1>1. ASSUME NEW p \in Producers, PushClaim(p)
      PROVE  pushMsg'[q][1].from = q /\ pushMsg'[q][1].n = calls'[q]
  <2>1. CASE q = p
    <3>1. pushMsg'[q] = <<[from |-> p, n |-> calls[p], seq |-> SequenceNumber]>> /\ calls' = calls
      BY <1>1, <1>t, <2>1 DEF PushClaim
    <3> QED  BY <2>1, <3>1
  <2>2. CASE q # p
    <3>1. pushMsg'[q] = pushMsg[q] /\ calls' = calls /\ pushPc[q] = "ring"
      BY <1>1, <1>t, <2>2 DEF PushClaim
    <3> QED  BY <3>1 DEF OrderInv
  <2> QED  BY <2>1, <2>2
<1>2. CASE pushPc[q] = "ring" /\ pushMsg'[q] = pushMsg[q] /\ calls'[q] = calls[q]
  BY <1>2 DEF OrderInv
<1>3. ASSUME NEW p \in Producers, Push(p), ~PushClaim(p)
      PROVE  pushPc[q] = "ring" /\ pushMsg'[q] = pushMsg[q] /\ calls'[q] = calls[q]
  <2>1. CASE q = p
    BY <1>3, <1>t, <2>1 DEF Push, LogFiltered, PushBegin, PushGate, PushRing, PushSubmit,
       PushUnwind, PushNotify, Rejected
  <2>2. CASE q # p
    BY <1>3, <1>t, <2>2 DEF Push, LogFiltered, PushBegin, PushGate, PushRing, PushSubmit,
       PushUnwind, PushNotify, Rejected
  <2> QED  BY <2>1, <2>2
<1>4. CASE UNCHANGED <<pushPc, pushMsg, calls>>  BY <1>2, <1>4
<1>5. (\E p \in Producers : Push(p)) \/ UNCHANGED <<pushPc, pushMsg, calls>>
  BY DEF Next, Wait, WaitBegin, WaitLock, WaitCheck, WaitSleep, WaitSpurious, WaitReturn,
     Worker, WorkerTest, WorkerPop, WorkerDispatch, WorkerSink, WorkerRelease, WorkerNotify,
     WorkerExit, SetSink, Stop, StopClose, StopRunning, StopJoin, StopDelete, pushVars
<1> QED  BY <1>1, <1>2, <1>3, <1>4, <1>5

LEMMA EmptyStream ==
    ASSUME delivered = <<>>, ring = <<>>, workPc # "dispatch"
    PROVE  Stream = <<>>
<1>1. NoMsg \o NoMsg = NoMsg  BY NoMsgType, ConcatEmptySeq DEF NoMsg
<1> QED  BY <1>1 DEF Stream, Pending, NoMsg

LEMMA EmptyStreamAfter ==
    ASSUME delivered' = <<>>, ring' = <<>>, workPc' # "dispatch"
    PROVE  Stream' = <<>>
<1>1. NoMsg \o NoMsg = NoMsg  BY NoMsgType, ConcatEmptySeq DEF NoMsg
<1> QED  BY <1>1 DEF Stream, Pending, NoMsg

LEMMA OrderInit == Init => OrderInv
<1> SUFFICES ASSUME Init PROVE OrderInv  OBVIOUS
<1>1. Stream = <<>>  BY EmptyStream DEF Init
<1>2. Len(Stream) = 0  BY <1>1
<1> QED  BY <1>2 DEF Init, OrderInv, InOrder

LEMMA OrderNext == CountInv /\ OrderInv /\ [Next]_vars => OrderInv'
<1> SUFFICES ASSUME CountInv, OrderInv, [Next]_vars PROVE OrderInv'  OBVIOUS
<1>1. CASE InitLogger
  <2>1. Stream' = <<>>  BY <1>1, EmptyStreamAfter DEF InitLogger
  <2>2. Len(Stream') = 0  BY <2>1
  <2>3. \A p \in Producers : pushPc'[p] = "out"  BY <1>1 DEF InitLogger, CallersOut
  <2> QED  BY <2>2, <2>3 DEF OrderInv, InOrder
<1>2. CASE Next /\ ~InitLogger
  <2>t. delivered \in Seq(Record) /\ Pending \in Seq(Record)
    BY PendingTyped DEF CountInv, TypeOK
  <2>s. Stream \in Seq(Record)  BY <2>t, ConcatProperties DEF Stream
  <2>l. Len(Stream) \in Nat /\ \A i \in 1..Len(Stream) : Stream[i] \in Record
    BY <2>s, LenProperties
  <2>p. \A r \in Record : Past(r) => Past(r)'  BY <1>2, PastStays
  <2>o. \A q \in Producers : pushPc'[q] = "ring" =>
            pushMsg'[q][1].from = q /\ pushMsg'[q][1].n = calls'[q]
    BY <1>2, OfferedNext
  <2>1. CASE Stream' = Stream
    <3>1. InOrder(Stream)'  BY <2>1 DEF OrderInv, InOrder
    <3>2. ASSUME NEW i \in 1..Len(Stream') PROVE Past(Stream[i])'
      <4>1. PICK r \in Record : r = Stream[i] /\ r = Stream'[i]  BY <2>1, <2>l, <3>2
      <4>2. Past(r)'  BY <2>1, <2>p, <3>2, <4>1 DEF OrderInv
      <4> QED  BY <4>1, <4>2
    <3> QED  BY <2>o, <3>1, <3>2 DEF OrderInv
  <2>2. ASSUME NEW p \in Producers, pushPc[p] = "ring", calls' = calls,
               pushPc' = [pushPc EXCEPT ![p] = "submit"],
               Stream' = Append(Stream, pushMsg[p][1])
        PROVE  OrderInv'
    <3>t. calls \in [Producers -> Nat] /\ pushPc \in [Producers -> PushPc]
      BY DEF CountInv, TypeOK
    <3>1. PICK e \in Record : e = pushMsg[p][1] /\ e.from = p /\ e.n = calls[p]
      BY <2>2 DEF CountInv, TypeOK, PushLocal, OrderInv
    <3>2. /\ Len(Stream') = Len(Stream) + 1
          /\ \A i \in 1..Len(Stream) : Stream'[i] = Stream[i]
          /\ Stream'[Len(Stream) + 1] = e
      BY <2>2, <2>s, <3>1, AppendProperties
    <3>3. InOrder(Stream)'
      <4> SUFFICES ASSUME NEW i \in 1..Len(Stream'), NEW j \in 1..Len(Stream'), i < j,
                          Stream'[i].from = Stream'[j].from
                   PROVE  Stream'[i].n < Stream'[j].n
        BY DEF InOrder
      <4>1. i \in 1..Len(Stream) /\ Stream'[i] = Stream[i]  BY <2>l, <3>2
      <4>2. CASE j \in 1..Len(Stream)  BY <3>2, <4>1, <4>2 DEF OrderInv, InOrder
      <4>3. CASE j \notin 1..Len(Stream)
        <5>1. Stream'[j] = e  BY <2>l, <3>2, <4>3
        <5>2. Past(Stream[i])  BY <4>1 DEF OrderInv
        <5>3. Stream[i].from = p  BY <3>1, <4>1, <5>1
        <5>4. Stream[i].n < calls[p]  BY <2>2, <5>2, <5>3 DEF Past
        <5> QED  BY <3>1, <4>1, <5>1, <5>4
      <4> QED  BY <4>2, <4>3
    <3>4. ASSUME NEW i \in 1..Len(Stream') PROVE Past(Stream[i])'
      <4>1. CASE i \in 1..Len(Stream)
        <5>1. PICK r \in Record : r = Stream[i] /\ r = Stream'[i]  BY <2>l, <3>2, <4>1
        <5>2. Past(r)'  BY <2>p, <4>1, <5>1 DEF OrderInv
        <5> QED  BY <5>1, <5>2
      <4>2. CASE i \notin 1..Len(Stream)
        <5>1. Stream'[i] = e  BY <2>l, <3>2, <3>4, <4>2
        <5>2. e.n \in Nat /\ pushPc'[p] = "submit" /\ calls'[p] = calls[p]
          BY <2>2, <3>t, <3>1 DEF Record
        <5>3. Past(e)'  BY <3>1, <5>2 DEF Past
        <5> QED  BY <5>1, <5>3
      <4> QED  BY <4>1, <4>2
    <3> QED  BY <2>o, <3>3, <3>4 DEF OrderInv
  <2> QED  BY <1>2, <2>1, <2>2, StreamNext
<1>3. CASE UNCHANGED vars
  <2>1. UNCHANGED <<Stream, pushPc, pushMsg, calls>>
    BY <1>3 DEF vars, Stream, Pending, queueVars, pushVars, workVars
  <2> QED  BY <2>1 DEF OrderInv, InOrder, Past
<1> QED  BY <1>1, <1>2, <1>3

\* For any number of producers and any interleaving of their pushes, the
\* sinks see the records of one producer once each and in the order of its
\* log() calls, also when shutdown_logger() races with the callers.
THEOREM DeliveryKeepsOrder == Spec => []DeliveredInOrder
<1>1. Init => CountInv /\ OrderInv  BY CountInit, OrderInit
<1>2. CountInv /\ OrderInv /\ [Next]_vars => (CountInv /\ OrderInv)'  BY CountNext, OrderNext
<1>3. CountInv /\ OrderInv => DeliveredInOrder
  <2> SUFFICES ASSUME CountInv, OrderInv PROVE DeliveredInOrder  OBVIOUS
  <2>1. delivered \in Seq(Record) /\ Pending \in Seq(Record)
    BY PendingTyped DEF CountInv, TypeOK
  <2>2. /\ Len(Stream) = Len(delivered) + Len(Pending)
        /\ Len(delivered) \in Nat /\ Len(Pending) \in Nat
        /\ \A i \in 1..Len(delivered) + Len(Pending) :
              Stream[i] = IF i <= Len(delivered) THEN delivered[i] ELSE Pending[i - Len(delivered)]
    BY <2>1, ConcatProperties, LenProperties DEF Stream
  <2>3. \A i \in 1..Len(delivered) : i \in 1..Len(Stream) /\ Stream[i] = delivered[i]
    BY <2>2
  <2> QED  BY <2>3 DEF OrderInv, InOrder, DeliveredInOrder
<1> QED  BY <1>1, <1>2, <1>3, PTL DEF Spec
=============================================================================
