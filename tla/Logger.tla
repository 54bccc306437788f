------------------------------- MODULE Logger -------------------------------
(***************************************************************************)
(* The asynchronous logger (src/src/logging): any number of threads call   *)
(* log(), one worker thread pops a bounded MPSC ring and hands each record *)
(* to the sinks, wait_until_idle() blocks on a condition variable until    *)
(* the in-flight counter is zero, and shutdown_logger() closes the queue,  *)
(* stops and joins the worker and frees the state.  One TLA+ step is one   *)
(* atomic operation or one critical section of the code, so every          *)
(* interleaving of the threads is explored.                                *)
(*                                                                         *)
(* The MPSC ring (wz::core::containers) is external: a bounded FIFO whose  *)
(* try_push and try_pop are atomic and fail when it is full or empty.      *)
(***************************************************************************)
EXTENDS Integers, Sequences, FiniteSets

CONSTANTS
    Producers,        \* threads that call log()
    Waiters,          \* threads that call wait_until_idle()
    Sinks,            \* tool sinks a host may install with set_log_sink()
    NoSink,           \* the null sink
    Capacity,         \* kLoggerQueueCapacity
    MaxCalls,         \* bound: the log() calls of each producer
    MaxInits,         \* bound: init_logger() calls
    MaxSetSinks,      \* bound: set_log_sink() calls
    OrderlyShutdown   \* do callers stay out once shutdown_logger() is called?

ASSUME LoggerAssumption ==
    /\ IsFiniteSet(Producers)
    /\ Capacity \in Nat \ {0}
    /\ MaxCalls \in [Producers -> Nat]
    /\ MaxInits \in Nat
    /\ MaxSetSinks \in Nat
    /\ OrderlyShutdown \in BOOLEAN
    /\ NoSink \notin Sinks
    /\ "free" \notin Waiters

VARIABLES
    handle,        \* Logger::state: "null", or a "live" LoggerState
    accepting,     \* LoggerQueue::accepting_
    nextSequence,  \* LoggerQueue::next_sequence_
    dropped,       \* LoggerQueue::dropped_count_
    submitted,     \* LoggerQueue::submitted_count_
    ring,          \* LoggerQueue::queue_
    running,       \* LoggerState::running_
    inFlight,      \* LoggerState::in_flight_
    idleHolder,    \* owner of idle_mutex_ ("free": nobody)
    toolSink,      \* LoggerState::tool_sink_
    pushPc,        \* where each producer is inside push()
    pushMsg,       \* the LogMessage it is building
    workPc,        \* where the worker is inside run()
    workMsg,       \* the record it popped, as a sequence of at most one
    draining,      \* has the worker left the main loop?
    workSink,      \* dispatch()'s copy of tool_sink_
    waitPc,        \* where each waiter is inside wait_until_idle()
    stopPc         \* where shutdown_logger() is

(* History of the current LoggerState, for the properties only. *)
VARIABLES
    calls,         \* log() calls each producer has begun
    inits,         \* init_logger() calls so far
    setSinks,      \* set_log_sink() calls so far
    accepted,      \* records whose push() returned true
    delivered,     \* records given to the sinks, in order
    waitFor,       \* what had been accepted when a waiter called
    staleCalls     \* records given to a sink since it was replaced

queueVars == <<accepting, nextSequence, dropped, submitted, ring>>
pushVars  == <<pushPc, pushMsg, calls, accepted>>
workVars  == <<workPc, workMsg, draining, workSink, delivered, staleCalls>>
waitVars  == <<waitPc, idleHolder, waitFor>>
sinkVars  == <<toolSink, setSinks>>
lifeVars  == <<handle, running, stopPc, inits>>
vars == <<queueVars, inFlight, pushVars, workVars, waitVars, sinkVars, lifeVars>>

\* What the steps of each thread leave alone.
pushFrame == <<workVars, waitVars, sinkVars, lifeVars>>
waitFrame == <<queueVars, inFlight, pushVars, workVars, sinkVars, lifeVars>>
workFrame == <<pushVars, waitVars, sinkVars, lifeVars>>
stopFrame == <<queueVars, inFlight, pushVars, workVars, waitVars, sinkVars>>

Record == [from : Producers, n : Nat, seq : Nat]
NoMsg  == <<>>

Delivered == {delivered[i] : i \in 1..Len(delivered)}

\* What the ring has accepted and no sink has seen: the record that the worker
\* has popped but not dispatched comes first.
Pending == (IF workPc = "dispatch" THEN workMsg ELSE <<>>) \o ring

-----------------------------------------------------------------------------
(* Construction: a logger without state, then init_logger(). *)

Init ==
    /\ handle = "null"
    /\ accepting = TRUE
    /\ nextSequence = 1
    /\ dropped = 0
    /\ submitted = 0
    /\ ring = <<>>
    /\ running = FALSE
    /\ inFlight = 0
    /\ idleHolder = "free"
    /\ toolSink = NoSink
    /\ pushPc = [p \in Producers |-> "out"]
    /\ pushMsg = [p \in Producers |-> NoMsg]
    /\ workPc = "none"
    /\ workMsg = NoMsg
    /\ draining = FALSE
    /\ workSink = NoSink
    /\ waitPc = [w \in Waiters |-> "out"]
    /\ stopPc = "no"
    /\ calls = [p \in Producers |-> 0]
    /\ inits = 0
    /\ setSinks = 0
    /\ accepted = {}
    /\ delivered = <<>>
    /\ waitFor = [w \in Waiters |-> {}]
    /\ staleCalls = 0

\* No thread is inside log() or wait_until_idle().
CallersOut ==
    /\ \A p \in Producers : pushPc[p] = "out"
    /\ \A w \in Waiters : waitPc[w] = "out"

\* init_logger(): refuses a logger that has a state; a new LoggerState has
\* every field at its default, and start() launches the worker.
InitLogger ==
    /\ handle = "null" /\ CallersOut /\ inits < MaxInits
    /\ handle' = "live"
    /\ inits' = inits + 1
    /\ accepting' = TRUE
    /\ nextSequence' = 1
    /\ dropped' = 0 /\ submitted' = 0
    /\ ring' = <<>>
    /\ inFlight' = 0
    /\ toolSink' = NoSink
    /\ running' = TRUE
    /\ workPc' = "test" /\ draining' = FALSE /\ workMsg' = NoMsg /\ workSink' = NoSink
    /\ stopPc' = "no"
    /\ accepted' = {} /\ delivered' = <<>> /\ staleCalls' = 0
    /\ UNCHANGED <<pushPc, pushMsg, calls, waitVars, setSinks>>

\* A caller that finds a state may enter it; in an orderly program nobody
\* enters once shutdown_logger() has been called.
MayEnter == handle = "live" /\ (OrderlyShutdown => stopPc = "no")

-----------------------------------------------------------------------------
(* log() -> LoggerState::push() -> LoggerQueue::try_push() *)

\* A record below min_level_ returns false and touches nothing.
LogFiltered(p) ==
    /\ MayEnter /\ pushPc[p] = "out" /\ calls[p] < MaxCalls[p]
    /\ calls' = [calls EXCEPT ![p] = @ + 1]
    /\ UNCHANGED <<pushPc, pushMsg, accepted, queueVars, inFlight, pushFrame>>

\* fetch_add(1), before the queue is tried.
CountInForgotten == UNCHANGED inFlight
CountIn == inFlight' = inFlight + 1

PushBegin(p) ==
    /\ MayEnter /\ pushPc[p] = "out" /\ calls[p] < MaxCalls[p]
    /\ calls' = [calls EXCEPT ![p] = @ + 1]
    /\ CountIn
    /\ pushPc' = [pushPc EXCEPT ![p] = "gate"]
    /\ UNCHANGED <<pushMsg, accepted, queueVars, pushFrame>>

\* try_push() returns false: the drop is counted, push() must still unwind.
RejectedReturnsEarly(p) ==
    /\ dropped' = dropped + 1
    /\ pushPc' = [pushPc EXCEPT ![p] = "out"]
    /\ pushMsg' = [pushMsg EXCEPT ![p] = NoMsg]
Rejected(p) ==
    /\ dropped' = dropped + 1
    /\ pushPc' = [pushPc EXCEPT ![p] = "unwind"]
    /\ pushMsg' = [pushMsg EXCEPT ![p] = NoMsg]

\* try_push(): the accepting_ test ...
PushGate(p) ==
    /\ handle = "live" /\ pushPc[p] = "gate"
    /\ \/ /\ accepting
          /\ pushPc' = [pushPc EXCEPT ![p] = "claim"]
          /\ UNCHANGED <<dropped, pushMsg>>
       \/ /\ ~accepting
          /\ Rejected(p)
    /\ UNCHANGED <<accepting, nextSequence, submitted, ring, inFlight, calls, accepted, pushFrame>>

\* ... the sequence number, one atomic fetch_add ...
SequenceNumber == nextSequence

PushClaim(p) ==
    /\ handle = "live" /\ pushPc[p] = "claim"
    /\ pushMsg' = [pushMsg EXCEPT ![p] = <<[from |-> p, n |-> calls[p], seq |-> SequenceNumber]>>]
    /\ nextSequence' = nextSequence + 1
    /\ pushPc' = [pushPc EXCEPT ![p] = "ring"]
    /\ UNCHANGED <<accepting, dropped, submitted, ring, inFlight, calls, accepted, pushFrame>>

\* ... the ring, which fails when full ...
PushRing(p) ==
    /\ handle = "live" /\ pushPc[p] = "ring"
    /\ \/ /\ Len(ring) < Capacity
          /\ ring' = ring \o pushMsg[p]
          /\ pushPc' = [pushPc EXCEPT ![p] = "submit"]
          /\ UNCHANGED <<dropped, pushMsg>>
       \/ /\ Len(ring) >= Capacity
          /\ Rejected(p)
          /\ UNCHANGED ring
    /\ UNCHANGED <<accepting, nextSequence, submitted, inFlight, calls, accepted, pushFrame>>

\* ... and the submitted count, after which push() returns true.
CountSubmitted == submitted' = submitted + 1

PushSubmit(p) ==
    /\ handle = "live" /\ pushPc[p] = "submit"
    /\ CountSubmitted
    /\ accepted' = accepted \cup {pushMsg[p][1]}
    /\ pushMsg' = [pushMsg EXCEPT ![p] = NoMsg]
    /\ pushPc' = [pushPc EXCEPT ![p] = "out"]
    /\ UNCHANGED <<accepting, nextSequence, dropped, ring, inFlight, calls, pushFrame>>

\* fetch_sub() returned 1: this step takes the counter to zero.
LastOut == inFlight = 1

\* push() takes back its in-flight count; the one that reaches zero notifies.
PushUnwind(p) ==
    /\ handle = "live" /\ pushPc[p] = "unwind"
    /\ inFlight' = inFlight - 1
    /\ pushPc' = [pushPc EXCEPT ![p] = IF LastOut THEN "notify" ELSE "out"]
    /\ UNCHANGED <<pushMsg, calls, accepted, queueVars, pushFrame>>

\* notify_all() under idle_mutex_: every sleeper must take the mutex again.
NotifyWithoutMutex ==
    /\ waitPc' = [w \in Waiters |-> IF waitPc[w] = "asleep" THEN "lock" ELSE waitPc[w]]
    /\ UNCHANGED <<idleHolder, waitFor>>
NotifyAll ==
    /\ idleHolder = "free"
    /\ waitPc' = [w \in Waiters |-> IF waitPc[w] = "asleep" THEN "lock" ELSE waitPc[w]]
    /\ UNCHANGED <<idleHolder, waitFor>>

PushNotify(p) ==
    /\ handle = "live" /\ pushPc[p] = "notify"
    /\ NotifyAll
    /\ pushPc' = [pushPc EXCEPT ![p] = "out"]
    /\ UNCHANGED <<pushMsg, calls, accepted, queueVars, inFlight, workVars, sinkVars, lifeVars>>

-----------------------------------------------------------------------------
(* LoggerState::wait_until_idle() *)

WaitBegin(w) ==
    /\ MayEnter /\ waitPc[w] = "out"
    /\ waitPc' = [waitPc EXCEPT ![w] = "lock"]
    /\ waitFor' = [waitFor EXCEPT ![w] = accepted]
    /\ UNCHANGED <<idleHolder, waitFrame>>

WaitLock(w) ==
    /\ handle = "live" /\ waitPc[w] = "lock" /\ idleHolder = "free"
    /\ idleHolder' = w
    /\ waitPc' = [waitPc EXCEPT ![w] = "check"]
    /\ UNCHANGED <<waitFor, waitFrame>>

\* The predicate of idle_cv_.wait().
RingLooksEmpty == ring = <<>>
Idle == inFlight = 0

WaitCheck(w) ==
    /\ handle = "live" /\ waitPc[w] = "check"
    /\ \/ /\ Idle
          /\ idleHolder' = "free"
          /\ waitPc' = [waitPc EXCEPT ![w] = "return"]
       \/ /\ ~Idle
          /\ waitPc' = [waitPc EXCEPT ![w] = "doze"]
          /\ UNCHANGED idleHolder
    /\ UNCHANGED <<waitFor, waitFrame>>

\* Releasing the mutex and going to sleep are one step for a notifier that
\* holds the mutex; between the test and this step the counter may change.
WaitSleep(w) ==
    /\ handle = "live" /\ waitPc[w] = "doze"
    /\ idleHolder' = "free"
    /\ waitPc' = [waitPc EXCEPT ![w] = "asleep"]
    /\ UNCHANGED <<waitFor, waitFrame>>

WaitSpurious(w) ==
    /\ handle = "live" /\ waitPc[w] = "asleep"
    /\ waitPc' = [waitPc EXCEPT ![w] = "lock"]
    /\ UNCHANGED <<waitFor, idleHolder, waitFrame>>

WaitReturn(w) ==
    /\ handle = "live" /\ waitPc[w] = "return"
    /\ waitPc' = [waitPc EXCEPT ![w] = "out"]
    /\ waitFor' = [waitFor EXCEPT ![w] = {}]
    /\ UNCHANGED <<idleHolder, waitFrame>>

-----------------------------------------------------------------------------
(* LoggerState::run(), the worker thread *)

WorkerTestNoDrain ==
    /\ workPc = "test"
    /\ workPc' = IF running THEN "pop" ELSE "final"
    /\ UNCHANGED <<workMsg, draining, workSink, delivered, staleCalls, queueVars, inFlight, workFrame>>
WorkerTest ==
    /\ workPc = "test"
    /\ workPc' = "pop"
    /\ draining' = ~running
    /\ UNCHANGED <<workMsg, workSink, delivered, staleCalls, queueVars, inFlight, workFrame>>

PopNewest ==
    /\ workMsg' = <<ring[Len(ring)]>>
    /\ ring' = SubSeq(ring, 1, Len(ring) - 1)
PopOldest ==
    /\ workMsg' = <<Head(ring)>>
    /\ ring' = Tail(ring)

\* An empty ring sends the main loop back to its test (yield) and ends the
\* final drain.
WorkerPop ==
    /\ workPc = "pop"
    /\ \/ /\ ring # <<>>
          /\ PopOldest
          /\ workPc' = "dispatch"
       \/ /\ ring = <<>>
          /\ workPc' = IF draining THEN "final" ELSE "test"
          /\ UNCHANGED <<workMsg, ring>>
    /\ UNCHANGED <<accepting, nextSequence, dropped, submitted, draining, workSink, delivered,
                   staleCalls, inFlight, workFrame>>

CopyFirstSink == workSink' = IF workSink = NoSink THEN toolSink ELSE workSink
CopySink == workSink' = toolSink

\* dispatch(): the built-in sinks get the record, then tool_sink_ is copied
\* under its mutex ...
WorkerDispatch ==
    /\ workPc = "dispatch"
    /\ delivered' = delivered \o workMsg
    /\ CopySink
    /\ workPc' = "sink"
    /\ UNCHANGED <<workMsg, draining, staleCalls, queueVars, inFlight, workFrame>>

\* ... and called after the mutex is released.
WorkerSink ==
    /\ workPc = "sink"
    /\ staleCalls' = IF workSink \notin {NoSink, toolSink} THEN staleCalls + 1 ELSE staleCalls
    /\ workPc' = "release"
    /\ UNCHANGED <<workMsg, draining, workSink, delivered, queueVars, inFlight, workFrame>>

\* The in-flight count of the record is returned; only the main loop
\* notifies when it reaches zero.
WorkerRelease ==
    /\ workPc = "release"
    /\ inFlight' = inFlight - 1
    /\ workMsg' = NoMsg
    /\ workPc' = IF draining THEN "pop" ELSE IF LastOut THEN "notify" ELSE "test"
    /\ UNCHANGED <<draining, workSink, delivered, staleCalls, queueVars, workFrame>>

WorkerNotify ==
    /\ workPc = "notify"
    /\ NotifyAll
    /\ workPc' = "test"
    /\ UNCHANGED <<workMsg, draining, workSink, delivered, staleCalls, queueVars, inFlight,
                   pushVars, sinkVars, lifeVars>>

\* After the drain: one last notify_all, and the thread ends.
WorkerExitSilent ==
    /\ workPc = "final"
    /\ workPc' = "exited"
    /\ UNCHANGED <<workMsg, draining, workSink, delivered, staleCalls, queueVars, inFlight, workFrame>>
WorkerExit ==
    /\ workPc = "final"
    /\ NotifyAll
    /\ workPc' = "exited"
    /\ UNCHANGED <<workMsg, draining, workSink, delivered, staleCalls, queueVars, inFlight,
                   pushVars, sinkVars, lifeVars>>

-----------------------------------------------------------------------------
(* set_log_sink(), and shutdown_logger() -> LoggerState::stop() *)

SetSink(s) ==
    /\ MayEnter /\ setSinks < MaxSetSinks
    /\ toolSink' = s
    /\ setSinks' = setSinks + 1
    /\ staleCalls' = 0
    /\ UNCHANGED <<workPc, workMsg, draining, workSink, delivered, queueVars, inFlight, pushVars,
                   waitVars, lifeVars>>

StopClose ==
    /\ handle = "live" /\ stopPc = "no"
    /\ OrderlyShutdown => CallersOut
    /\ accepting' = FALSE
    /\ stopPc' = "closed"
    /\ UNCHANGED <<nextSequence, dropped, submitted, ring, inFlight, pushVars, workVars, waitVars,
                   sinkVars, handle, running, inits>>

StopRunningForgotten ==
    /\ stopPc = "closed"
    /\ stopPc' = "join"
    /\ UNCHANGED <<stopFrame, handle, running, inits>>
StopRunning ==
    /\ stopPc = "closed"
    /\ running' = FALSE
    /\ stopPc' = "join"
    /\ UNCHANGED <<stopFrame, handle, inits>>

StopDetach ==
    /\ stopPc = "join"
    /\ stopPc' = "joined"
    /\ UNCHANGED <<stopFrame, handle, running, inits>>
StopJoin ==
    /\ stopPc = "join" /\ workPc = "exited"
    /\ stopPc' = "joined"
    /\ UNCHANGED <<stopFrame, handle, running, inits>>

\* delete state: whatever the state still held is gone with it.  A caller
\* still inside it would use freed memory; its steps are not modelled on.
StopDelete ==
    /\ stopPc = "joined"
    /\ handle' = "null"
    /\ stopPc' = "deleted"
    /\ workPc' = "none"
    /\ UNCHANGED <<queueVars, inFlight, pushVars, workMsg, draining, workSink, delivered,
                   staleCalls, waitVars, sinkVars, running, inits>>

-----------------------------------------------------------------------------
Push(p) ==
    \/ LogFiltered(p) \/ PushBegin(p) \/ PushGate(p) \/ PushClaim(p)
    \/ PushRing(p) \/ PushSubmit(p) \/ PushUnwind(p) \/ PushNotify(p)

Wait(w) ==
    \/ WaitBegin(w) \/ WaitLock(w) \/ WaitCheck(w) \/ WaitSleep(w)
    \/ WaitSpurious(w) \/ WaitReturn(w)

Worker ==
    \/ WorkerTest \/ WorkerPop \/ WorkerDispatch \/ WorkerSink
    \/ WorkerRelease \/ WorkerNotify \/ WorkerExit

Stop == StopClose \/ StopRunning \/ StopJoin \/ StopDelete

Next ==
    \/ InitLogger
    \/ \E p \in Producers : Push(p)
    \/ \E w \in Waiters : Wait(w)
    \/ Worker
    \/ \E s \in Sinks \cup {NoSink} : SetSink(s)
    \/ Stop

\* Threads inside a call keep running and the worker runs until it exits;
\* nobody has to call.  A thread that wants idle_mutex_ gets it if it is free
\* again and again (strong fairness): no order among the threads is assumed.
Fairness ==
    /\ WF_vars(Worker) /\ SF_vars(WorkerNotify) /\ SF_vars(WorkerExit)
    /\ \A p \in Producers :
          /\ WF_vars(PushGate(p) \/ PushClaim(p) \/ PushRing(p) \/ PushSubmit(p) \/ PushUnwind(p))
          /\ SF_vars(PushNotify(p))
    /\ \A w \in Waiters :
          /\ SF_vars(WaitLock(w))
          /\ WF_vars(WaitCheck(w) \/ WaitSleep(w) \/ WaitReturn(w))
    /\ WF_vars(StopRunning \/ StopJoin \/ StopDelete)

Spec == Init /\ [][Next]_vars
FairSpec == Spec /\ Fairness

-----------------------------------------------------------------------------
(* Properties *)

PushPc == {"out", "gate", "claim", "ring", "submit", "unwind", "notify"}
WorkPc == {"none", "test", "pop", "dispatch", "sink", "release", "notify", "final", "exited"}
WaitPc == {"out", "lock", "check", "doze", "asleep", "return"}
StopPc == {"no", "closed", "join", "joined", "deleted"}

\* Every variable of the logger has its type: in particular the ring never
\* holds more than its capacity and the in-flight counter is never negative.
TypeOK ==
    /\ handle \in {"null", "live"}
    /\ accepting \in BOOLEAN /\ running \in BOOLEAN /\ draining \in BOOLEAN
    /\ nextSequence \in Nat /\ dropped \in Nat /\ submitted \in Nat
    /\ ring \in Seq(Record) /\ Len(ring) <= Capacity
    /\ inFlight \in Nat
    /\ idleHolder \in Waiters \cup {"free"}
    /\ toolSink \in Sinks \cup {NoSink} /\ workSink \in Sinks \cup {NoSink}
    /\ pushPc \in [Producers -> PushPc] /\ pushMsg \in [Producers -> Seq(Record)]
    /\ workPc \in WorkPc /\ workMsg \in Seq(Record) /\ Len(workMsg) <= 1
    /\ waitPc \in [Waiters -> WaitPc] /\ waitFor \in [Waiters -> SUBSET Record]
    /\ stopPc \in StopPc
    /\ calls \in [Producers -> Nat] /\ inits \in 0..MaxInits
    /\ setSinks \in 0..MaxSetSinks /\ staleCalls \in Nat
    /\ accepted \subseteq Record /\ delivered \in Seq(Record)

\* The pushes that have counted themselves in and not yet handed their count
\* to a record in the ring, nor taken it back.
Counted == {p \in Producers : pushPc[p] \in {"gate", "claim", "ring", "unwind"}}

\* LoggerState::in_flight_ is at every instant the pushes under way plus the
\* records in the ring plus the one the worker holds: no path of push(), the
\* main loop or the final drain counts twice or forgets to uncount.
InFlightExact ==
    inFlight = Cardinality(Counted) + Len(ring) + Len(workMsg)

\* When wait_until_idle() returns, every record whose push had returned true
\* before the call has reached the sinks (LoggerState::wait_until_idle).
IdleReturnDelivers ==
    \A w \in Waiters : waitPc[w] = "return" => waitFor[w] \subseteq Delivered

\* The sinks see the records of one producer in the order of its log() calls
\* and none of them twice, however the pushes of others interleave (run()).
DeliveredInOrder ==
    \A i, j \in 1..Len(delivered) :
        i < j /\ delivered[i].from = delivered[j].from => delivered[i].n < delivered[j].n

\* After set_log_sink() returns, the replaced sink is called at most once
\* more: by the dispatch() that had already copied it.
StaleSinkAtMostOnce == staleCalls <= 1

\* Once stop() has joined the worker, every record whose push() returned true
\* has reached the sinks (the final drain of LoggerState::run).
DrainedOnShutdown ==
    stopPc \in {"joined", "deleted"} => accepted \subseteq Delivered

\* A notify_all() is still to come.
NoticeDue ==
    \/ \E p \in Producers : pushPc[p] = "notify"
    \/ workPc = "notify"
    \/ draining /\ workPc \notin {"none", "exited"}

\* No wakeup is lost, whoever takes the counter to zero after a waiter has
\* found it above: the main loop, a push that a full or closed queue rejects,
\* or the final drain, which lowers it without notifying while stop() overtakes
\* a wait_until_idle() under way (LoggerState::run).
SleepersNoticed ==
    inFlight = 0 => \A w \in Waiters : waitPc[w] \in {"doze", "asleep"} => NoticeDue

\* wait_until_idle() returns once it is called, in a program that calls
\* shutdown_logger() when its callers are out: no wakeup is lost between the
\* predicate and the sleep, or when a push is rejected.
WaitersReturn ==
    \A w \in Waiters : waitPc[w] # "out" ~> waitPc[w] = "out"

\* shutdown_logger() returns, also with callers that are still pushing and
\* waiting: the worker's final drain ends, its last notify_all() gets the mutex,
\* and stop() joins it.
ShutdownCompletes == stopPc = "closed" ~> stopPc = "deleted"
=============================================================================
