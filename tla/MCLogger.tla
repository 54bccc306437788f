------------------------------ MODULE MCLogger ------------------------------
(* Small instances of Logger for TLC, and the logger as a LogChannel. *)
EXTENDS Logger

OneEach == [p \in Producers |-> 1]
TwoEach == [p \in Producers |-> 2]
TwoAndOne == [OneEach EXCEPT ![CHOOSE p \in Producers : TRUE] = 2]

MCRecords == [from : Producers, n : 1..2, seq : 1..(2 * Cardinality(Producers))]

Channel == INSTANCE LogChannel WITH
    Records <- MCRecords,
    Room    <- Capacity + 1,
    pending <- Pending

\* The logger is a LogChannel: what the ring accepts comes out once, in order,
\* sooner or later, and a LoggerState is replaced only when it is empty.
ChannelSpec == Channel!Spec
=============================================================================
