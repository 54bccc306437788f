----------------------------- MODULE LogChannel -----------------------------
(***************************************************************************)
(* What the logger promises its callers, apart from how it does it: one    *)
(* FIFO channel.  A record is accepted at one end, every accepted record   *)
(* comes out once at the other end, in the order of acceptance, and a      *)
(* channel is only ever thrown away when nothing accepted is left in it.   *)
(* Rejections (level filter, full queue, closed queue) are invisible here. *)
(***************************************************************************)
EXTENDS Naturals, Sequences

CONSTANTS
    Records,     \* every record a caller may hand over
    Room         \* records the channel holds before it turns callers away

VARIABLES
    pending,     \* accepted, not yet delivered; oldest first
    delivered    \* what the sink has been given, in order

chan == <<pending, delivered>>

Init ==
    /\ pending = <<>>
    /\ delivered = <<>>

Accept(r) ==
    /\ Len(pending) < Room
    /\ pending' = Append(pending, r)
    /\ UNCHANGED delivered

Deliver ==
    /\ pending # <<>>
    /\ delivered' = Append(delivered, Head(pending))
    /\ pending' = Tail(pending)

\* The channel is discarded and a new one takes its place.
Renew ==
    /\ pending = <<>>
    /\ delivered' = <<>>
    /\ UNCHANGED pending

Next ==
    \/ \E r \in Records : Accept(r)
    \/ Deliver
    \/ Renew

\* What the channel may do, and that it delivers what it has accepted.
Safety == Init /\ [][Next]_chan
Spec == Safety /\ WF_chan(Deliver)
=============================================================================
