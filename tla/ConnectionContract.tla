------------------------- MODULE ConnectionContract -------------------------
(***************************************************************************)
(* What connection_queue promises the owner of a connection attempt: the    *)
(* three interleavings of callbacks that connection_queue.hpp documents,    *)
(* and silence after done().  How many attempts may be open, in what order  *)
(* and when they time out is the queue's own business.                      *)
(***************************************************************************)
CONSTANT Tickets        \* the attempts

VARIABLE stage          \* stage[t]: what the owner of t has seen

Init == stage = [t \in Tickets |-> "none"]

\* t goes from one stage to another, and nobody else moves.
Moves(t, from, to) == stage[t] = from /\ stage' = [stage EXCEPT ![t] = to]

Enqueue(t)   == Moves(t, "none", "queued")
OnConnect(t) == Moves(t, "queued", "connected")
Done(t)      == Moves(t, "connected", "done")
OnTimeout(t) == Moves(t, "queued", "timedout") \/ Moves(t, "connected", "timedout")

Next == \E t \in Tickets : Enqueue(t) \/ OnConnect(t) \/ Done(t) \/ OnTimeout(t)

Spec == Init /\ [][Next]_stage

=============================================================================
