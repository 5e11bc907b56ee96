-------------------------- MODULE ConnectionQueue --------------------------
(***************************************************************************)
(* libtorrent's connection_queue: the half-open connection limiter that    *)
(* peers, trackers, web seeds and the SOCKS5 UDP association share.  An     *)
(* owner enqueues an attempt with two callbacks; the queue calls on_connect *)
(* when a slot is free, on_timeout when done() has not been called in time  *)
(* or when the queue is closed.                                            *)
(*                                                                         *)
(* One network thread runs every handler.  The queue calls its callbacks    *)
(* with the mutex released, from a private list (to_connect, timed_out,     *)
(* tmp), so a callback may call enqueue() and done() while the handler that *)
(* called it is half way: each callback is a step of its own, and the rest  *)
(* of the handler a later step.                                            *)
(*                                                                         *)
(* Time is the set of attempts whose deadline has passed: deadlines pass in *)
(* any order (the timeouts differ from owner to owner).                     *)
(***************************************************************************)
EXTENDS Integers, FiniteSets

CONSTANTS
    MaxTickets,     \* bound on the attempts enqueued in a behaviour
    Priorities,     \* the priorities owners use, among 0, 1 and 2
    Limits,         \* values the session gives to limit(); 0 is unlimited
    NoTicket        \* no deadline: a timer that is not waiting, max_time()

ASSUME MaxTicketsAssumption == MaxTickets \in Nat
ASSUME PrioritiesAssumption == Priorities \subseteq 0 .. 2
ASSUME LimitsAssumption == Limits \subseteq Nat
ASSUME NoTicketAssumption == NoTicket \notin Nat

VARIABLES
    queue,          \* tickets of the entries in m_queue
    pos,            \* pos[t]: where t stands in m_queue, smaller is nearer the front
    prio,           \* prio[t]: entry::priority
    started,        \* tickets whose entry::connecting is set (it has a deadline)
    due,            \* started tickets whose deadline has passed
    next,           \* m_next_ticket
    pushes,         \* entries pushed on m_queue so far: gives the next position
    num,            \* m_num_connecting
    limit,          \* m_half_open_limit
    abort,          \* m_abort
    timer,          \* the ticket whose deadline m_timer waits for, or NoTicket
    fired,          \* on_timeout handlers the timer has posted and nobody has run
    posted,         \* on_try_connect handlers posted and not run
    running,        \* the handler the network thread is in
    todo,           \* the callbacks that handler still has to call
    rearm,          \* next_expire of a running on_timeout, or NoTicket
    connectedCb,    \* tickets whose on_connect has been called
    timeoutCb,      \* tickets whose on_timeout has been called
    settled         \* tickets done() has taken out of m_queue

entries   == <<queue, pos, prio, started, due, next, pushes>>
counters  == <<num, limit, abort>>
handlers  == <<timer, fired, posted, running, todo, rearm>>
callbacks == <<connectedCb, timeoutCb, settled>>
vars      == <<entries, counters, handlers, callbacks>>

Tickets == 0 .. MaxTickets - 1
Issued  == 0 .. next - 1

----------------------------------------------------------------------------

Connecting == queue \cap started
Waiting    == queue \ started

\* Is there room under the half-open limit for one more?
HasSlot(n) == limit = 0 \/ n < limit

\* May n attempts be connecting?
Fits(n) == limit = 0 \/ n <= limit

\* What t counts for in m_num_connecting.
NoSlot(t) == 0                                  \* mutant of Slot
Slot(t)   == IF t \in started THEN 1 ELSE 0

\* m_queue after done(t)
Kept(t)    == queue                             \* mutant of Without
Without(t) == queue \ {t}

\* Handlers posted once a slot may be free: one more if n are connecting.  The
\* mutant looks at the count before done() lowers it.
WokenLate(n) == IF HasSlot(n + 1) THEN posted + 1 ELSE posted
Woken(n)     == IF HasSlot(n) THEN posted + 1 ELSE posted

\* t comes first among S
First(S, t) == t \in S /\ \A u \in S : pos[t] <= pos[u]

\* The entries try_connect() starts: from the front, until the limit.
StartsFrom(S) ==
    /\ S \subseteq Waiting
    /\ \A s \in S, w \in Waiting \ S : pos[s] < pos[w]
    /\ Fits(num + Cardinality(S))
    /\ S = Waiting \/ ~Fits(num + Cardinality(S) + 1)

Idle == running = "idle"

----------------------------------------------------------------------------

Init ==
    /\ queue = {} /\ started = {} /\ due = {} /\ next = 0 /\ pushes = 0
    /\ pos = [t \in Tickets |-> 0]
    /\ prio = [t \in Tickets |-> 0]
    /\ num = 0 /\ limit \in Limits /\ abort = FALSE
    /\ timer = NoTicket /\ fired = 0 /\ posted = 0
    /\ running = "idle" /\ todo = {} /\ rearm = NoTicket
    /\ connectedCb = {} /\ timeoutCb = {} /\ settled = {}

\* enqueue(): behind everybody for priority 0, in front for 1 and 2.
Enqueue(p) ==
    /\ next < MaxTickets
    /\ queue' = queue \cup {next}
    /\ pos' = [pos EXCEPT ![next] = IF p = 0 THEN pushes ELSE -pushes]
    /\ pushes' = pushes + 1
    /\ prio' = [prio EXCEPT ![next] = p]
    /\ next' = next + 1
    /\ posted' = Woken(num)
    /\ UNCHANGED <<started, due, counters, timer, fired, running, todo, rearm, callbacks>>

\* done(): called by the attempt's owner, who learnt the ticket from on_connect.
\* It returns at once, and is a stuttering step, when the ticket is not in
\* m_queue: closed, timed out, or held in the timed_out list of a running handler.
Done(t) ==
    /\ t \in connectedCb \cap queue
    /\ num' = num - Slot(t)
    /\ queue' = Without(t)
    /\ posted' = Woken(num')
    /\ settled' = settled \cup {t}
    /\ UNCHANGED <<pos, prio, started, due, next, pushes, limit, abort, timer, fired, running,
                   todo, rearm, connectedCb, timeoutCb>>

\* limit(): the session's settings change.  No lock is taken and nobody is woken.
SetLimit(l) ==
    /\ limit' = l
    /\ UNCHANGED <<entries, num, abort, handlers, callbacks>>

----------------------------------------------------------------------------

\* The locked part of try_connect(), entered by on_try_connect() or at the end
\* of on_timeout() when m_timer waits for `armed`.
TryConnect(armed) ==
    \/ /\ ~HasSlot(num)
       /\ timer' = armed
       /\ running' = "idle"
       /\ UNCHANGED <<started, num, todo>>
    \/ /\ HasSlot(num) /\ queue = {}
       /\ timer' = NoTicket
       /\ running' = "idle"
       /\ UNCHANGED <<started, num, todo>>
    \/ /\ HasSlot(num) /\ queue # {}
       /\ \E S \in SUBSET Waiting :
            /\ StartsFrom(S)
            /\ started' = started \cup S
            /\ num' = num + Cardinality(S)
            /\ IF num = 0 /\ S # {}
                 THEN timer' \in {t \in S : First(S, t)}
                 ELSE timer' = armed
            /\ todo' = S
            /\ running' = IF S = {} THEN "idle" ELSE "connecting"

OnTryConnect ==
    /\ Idle /\ posted > 0
    /\ posted' = posted - 1
    /\ TryConnect(timer)
    /\ UNCHANGED <<queue, pos, prio, due, next, pushes, limit, abort, fired, rearm, callbacks>>

\* ent.on_connect(ent.ticket), in the order of to_connect
CallOnConnect(t) ==
    /\ running = "connecting" /\ First(todo, t)
    /\ connectedCb' = connectedCb \cup {t}
    /\ todo' = todo \ {t}
    /\ running' = IF todo' = {} THEN "idle" ELSE running
    /\ UNCHANGED <<entries, counters, timer, fired, posted, rearm, timeoutCb, settled>>

\* A started attempt's deadline passes.  Nobody looks at the deadline of an
\* attempt that has ended, unless the timer was set to it.
Elapse(t) ==
    /\ t \in started \ due
    /\ t \in queue \cup todo \/ t = timer \/ t = rearm
    /\ due' = due \cup {t}
    /\ UNCHANGED <<queue, pos, prio, started, next, pushes, counters, handlers, callbacks>>

\* m_timer expires: its handler is posted, and can no longer be cancelled.
TimerFires ==
    /\ timer \in due
    /\ timer' = NoTicket
    /\ fired' = fired + 1
    /\ UNCHANGED <<entries, counters, posted, running, todo, rearm, callbacks>>

\* on_timeout(): the scan, up to the unlock.  An aborted wait's handler returns
\* at once and is left out.
OnTimeout ==
    /\ Idle /\ fired > 0
    /\ fired' = fired - 1
    /\ LET late == Connecting \cap due
       IN  /\ queue' = queue \ late
           /\ num' = num - Cardinality(late)
           /\ todo' = late
           /\ IF Connecting = late THEN rearm' = NoTicket ELSE rearm' \in Connecting \ late
    /\ running' = "timing"
    /\ UNCHANGED <<pos, prio, started, due, next, pushes, limit, abort, timer, posted, callbacks>>

\* i->on_timeout(), from timed_out or from close()'s tmp
CallOnTimeout(t) ==
    /\ First(todo, t)
    /\ \/ running = "timing"
       \/ running = "closing" /\ prio[t] <= 1
    /\ timeoutCb' = timeoutCb \cup {t}
    /\ todo' = todo \ {t}
    /\ running' = IF running = "closing" /\ todo' = {} THEN "idle" ELSE running
    /\ UNCHANGED <<entries, counters, timer, fired, posted, rearm, connectedCb, settled>>

\* on_timeout(): the tail, with the lock held again.  The timer is armed for what
\* the scan found, over whatever a callback's try_connect() had armed it for.
NotRearmed == timer                             \* mutant of Rearmed
Rearmed    == IF rearm = NoTicket THEN timer ELSE rearm

OnTimeoutEnds ==
    /\ running = "timing" /\ todo = {}
    /\ TryConnect(Rearmed)
    /\ rearm' = NoTicket
    /\ UNCHANGED <<queue, pos, prio, due, next, pushes, limit, abort, fired, posted, callbacks>>

----------------------------------------------------------------------------

\* close() cancels the timer when nothing is connecting.
AlwaysCancelled == NoTicket                     \* mutant of CancelledIfIdle
CancelledIfIdle == IF num = 0 THEN NoTicket ELSE timer

\* close(), called once, when the session aborts: up to the unlock.
Close ==
    /\ Idle /\ ~abort
    /\ abort' = TRUE
    /\ timer' = CancelledIfIdle
    /\ todo' = queue
    /\ running' = IF queue = {} THEN "idle" ELSE "closing"
    /\ queue' = {}
    /\ num' = 0
    /\ UNCHANGED <<pos, prio, started, due, next, pushes, limit, fired, posted, rearm, callbacks>>

\* An entry of priority 2 survives: it goes back, behind what callbacks enqueued.
Requeue(t) ==
    /\ running = "closing" /\ First(todo, t) /\ prio[t] > 1
    /\ queue' = queue \cup {t}
    /\ pos' = [pos EXCEPT ![t] = pushes]
    /\ pushes' = pushes + 1
    /\ num' = num + Slot(t)
    /\ todo' = todo \ {t}
    /\ running' = IF todo' = {} THEN "idle" ELSE running
    /\ UNCHANGED <<prio, started, due, next, limit, abort, timer, fired, posted, rearm,
                   callbacks>>

----------------------------------------------------------------------------

\* What the owners and the session may do: nothing obliges them.
User ==
    \/ \E p \in Priorities : Enqueue(p)
    \/ \E t \in Issued : Done(t)
    \/ \E l \in Limits : SetLimit(l)
    \/ Close

\* What the network thread and the clock do.
System ==
    \/ OnTryConnect
    \/ \E t \in Issued : CallOnConnect(t) \/ CallOnTimeout(t) \/ Requeue(t)
    \/ TimerFires
    \/ OnTimeout
    \/ OnTimeoutEnds

Next == User \/ System \/ \E t \in Issued : Elapse(t)

\* io_service::run() runs every posted handler to its end, and time passes.
Fairness ==
    /\ WF_vars(OnTryConnect)
    /\ WF_vars(\E t \in Issued : CallOnConnect(t) \/ CallOnTimeout(t) \/ Requeue(t))
    /\ WF_vars(TimerFires)
    /\ WF_vars(OnTimeout)
    /\ WF_vars(OnTimeoutEnds)
    /\ \A t \in Tickets : WF_vars(Elapse(t))

Spec == Init /\ [][Next]_vars
FairSpec == Spec /\ Fairness

----------------------------------------------------------------------------

\* Type correctness of the queue, its timer and the callback lists.
TypeOK ==
    /\ next \in 0 .. MaxTickets /\ pushes \in Nat
    /\ queue \subseteq Issued /\ todo \subseteq Issued
    /\ started \subseteq Issued /\ due \subseteq started
    /\ pos \in [Tickets -> Int] /\ prio \in [Tickets -> 0 .. 2]
    /\ num \in Nat /\ limit \in Limits /\ abort \in BOOLEAN
    /\ timer \in started \cup {NoTicket} /\ rearm \in started \cup {NoTicket}
    /\ fired \in Nat /\ posted \in Nat
    /\ running \in {"idle", "connecting", "timing", "closing"}
    /\ connectedCb \subseteq started /\ timeoutCb \subseteq Issued
    /\ settled \subseteq connectedCb

\* check_invariant() of the debug build: m_num_connecting counts the entries of
\* m_queue that are connecting.  It must hold whenever the mutex is free, which
\* includes every point where a callback runs and re-enters the queue.
CheckInvariant == num = Cardinality(Connecting)

\* While something is connecting a wait is pending, its handler is posted, or
\* on_timeout is running and will re-arm it: no started attempt is forgotten.
TimerGuards ==
    num > 0 => timer # NoTicket \/ fired > 0 \/ running = "timing"

\* An attempt that waits for a slot is never stranded: somebody will call
\* try_connect() again without any owner having to act.  limit() wakes nobody
\* and close() re-queues entries without posting a handler.
NoLostWakeup ==
    Waiting # {} => \/ posted > 0 \/ fired > 0 \/ timer # NoTicket
                    \/ running \in {"timing", "closing"}

\* Before close(), an attempt never waits for a deadline while a slot is free:
\* when fewer are connecting than any limit the session gives, the handler that
\* starts the waiting is posted, or on_timeout is about to do its work.  enqueue()
\* and done() skip the post at the limit, so whatever lowers the count later, a
\* callback or a timeout in the middle of a handler included, must make up for it.
FreeSlot == \A l \in Limits : l = 0 \/ num < l

FreeSlotIsOffered ==
    ~abort /\ Waiting # {} /\ FreeSlot => posted > 0 \/ fired > 0 \/ running = "timing"

\* How far each attempt has come, as its owner sees it.
Stage(t) ==
    IF t \notin Issued            THEN "none"
    ELSE IF t \in timeoutCb       THEN "timedout"
    ELSE IF t \in settled         THEN "done"
    ELSE IF t \in connectedCb     THEN "connected"
    ELSE "queued"

\* The contract of connection_queue.hpp and what udp_socket builds on: an owner
\* sees on_connect, or on_connect then on_timeout, or on_timeout alone, and once
\* done() has taken its attempt out of the queue it sees nothing any more.
Contract == INSTANCE ConnectionContract WITH
                stage <- [t \in Tickets |-> Stage(t)]
ImplementsContract == Contract!Spec

\* Owners that go quiet see every attempt through: once nothing more is enqueued
\* (MaxTickets bounds it) every attempt gets one of its callbacks and leaves the
\* queue, by done() or by a timeout, whether or not its owner ever calls done(),
\* whatever limit() did meanwhile, and after close() too.
Drains ==
    <>[](queue = {} /\ todo = {} /\ \A t \in Issued : t \in connectedCb \cup timeoutCb)

=============================================================================
