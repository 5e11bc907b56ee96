----------------------- MODULE ConnectionQueue_proofs -----------------------
(***************************************************************************)
(* Theorems about ConnectionQueue, for every number of attempts, every set  *)
(* of limits and every mix of priorities: type correctness, the debug       *)
(* build's check_invariant(), the absence of lost wakeups, and the callback *)
(* contract as a refinement.                                               *)
(***************************************************************************)
EXTENDS ConnectionQueue, FiniteSetTheorems, TLAPS

\* Which attempts the running handler holds, and that a callback is never owed
\* to an attempt that has ended.
Held ==
    /\ running = "idle" => todo = {}
    /\ running = "connecting" => todo \subseteq Connecting \ connectedCb
    /\ running \in {"timing", "closing"} => todo \cap queue = {}
    /\ (queue \cup todo) \cap (timeoutCb \cup settled) = {}
    /\ timeoutCb \cap settled = {}
    /\ rearm # NoTicket => running = "timing"

\* TimerGuards, with the reason why a running on_timeout counts: it has found
\* the deadline it will re-arm the timer for.
TimerOwed ==
    num > 0 => timer # NoTicket \/ fired > 0 \/ (running = "timing" /\ rearm # NoTicket)

\* What close() holds back in tmp is still owed a timer, or a wakeup.
ClosingOwed ==
    running = "closing" =>
        /\ todo \cap started # {} => timer # NoTicket \/ fired > 0
        /\ Waiting \cup (todo \ started) # {}
             => posted > 0 \/ fired > 0 \/ timer # NoTicket
        /\ abort

\* The inductive invariant.
IInv ==
    /\ TypeOK
    /\ CheckInvariant
    /\ Held
    /\ TimerOwed
    /\ FreeSlotIsOffered
    /\ ClosingOwed
    /\ NoLostWakeup

----------------------------------------------------------------------------

\* Every set of issued tickets is finite, so counting entries makes sense.
LEMMA IssuedFinite ==
    ASSUME TypeOK, NEW S \in SUBSET Issued
    PROVE  IsFiniteSet(S) /\ Cardinality(S) \in Nat
<1>1. IsFiniteSet(Issued)
  BY FS_Interval, MaxTicketsAssumption DEF TypeOK, Issued
<1>2. IsFiniteSet(S)
  BY <1>1, FS_Subset
<1> QED BY <1>2, FS_CardinalityType

\* m_num_connecting is positive exactly when some entry is connecting.
LEMMA NumPositive ==
    ASSUME TypeOK, CheckInvariant
    PROVE  num > 0 <=> Connecting # {}
<1>1. Connecting \in SUBSET Issued
  BY DEF TypeOK, Connecting
<1>2. IsFiniteSet(Connecting) /\ Cardinality(Connecting) \in Nat
  BY <1>1, IssuedFinite
<1>3. Cardinality(Connecting) = 0 <=> Connecting = {}
  BY <1>2, FS_EmptySet
<1> QED BY <1>2, <1>3 DEF CheckInvariant

\* A slot is free whatever the limit when nothing is connecting, and none is
\* where the limit in force leaves none.
LEMMA FreeSlots ==
    ASSUME TypeOK
    PROVE  (num = 0 => FreeSlot) /\ (FreeSlot => HasSlot(num))
BY LimitsAssumption DEF TypeOK, FreeSlot, HasSlot

LEMMA InitIInv == Init => IInv
<1> SUFFICES ASSUME Init PROVE IInv
  OBVIOUS
<1> USE MaxTicketsAssumption, LimitsAssumption, NoTicketAssumption DEF Init
<1>1. TypeOK
  <2>1. pos \in [Tickets -> Int] /\ prio \in [Tickets -> 0 .. 2]
    OBVIOUS
  <2>2. next \in 0 .. MaxTickets /\ pushes \in Nat
    OBVIOUS
  <2> QED BY <2>1, <2>2 DEF TypeOK
<1>2. CheckInvariant
  BY FS_EmptySet DEF CheckInvariant, Connecting
<1>3. Held /\ TimerOwed /\ FreeSlotIsOffered /\ ClosingOwed /\ NoLostWakeup
  BY DEF Held, TimerOwed, FreeSlotIsOffered, ClosingOwed, NoLostWakeup, Waiting
<1> QED BY <1>1, <1>2, <1>3 DEF IInv

LEMMA EnqueueIInv ==
    ASSUME IInv, NEW p \in Priorities, Enqueue(p)
    PROVE  IInv'
<1> USE MaxTicketsAssumption, LimitsAssumption, NoTicketAssumption, PrioritiesAssumption
<1>0. next \in Tickets /\ next \notin Issued /\ Issued \subseteq Issued' /\ next \in Issued'
  BY DEF IInv, TypeOK, Enqueue, Tickets, Issued
<1>1. TypeOK'
  BY <1>0 DEF IInv, TypeOK, Enqueue, counters, callbacks, Tickets, Issued, Woken
<1>2. Connecting' = Connecting /\ Waiting' = Waiting \cup {next}
  BY <1>0 DEF IInv, TypeOK, Enqueue, Connecting, Waiting
<1>3. CheckInvariant'
  BY <1>2 DEF IInv, CheckInvariant, Enqueue, counters
<1>4. next \notin todo /\ next \notin timeoutCb /\ next \notin settled
  BY <1>0 DEF IInv, TypeOK
<1>5. Held'
  BY <1>2, <1>4 DEF IInv, Held, Enqueue, callbacks
<1>6. ~HasSlot(num) => num > 0
  BY DEF IInv, TypeOK, HasSlot
<1>7. HasSlot(num) => posted' > 0
  BY DEF IInv, TypeOK, Enqueue, Woken
<1>8. TimerOwed'
  BY DEF IInv, TimerOwed, Enqueue, counters
<1>9. FreeSlot' => HasSlot(num)
  BY FreeSlots DEF IInv, Enqueue, counters, FreeSlot
<1>10. FreeSlotIsOffered'
  BY <1>7, <1>9 DEF FreeSlotIsOffered, Enqueue
<1>11. ClosingOwed' /\ NoLostWakeup'
  BY <1>6, <1>7 DEF IInv, TimerOwed, ClosingOwed, NoLostWakeup, Enqueue, counters
<1> QED BY <1>1, <1>3, <1>5, <1>8, <1>10, <1>11 DEF IInv

LEMMA DoneIInv ==
    ASSUME IInv, NEW t \in Issued, Done(t)
    PROVE  IInv'
<1> USE MaxTicketsAssumption, LimitsAssumption, NoTicketAssumption
<1>0. t \in Connecting /\ Connecting \in SUBSET Issued
  BY DEF IInv, TypeOK, Done, Connecting
<1>1. Connecting' = Connecting \ {t} /\ Waiting' = Waiting
  BY <1>0 DEF Done, Connecting, Waiting, Without
<1>2. num' = num - 1 /\ num' = Cardinality(Connecting') /\ num' \in Nat
  <2>1. IsFiniteSet(Connecting) /\ Cardinality(Connecting) \in Nat
    BY <1>0, IssuedFinite DEF IInv
  <2>2. Cardinality(Connecting') = Cardinality(Connecting) - 1 /\ IsFiniteSet(Connecting')
    BY <2>1, <1>0, <1>1, FS_RemoveElement
  <2>3. Cardinality(Connecting') \in Nat
    BY <2>2, FS_CardinalityType
  <2>4. num' = num - 1
    BY <1>0 DEF Done, Connecting, Slot
  <2> QED BY <2>1, <2>2, <2>3, <2>4 DEF IInv, CheckInvariant
<1>3. posted' \in Nat /\ posted' >= posted /\ (HasSlot(num') => posted' > 0)
  BY DEF IInv, TypeOK, Done, Slot, Woken
<1>4. TypeOK'
  BY <1>2, <1>3 DEF IInv, TypeOK, Done, Issued, Without
<1>5. CheckInvariant'
  BY <1>2 DEF CheckInvariant
<1>6. Held'
  BY <1>1 DEF IInv, TypeOK, Held, Done, Connecting, Without
<1>7. TimerOwed'
  BY <1>2 DEF IInv, TypeOK, TimerOwed, Done
<1>8. FreeSlot' => HasSlot(num')
  BY DEF IInv, TypeOK, Done, FreeSlot, HasSlot
<1>9. FreeSlotIsOffered'
  BY <1>3, <1>8 DEF FreeSlotIsOffered, Done
<1>10. ClosingOwed' /\ NoLostWakeup'
  BY <1>1, <1>3 DEF IInv, TypeOK, ClosingOwed, NoLostWakeup, Done
<1> QED BY <1>4, <1>5, <1>6, <1>7, <1>9, <1>10 DEF IInv

LEMMA SetLimitIInv ==
    ASSUME IInv, NEW l \in Limits, SetLimit(l)
    PROVE  IInv'
<1> USE DEF SetLimit, entries, handlers, callbacks
<1>1. TypeOK'
  BY DEF IInv, TypeOK, Issued
<1>2. CheckInvariant' /\ Held' /\ TimerOwed'
  BY DEF IInv, CheckInvariant, Held, TimerOwed, Connecting
<1>3. FreeSlotIsOffered' /\ ClosingOwed' /\ NoLostWakeup'
  BY DEF IInv, FreeSlotIsOffered, FreeSlot, ClosingOwed, NoLostWakeup, Waiting
<1> QED BY <1>1, <1>2, <1>3 DEF IInv

----------------------------------------------------------------------------

\* What try_connect() does to the entries, the counter and the timer, whatever
\* deadline the timer was waiting for.  Nobody is left waiting unless the limit
\* is used up, and the first attempt to connect arms the timer.
TryConnectDoes(armed) ==
    /\ started \subseteq started' /\ started' \subseteq Issued
    /\ num' \in Nat /\ num' = Cardinality(Connecting')
    /\ timer' \in started' \cup {NoTicket}
    /\ num > 0 => timer' = armed
    /\ num = 0 /\ num' > 0 => timer' # NoTicket
    /\ Waiting' # {} => num' > 0 /\ ~FreeSlot'
    /\ running' \in {"idle", "connecting"}
    /\ running' = "idle" => todo' = {}
    /\ todo' \subseteq Connecting' \ started

LEMMA TryConnectEffect ==
    ASSUME TypeOK, CheckInvariant, todo = {}, UNCHANGED <<queue, limit>>,
           NEW armed \in started \cup {NoTicket}, TryConnect(armed)
    PROVE  TryConnectDoes(armed)
<1> USE MaxTicketsAssumption, LimitsAssumption, NoTicketAssumption
<1>1. Connecting \in SUBSET Issued /\ IsFiniteSet(Connecting) /\ Cardinality(Connecting) \in Nat
  <2>1. Connecting \in SUBSET Issued
    BY DEF TypeOK, Connecting
  <2> QED BY <2>1, IssuedFinite
<1>2. num > 0 <=> Connecting # {}
  BY NumPositive
<1>3. CASE ~HasSlot(num) /\ timer' = armed /\ running' = "idle" /\ UNCHANGED <<started, num, todo>>
  <2>1. num > 0 /\ ~FreeSlot
    BY <1>3, FreeSlots DEF TypeOK, HasSlot
  <2> QED BY <1>3, <2>1 DEF TryConnectDoes, FreeSlot, TypeOK, CheckInvariant, Connecting, Waiting
<1>4. CASE /\ HasSlot(num) /\ queue = {} /\ timer' = NoTicket /\ running' = "idle"
           /\ UNCHANGED <<started, num, todo>>
  <2>1. Connecting = {} /\ Waiting = {} /\ num = 0
    BY <1>2, <1>4 DEF TypeOK, Connecting, Waiting
  <2>2. UNCHANGED <<Connecting, Waiting>>
    BY <1>4 DEF Connecting, Waiting
  <2> QED BY <1>4, <2>1, <2>2 DEF TryConnectDoes, TypeOK, CheckInvariant
<1>5. ASSUME HasSlot(num), NEW S \in SUBSET Waiting, StartsFrom(S),
             started' = started \cup S, num' = num + Cardinality(S),
             IF num = 0 /\ S # {} THEN timer' \in {t \in S : First(S, t)} ELSE timer' = armed,
             todo' = S, running' = IF S = {} THEN "idle" ELSE "connecting"
      PROVE  TryConnectDoes(armed)
  <2>1. S \in SUBSET Issued /\ IsFiniteSet(S) /\ Cardinality(S) \in Nat
    <3>1. S \in SUBSET Issued
      BY DEF TypeOK, Waiting
    <3> QED BY <3>1, IssuedFinite
  <2>2. Connecting' = Connecting \cup S /\ Connecting \cap S = {}
    BY <1>5 DEF Connecting, Waiting
  <2>3. Cardinality(Connecting') = Cardinality(Connecting) + Cardinality(S)
    <3>1. Cardinality(Connecting \cup S) =
            Cardinality(Connecting) + Cardinality(S) - Cardinality(Connecting \cap S)
      BY <1>1, <2>1, FS_Union
    <3> QED BY <3>1, <2>1, <2>2, <1>1, FS_EmptySet
  <2>4. num' \in Nat /\ num' = Cardinality(Connecting')
    BY <1>5, <2>1, <2>3 DEF TypeOK, CheckInvariant
  <2>5. S # {} => Cardinality(S) > 0
    BY <2>1, FS_EmptySet
  <2>6. S = {} => num' = num
    BY <1>5, FS_EmptySet DEF TypeOK
  <2>7. timer' \in started' \cup {NoTicket}
    BY <1>5
  <2>8. num = 0 /\ num' > 0 => timer' # NoTicket
    <3>1. S \subseteq Nat
      BY <2>1 DEF Issued, TypeOK
    <3>2. num = 0 /\ S # {} => timer' \in S
      BY <1>5
    <3>3. num = 0 /\ num' > 0 => S # {}
      BY <2>6, <2>4
    <3> QED BY <3>1, <3>2, <3>3, NoTicketAssumption
  <2>9. Waiting' # {} => num' > 0 /\ ~FreeSlot'
    <3>1. CASE S = Waiting
      BY <1>5, <3>1 DEF Waiting
    <3>2. CASE ~Fits(num + Cardinality(S) + 1)
      <4>1. limit # 0 /\ limit \in Limits /\ limit \in Nat /\ num' >= limit
        BY <1>5, <3>2, <2>1 DEF Fits, TypeOK
      <4> QED BY <4>1, <2>4 DEF FreeSlot
    <3> QED BY <1>5, <3>1, <3>2 DEF StartsFrom
  <2>10. todo' \subseteq Connecting' \ started
    BY <1>5 DEF Connecting, Waiting
  <2>11. started' \subseteq Issued
    BY <1>5, <2>1 DEF TypeOK
  <2> QED BY <1>5, <2>4, <2>7, <2>8, <2>9, <2>10, <2>11 DEF TryConnectDoes
<1> QED BY <1>3, <1>4, <1>5 DEF TryConnect

LEMMA OnTryConnectIInv ==
    ASSUME IInv, OnTryConnect
    PROVE  IInv'
<1> USE MaxTicketsAssumption, LimitsAssumption, NoTicketAssumption
<1>0. todo = {} /\ running = "idle"
  BY DEF IInv, Held, OnTryConnect, Idle
<1>1. TryConnectDoes(timer)
  <2>1. timer \in started \cup {NoTicket} /\ UNCHANGED <<queue, limit>> /\ TryConnect(timer)
    BY DEF IInv, TypeOK, OnTryConnect
  <2> QED BY <1>0, <2>1, TryConnectEffect DEF IInv
<1>2. TypeOK'
  BY <1>1 DEF TryConnectDoes, IInv, TypeOK, OnTryConnect, callbacks, Issued, Connecting
<1>3. CheckInvariant'
  BY <1>1 DEF TryConnectDoes, CheckInvariant
<1>4. Held'
  BY <1>0, <1>1 DEF TryConnectDoes, IInv, TypeOK, Held, OnTryConnect, callbacks, Connecting
<1>5. TimerOwed'
  BY <1>0, <1>1 DEF TryConnectDoes, IInv, TypeOK, TimerOwed, OnTryConnect
<1>6. FreeSlotIsOffered' /\ ClosingOwed'
  BY <1>1 DEF TryConnectDoes, FreeSlotIsOffered, ClosingOwed
<1>7. NoLostWakeup'
  BY <1>1, <1>5 DEF TryConnectDoes, NoLostWakeup, TimerOwed
<1> QED BY <1>2, <1>3, <1>4, <1>5, <1>6, <1>7 DEF IInv

LEMMA OnTimeoutEndsIInv ==
    ASSUME IInv, OnTimeoutEnds
    PROVE  IInv'
<1> USE MaxTicketsAssumption, LimitsAssumption, NoTicketAssumption
<1> DEFINE armed == IF rearm = NoTicket THEN timer ELSE rearm
<1>0. todo = {} /\ running = "timing"
  BY DEF OnTimeoutEnds
<1>1. TryConnectDoes(armed)
  <2>1. armed \in started \cup {NoTicket} /\ UNCHANGED <<queue, limit>> /\ TryConnect(armed)
    BY DEF IInv, TypeOK, OnTimeoutEnds, Rearmed
  <2> QED BY <1>0, <2>1, TryConnectEffect DEF IInv
<1>2. TypeOK'
  BY <1>1 DEF TryConnectDoes, IInv, TypeOK, OnTimeoutEnds, callbacks, Issued, Connecting
<1>3. CheckInvariant'
  BY <1>1 DEF TryConnectDoes, CheckInvariant
<1>4. Held'
  BY <1>0, <1>1 DEF TryConnectDoes, IInv, TypeOK, Held, OnTimeoutEnds, callbacks, Connecting
<1>5. TimerOwed'
  BY <1>0, <1>1 DEF TryConnectDoes, IInv, TypeOK, TimerOwed, OnTimeoutEnds
<1>6. FreeSlotIsOffered' /\ ClosingOwed'
  BY <1>1 DEF TryConnectDoes, FreeSlotIsOffered, ClosingOwed
<1>7. NoLostWakeup'
  BY <1>1, <1>5 DEF TryConnectDoes, NoLostWakeup, TimerOwed
<1> QED BY <1>2, <1>3, <1>4, <1>5, <1>6, <1>7 DEF IInv

LEMMA CallOnConnectIInv ==
    ASSUME IInv, NEW t \in Issued, CallOnConnect(t)
    PROVE  IInv'
<1> USE DEF CallOnConnect, entries, counters
<1>1. t \in todo /\ running = "connecting" /\ t \in Connecting
  BY DEF IInv, Held, First
<1>2. TypeOK'
  BY <1>1 DEF IInv, TypeOK, Issued, Connecting
<1>3. CheckInvariant'
  BY DEF IInv, CheckInvariant, Connecting
<1>4. Held'
  BY <1>1 DEF IInv, Held, Connecting
<1>5. TimerOwed' /\ FreeSlotIsOffered' /\ ClosingOwed' /\ NoLostWakeup'
  BY <1>1 DEF IInv, TimerOwed, FreeSlotIsOffered, FreeSlot, ClosingOwed, NoLostWakeup, Waiting
<1> QED BY <1>2, <1>3, <1>4, <1>5 DEF IInv

LEMMA ElapseIInv ==
    ASSUME IInv, NEW t \in Issued, Elapse(t)
    PROVE  IInv'
<1> USE DEF Elapse, counters, handlers, callbacks
<1>1. TypeOK'
  BY DEF IInv, TypeOK, Issued
<1>2. CheckInvariant' /\ Held' /\ TimerOwed'
  BY DEF IInv, CheckInvariant, Held, TimerOwed, Connecting
<1>3. FreeSlotIsOffered' /\ ClosingOwed' /\ NoLostWakeup'
  BY DEF IInv, FreeSlotIsOffered, FreeSlot, ClosingOwed, NoLostWakeup, Waiting
<1> QED BY <1>1, <1>2, <1>3 DEF IInv

LEMMA TimerFiresIInv ==
    ASSUME IInv, TimerFires
    PROVE  IInv'
<1> USE DEF TimerFires, entries, counters, callbacks
<1>1. fired' \in Nat /\ fired' > 0
  BY DEF IInv, TypeOK
<1>2. TypeOK'
  BY <1>1 DEF IInv, TypeOK, Issued
<1>3. CheckInvariant' /\ Held' /\ TimerOwed'
  BY <1>1 DEF IInv, CheckInvariant, Held, TimerOwed, Connecting
<1>4. FreeSlotIsOffered' /\ ClosingOwed' /\ NoLostWakeup'
  BY <1>1 DEF IInv, FreeSlotIsOffered, FreeSlot, ClosingOwed, NoLostWakeup, Waiting
<1> QED BY <1>2, <1>3, <1>4 DEF IInv

LEMMA OnTimeoutIInv ==
    ASSUME IInv, OnTimeout
    PROVE  IInv'
<1> USE MaxTicketsAssumption, NoTicketAssumption
<1> DEFINE late == Connecting \cap due
<1>0. /\ running = "idle" /\ todo = {} /\ queue' = queue \ late /\ num' = num - Cardinality(late)
      /\ todo' = late /\ running' = "timing" /\ fired' = fired - 1 /\ fired > 0
      /\ IF Connecting = late THEN rearm' = NoTicket ELSE rearm' \in Connecting \ late
  BY DEF OnTimeout, IInv, Held, Idle
<1>1. /\ Connecting \in SUBSET Issued /\ IsFiniteSet(Connecting)
      /\ Cardinality(Connecting) \in Nat
  <2>1. Connecting \in SUBSET Issued
    BY DEF IInv, TypeOK, Connecting
  <2> QED BY <2>1, IssuedFinite DEF IInv
<1>2. Connecting' = Connecting \ late
  BY <1>0 DEF Connecting, OnTimeout
<1>3. num' \in Nat /\ num' = Cardinality(Connecting')
  <2>1. IsFiniteSet(late) /\ Cardinality(late) \in Nat
    <3>1. late \in SUBSET Issued
      BY <1>1
    <3> QED BY <3>1, IssuedFinite DEF IInv
  <2>2. IsFiniteSet(Connecting \ late) /\ Cardinality(Connecting \ late) \in Nat
    <3>1. Connecting \ late \in SUBSET Issued
      BY <1>1
    <3> QED BY <3>1, IssuedFinite DEF IInv
  <2>3. Connecting \cap late = late
    OBVIOUS
  <2>4. Cardinality(Connecting \ late) = Cardinality(Connecting) - Cardinality(Connecting \cap late)
    BY <1>1, <2>1, FS_Difference
  <2> QED BY <1>0, <1>2, <2>1, <2>2, <2>3, <2>4 DEF IInv, CheckInvariant
<1>4. rearm' \in started \cup {NoTicket} /\ late \subseteq queue \cap started
  <2>1. Connecting \subseteq queue \cap started
    BY DEF Connecting
  <2> QED BY <1>0, <2>1
<1>5. TypeOK'
  <2>1. fired' \in Nat
    BY <1>0 DEF IInv, TypeOK
  <2>2. queue' \subseteq Issued /\ todo' \subseteq Issued
    BY <1>0, <1>4 DEF IInv, TypeOK
  <2>3. Issued' = Issued /\ started' = started
    BY DEF OnTimeout, Issued
  <2>4. rearm' \in started' \cup {NoTicket}
    BY <1>4, <2>3
  <2>5. running' \in {"idle", "connecting", "timing", "closing"}
    BY <1>0
  <2> QED BY <1>3, <2>1, <2>2, <2>3, <2>4, <2>5 DEF IInv, TypeOK, OnTimeout, callbacks
<1>6. CheckInvariant'
  BY <1>3 DEF CheckInvariant
<1>7. Held'
  BY <1>0, <1>4 DEF IInv, Held, OnTimeout, callbacks
<1>8. TimerOwed'
  <2>1. num' > 0 => Connecting # late
    BY <1>2, <1>3, FS_EmptySet
  <2>2. Connecting # late => rearm' # NoTicket
    <3>1. Connecting \subseteq Nat
      BY <1>1 DEF Issued, IInv, TypeOK
    <3> QED BY <1>0, <3>1
  <2> QED BY <1>0, <2>1, <2>2 DEF TimerOwed
<1>9. FreeSlotIsOffered' /\ ClosingOwed' /\ NoLostWakeup'
  BY <1>0 DEF FreeSlotIsOffered, ClosingOwed, NoLostWakeup
<1> QED BY <1>5, <1>6, <1>7, <1>8, <1>9 DEF IInv

LEMMA CallOnTimeoutIInv ==
    ASSUME IInv, NEW t \in Issued, CallOnTimeout(t)
    PROVE  IInv'
<1> USE DEF CallOnTimeout, entries, counters
<1>1. t \in todo /\ running \in {"timing", "closing"}
  BY DEF First
<1>2. TypeOK'
  BY DEF IInv, TypeOK, Issued
<1>3. CheckInvariant'
  BY DEF IInv, CheckInvariant, Connecting
<1>4. Held'
  BY <1>1 DEF IInv, Held, Connecting
<1>5. TimerOwed'
  BY <1>1 DEF IInv, TimerOwed
<1>6. FreeSlotIsOffered' /\ ClosingOwed' /\ NoLostWakeup'
  BY <1>1 DEF IInv, FreeSlotIsOffered, FreeSlot, ClosingOwed, NoLostWakeup, Waiting
<1> QED BY <1>2, <1>3, <1>4, <1>5, <1>6 DEF IInv

LEMMA CloseIInv ==
    ASSUME IInv, Close
    PROVE  IInv'
<1> USE DEF Close, CancelledIfIdle
<1>0. running = "idle" /\ todo = {} /\ ~abort
  BY DEF IInv, Held, Idle
<1>1. TypeOK'
  BY DEF IInv, TypeOK, callbacks, Issued
<1>2. Connecting' = {} /\ Waiting' = {}
  BY DEF Connecting, Waiting
<1>3. CheckInvariant'
  BY <1>2, FS_EmptySet DEF CheckInvariant
<1>4. Held'
  BY <1>0 DEF IInv, Held, callbacks
<1>5. TimerOwed' /\ NoLostWakeup' /\ FreeSlotIsOffered'
  BY <1>2 DEF TimerOwed, NoLostWakeup, FreeSlotIsOffered
<1>6. ClosingOwed'
  <2>1. todo' \cap started' = Connecting /\ Waiting' \cup (todo' \ started') = Waiting
    BY <1>2 DEF Connecting, Waiting
  <2>2. num > 0 <=> Connecting # {}
    BY NumPositive DEF IInv
  <2>3. num > 0 => timer # NoTicket \/ fired > 0
    BY <1>0 DEF IInv, TimerOwed
  <2>4. Waiting # {} /\ num = 0 => posted > 0 \/ fired > 0
    BY <1>0, FreeSlots DEF IInv, FreeSlotIsOffered, Idle
  <2>5. num > 0 \/ num = 0
    BY DEF IInv, TypeOK
  <2> QED BY <2>1, <2>2, <2>3, <2>4, <2>5 DEF ClosingOwed
<1> QED BY <1>1, <1>3, <1>4, <1>5, <1>6 DEF IInv

LEMMA RequeueIInv ==
    ASSUME IInv, NEW t \in Issued, Requeue(t)
    PROVE  IInv'
<1> USE MaxTicketsAssumption DEF Requeue, Slot
<1>0. running = "closing" /\ t \in todo /\ t \notin queue
  BY DEF IInv, Held, First
<1>1. t \in Tickets
  BY DEF IInv, TypeOK, Issued, Tickets
<1>2. /\ Connecting \in SUBSET Issued /\ IsFiniteSet(Connecting)
      /\ Cardinality(Connecting) \in Nat
  <2>1. Connecting \in SUBSET Issued
    BY DEF IInv, TypeOK, Connecting
  <2> QED BY <2>1, IssuedFinite DEF IInv
<1>3. /\ t \in started => Connecting' = Connecting \cup {t} /\ Waiting' = Waiting
      /\ t \notin started => Connecting' = Connecting /\ Waiting' = Waiting \cup {t}
      /\ t \notin Connecting
  BY <1>0 DEF Connecting, Waiting
<1>4. num' \in Nat /\ num' = Cardinality(Connecting')
  BY <1>2, <1>3, FS_AddElement DEF IInv, TypeOK, CheckInvariant
<1>5. TypeOK'
  BY <1>0, <1>1, <1>4 DEF IInv, TypeOK, callbacks, Issued
<1>6. CheckInvariant'
  BY <1>4 DEF CheckInvariant
<1>7. Held'
  BY <1>0 DEF IInv, Held, callbacks
<1>8. TimerOwed'
  BY <1>0 DEF IInv, TypeOK, TimerOwed, ClosingOwed
<1>9. FreeSlotIsOffered'
  BY <1>0 DEF IInv, ClosingOwed, FreeSlotIsOffered
<1>10. ClosingOwed' /\ NoLostWakeup'
  BY <1>0, <1>3 DEF IInv, ClosingOwed, NoLostWakeup
<1> QED BY <1>5, <1>6, <1>7, <1>8, <1>9, <1>10 DEF IInv

----------------------------------------------------------------------------

\* The invariant is inductive: one lemma per action.
LEMMA NextIInv == IInv /\ [Next]_vars => IInv'
<1> SUFFICES ASSUME IInv, [Next]_vars PROVE IInv'
  OBVIOUS
<1>1. CASE User
  BY <1>1, EnqueueIInv, DoneIInv, SetLimitIInv, CloseIInv DEF User
<1>2. CASE System
  BY <1>2, OnTryConnectIInv, CallOnConnectIInv, CallOnTimeoutIInv, RequeueIInv,
     TimerFiresIInv, OnTimeoutIInv, OnTimeoutEndsIInv DEF System
<1>3. ASSUME NEW t \in Issued, Elapse(t) PROVE IInv'
  BY <1>3, ElapseIInv
<1>4. CASE UNCHANGED vars
  BY <1>4 DEF IInv, TypeOK, CheckInvariant, Held, TimerOwed, FreeSlotIsOffered, FreeSlot,
     ClosingOwed, NoLostWakeup, Connecting, Waiting, Issued, vars, entries, counters, handlers, callbacks
<1> QED BY <1>1, <1>2, <1>3, <1>4 DEF Next

LEMMA Invariance == Spec => []IInv
BY InitIInv, NextIInv, PTL DEF Spec

\* Tickets, counters, timer and callback lists keep their types.
THEOREM TypeCorrect == Spec => []TypeOK
BY Invariance, PTL DEF IInv

\* The debug build's check_invariant() never fails: m_num_connecting is the
\* number of connecting entries at every point where a callback may re-enter.
THEOREM CheckInvariantHolds == Spec => []CheckInvariant
BY Invariance, PTL DEF IInv

\* Something is connecting only while a timer, its posted handler or a running
\* on_timeout() will see to it.
THEOREM TimerGuardsHolds == Spec => []TimerGuards
<1>1. IInv => TimerGuards
  BY DEF IInv, TimerOwed, TimerGuards
<1> QED BY <1>1, Invariance, PTL

\* A waiting attempt is never stranded, whatever limit() and close() do.
THEOREM NoLostWakeupHolds == Spec => []NoLostWakeup
BY Invariance, PTL DEF IInv

\* Before close() no attempt waits for a deadline while a slot is free.
THEOREM FreeSlotIsOfferedHolds == Spec => []FreeSlotIsOffered
BY Invariance, PTL DEF IInv

----------------------------------------------------------------------------

\* When one attempt's stage changes and no other's, the contract sees a move.
LEMMA StageMoves ==
    ASSUME NEW t \in Tickets, NEW from, NEW to,
           Stage(t) = from, Stage(t)' = to,
           \A u \in Tickets \ {t} : Stage(u)' = Stage(u)
    PROVE  Contract!Moves(t, from, to)
BY DEF Contract!Moves

\* Steps that touch neither the tickets issued nor the callbacks' record.
LEMMA StageStutters ==
    ASSUME UNCHANGED <<next, connectedCb, timeoutCb, settled>>
    PROVE  UNCHANGED [t \in Tickets |-> Stage(t)]
BY DEF Stage, Issued

\* The queue keeps the contract its header documents: every behaviour shows an
\* owner one of the three interleavings, and nothing after done().
THEOREM ContractHolds == Spec => ImplementsContract
<1> DEFINE st == [t \in Tickets |-> Stage(t)]
<1>1. Init => Contract!Init
  BY DEF Init, Contract!Init, Stage, Issued
<1>2. ASSUME IInv, Next PROVE [Contract!Next]_st
  <2> USE MaxTicketsAssumption
  <2>0. next \in Nat /\ Issued \subseteq Tickets
    BY <1>2 DEF IInv, TypeOK, Issued, Tickets
  <2>1. ASSUME NEW p \in Priorities, Enqueue(p) PROVE Contract!Next
    <3>1. next \in Tickets /\ next \notin Issued /\ Issued' = Issued \cup {next}
      BY <1>2, <2>1 DEF IInv, TypeOK, Enqueue, Tickets, Issued
    <3>2. next \notin timeoutCb /\ next \notin settled /\ next \notin connectedCb
      BY <1>2, <3>1 DEF IInv, TypeOK
    <3>3. Stage(next) = "none"
      BY <3>1 DEF Stage
    <3>4. \A u \in Tickets : Stage(u)' = IF u = next THEN "queued" ELSE Stage(u)
      BY <2>1, <3>1, <3>2 DEF Stage, Enqueue, callbacks
    <3>5. Contract!Moves(next, "none", "queued")
      BY <3>1, <3>3, <3>4 DEF Contract!Moves
    <3> QED BY <3>1, <3>5 DEF Contract!Next, Contract!Enqueue
  <2>2. ASSUME NEW t \in Issued, Done(t) PROVE Contract!Next
    <3>1. t \in connectedCb /\ t \notin timeoutCb /\ t \notin settled
      BY <1>2, <2>2 DEF IInv, Held, Done
    <3>2. Stage(t) = "connected" /\ Stage(t)' = "done"
      BY <2>2, <3>1 DEF Stage, Done, Issued
    <3>3. \A u \in Tickets \ {t} : Stage(u)' = Stage(u)
      BY <2>2 DEF Stage, Done, Issued
    <3>4. Contract!Moves(t, "connected", "done")
      BY <2>0, <3>2, <3>3, StageMoves
    <3> QED BY <2>0, <3>4 DEF Contract!Next, Contract!Done
  <2>3. ASSUME NEW t \in Issued, CallOnConnect(t) PROVE Contract!Next
    <3>1. t \notin connectedCb /\ t \notin timeoutCb /\ t \notin settled
      BY <1>2, <2>3 DEF IInv, Held, CallOnConnect, First, Connecting
    <3>2. Stage(t) = "queued" /\ Stage(t)' = "connected"
      BY <2>3, <3>1 DEF Stage, CallOnConnect, entries, Issued
    <3>3. \A u \in Tickets \ {t} : Stage(u)' = Stage(u)
      BY <2>3 DEF Stage, CallOnConnect, entries, Issued
    <3>4. Contract!Moves(t, "queued", "connected")
      BY <2>0, <3>2, <3>3, StageMoves
    <3> QED BY <2>0, <3>4 DEF Contract!Next, Contract!OnConnect
  <2>4. ASSUME NEW t \in Issued, CallOnTimeout(t) PROVE Contract!Next
    <3>1. t \notin timeoutCb /\ t \notin settled
      BY <1>2, <2>4 DEF IInv, Held, CallOnTimeout, First
    <3>2. Stage(t) \in {"queued", "connected"} /\ Stage(t)' = "timedout"
      BY <2>4, <3>1 DEF Stage, CallOnTimeout, entries, Issued
    <3>3. \A u \in Tickets \ {t} : Stage(u)' = Stage(u)
      BY <2>4 DEF Stage, CallOnTimeout, entries, Issued
    <3>4. Contract!Moves(t, "queued", "timedout") \/ Contract!Moves(t, "connected", "timedout")
      BY <2>0, <3>2, <3>3, StageMoves
    <3> QED BY <2>0, <3>4 DEF Contract!Next, Contract!OnTimeout
  <2>5. CASE UNCHANGED <<next, connectedCb, timeoutCb, settled>>
    BY <2>5, StageStutters
  <2>6. ASSUME NEW t \in Issued, Requeue(t) \/ Elapse(t)
        PROVE  UNCHANGED <<next, connectedCb, timeoutCb, settled>>
    BY <2>6 DEF Requeue, Elapse, callbacks
  <2>7. ASSUME NEW l \in Limits, SetLimit(l)
        PROVE  UNCHANGED <<next, connectedCb, timeoutCb, settled>>
    BY <2>7 DEF SetLimit, entries, callbacks
  <2>8. ASSUME Close \/ OnTryConnect \/ TimerFires \/ OnTimeout \/ OnTimeoutEnds
        PROVE  UNCHANGED <<next, connectedCb, timeoutCb, settled>>
    BY <2>8 DEF Close, OnTryConnect, TimerFires, OnTimeout, OnTimeoutEnds, entries, callbacks
  <2> QED BY <1>2, <2>1, <2>2, <2>3, <2>4, <2>5, <2>6, <2>7, <2>8 DEF Next, User, System
<1>3. ASSUME UNCHANGED vars PROVE UNCHANGED st
  BY <1>3, StageStutters DEF vars, entries, callbacks
<1>4. IInv /\ [Next]_vars => [Contract!Next]_st
  BY <1>2, <1>3
<1> QED BY <1>1, <1>4, Invariance, PTL DEF Spec, ImplementsContract, Contract!Spec

=============================================================================
