----------------------- MODULE BandwidthManager_proofs -----------------------
(***************************************************************************)
(* The invariants of BandwidthManager for any peers, channels, limits, sizes, *)
(* priorities and ticks: the bw_limit flags and the queue tell the same       *)
(* (IInv), the counter of queued bytes is exact, and no tick grants more than *)
(* its channels have (BInv).  Sums over the peers are reasoned about along    *)
(* their numbers, by the induction that follows.                             *)
(***************************************************************************)
EXTENDS BandwidthManager, FiniteSetTheorems, TLAPS

----------------------------------------------------------------------------
(* Induction, for a set instead of a predicate, and what follows from it           *)

\* a set with 0 that is closed under successors has all the naturals: otherwise, below one
\* it has not, adding 1 would map a finite set one to one into a smaller one
LEMMA Induction ==
  ASSUME NEW A, 0 \in A, \A n \in Nat : n \in A => n + 1 \in A
  PROVE  \A n \in Nat : n \in A
<1> SUFFICES ASSUME NEW N \in Nat, N \notin A
             PROVE  FALSE
  OBVIOUS
<1> DEFINE T == {n \in 0..N : n \in A}
           f == [n \in T |-> n + 1]
<1>1. IsFiniteSet(T) /\ 0 \in T
  <2>1. IsFiniteSet(0..N)
    BY FS_Interval
  <2>2. QED
    BY <2>1, FS_Subset
<1>2. f \in Injection(T, T \ {0})
  <2>1. \A n \in T : n + 1 \in T \ {0}
    OBVIOUS
  <2>2. \A m, n \in T : m + 1 = n + 1 => m = n
    OBVIOUS
  <2>3. QED
    BY <2>1, <2>2 DEF Injection, IsInjective
<1>3. /\ IsFiniteSet(T \ {0})
      /\ Cardinality(T \ {0}) = Cardinality(T) - 1
      /\ Cardinality(T) \in Nat
  <2> HIDE DEF T
  <2>1. QED
    BY <1>1, FS_RemoveElement, FS_CardinalityType
<1>4. Cardinality(T) <= Cardinality(T \ {0})
  <2> HIDE DEF T, f
  <2>1. QED
    BY <1>1, <1>2, <1>3, FS_Injection
<1>5. QED
  <2> HIDE DEF T
  <2>1. QED
    BY <1>3, <1>4

\* a set of naturals has a least element
LEMMA LeastNatural ==
  ASSUME NEW S \in SUBSET Nat, S # {}
  PROVE  \E n \in S : \A m \in S : n <= m
<1> SUFFICES ASSUME \A n \in S : \E m \in S : m < n
             PROVE  FALSE
  OBVIOUS
<1> DEFINE A == {n \in Nat : \A m \in S : n <= m}
<1>1. 0 \in A
  OBVIOUS
<1>2. \A n \in Nat : n \in A => n + 1 \in A
  <2>1. ASSUME NEW n \in A, NEW m \in S
        PROVE  n + 1 <= m
    BY <2>1
  <2>2. QED
    BY <2>1
<1>3. \A n \in Nat : n \in A
  <2> HIDE DEF A
  <2>1. QED
    BY <1>1, <1>2, Induction
<1>4. PICK m \in S : TRUE
  OBVIOUS
<1>5. QED
  BY <1>3, <1>4

----------------------------------------------------------------------------
(* Sums over the peers                                                            *)

\* the numbers a function sums up
Numeric(f) == \A p \in Peers : At(f, p) \in Int

\* the recursion of UpTo defines a function: partial sums of any length exist
LEMMA UpToRecursion ==
  ASSUME NEW f
  PROVE  UpTo(f) = [n \in 0..NumPeers |-> IF n = 0 THEN 0 ELSE UpTo(f)[n - 1] + At(f, n)]
<1> DEFINE Sums(g, n) == g = [i \in 0..n |-> IF i = 0 THEN 0 ELSE g[i - 1] + At(f, i)]
           A == {n \in Nat : \E g : Sums(g, n)}
<1>1. 0 \in A
  <2>1. Sums([i \in 0..0 |-> 0], 0)
    OBVIOUS
  <2>2. QED
    BY <2>1
<1>2. ASSUME NEW n \in Nat, n \in A
      PROVE  n + 1 \in A
  <2>1. PICK g : Sums(g, n)
    BY <1>2
  <2> DEFINE h == [i \in 0..(n + 1) |-> IF i = n + 1 THEN g[n] + At(f, n + 1) ELSE g[i]]
  <2>2. ASSUME NEW i \in 0..(n + 1)
        PROVE  h[i] = IF i = 0 THEN 0 ELSE h[i - 1] + At(f, i)
    <3>1. CASE i = 0
      BY <2>1, <3>1
    <3>2. CASE i \in 1..n
      BY <2>1, <3>2
    <3>3. CASE i = n + 1
      BY <3>3
    <3>4. QED
      BY <3>1, <3>2, <3>3
  <2>3. Sums(h, n + 1)
    BY <2>2
  <2>4. QED
    <3> HIDE DEF h, Sums
    <3>1. QED
      BY <2>3
<1>3. \A n \in Nat : n \in A
  <2> HIDE DEF A
  <2>1. QED
    BY <1>1, <1>2, Induction
<1>4. \E g : Sums(g, NumPeers)
  BY <1>3, PeersAssumption
<1>5. QED
  BY <1>4 DEF UpTo

\* the partial sums, one peer at a time
LEMMA UpToStep ==
  ASSUME NEW f
  PROVE  /\ UpTo(f)[0] = 0
         /\ \A n \in Nat : n + 1 \in Peers => UpTo(f)[n + 1] = UpTo(f)[n] + At(f, n + 1)
<1> DEFINE u == UpTo(f)
<1>1. u = [n \in 0..NumPeers |-> IF n = 0 THEN 0 ELSE u[n - 1] + At(f, n)]
  BY UpToRecursion
<1> HIDE DEF u
<1>2. u[0] = 0
  BY <1>1, PeersAssumption
<1>3. ASSUME NEW n \in Nat, n + 1 \in Peers
      PROVE  u[n + 1] = u[n] + At(f, n + 1)
  <2>1. n + 1 \in 0..NumPeers /\ n + 1 # 0 /\ (n + 1) - 1 = n
    BY <1>3, PeersAssumption DEF Peers
  <2>2. u[n + 1] = u[(n + 1) - 1] + At(f, n + 1)
    BY <1>1, <2>1
  <2>3. QED
    BY <2>1, <2>2
<1>4. QED
  BY <1>2, <1>3 DEF u

\* sums of integers are integers
LEMMA SumType ==
  ASSUME NEW f, Numeric(f)
  PROVE  /\ \A n \in 0..NumPeers : UpTo(f)[n] \in Int
         /\ Sum(f) \in Int
<1> DEFINE u == UpTo(f)
           A == {n \in Nat : n <= NumPeers => u[n] \in Int}
<1>1. u[0] = 0 /\ \A n \in Nat : n + 1 \in Peers => u[n + 1] = u[n] + At(f, n + 1)
  BY UpToStep
<1> HIDE DEF u
<1>2. 0 \in A
  BY <1>1
<1>3. ASSUME NEW n \in Nat, n \in A
      PROVE  n + 1 \in A
  BY <1>1, <1>3, PeersAssumption DEF Numeric, Peers
<1>4. \A n \in Nat : n \in A
  <2> HIDE DEF A
  <2>1. QED
    BY <1>2, <1>3, Induction
<1>5. \A n \in 0..NumPeers : u[n] \in Int
  BY <1>4, PeersAssumption
<1>6. QED
  BY <1>5, PeersAssumption DEF u, Sum

\* a product with a sum
LEMMA Distributes == \A k, a, b \in Int : k * (a + b) = k * a + k * b /\ k * a \in Int
  BY SMT

\* an inequality between terms is one between sums, multiples included
LEMMA SumLeq ==
  ASSUME NEW f, NEW g, Numeric(f), Numeric(g), NEW k \in Int, NEW m \in Int,
         \A p \in Peers : k * At(f, p) <= m * At(g, p)
  PROVE  k * Sum(f) <= m * Sum(g)
<1> DEFINE u == UpTo(f)
           v == UpTo(g)
           A == {n \in Nat : n <= NumPeers => k * u[n] <= m * v[n]}
<1>1. u[0] = 0 /\ \A n \in Nat : n + 1 \in Peers => u[n + 1] = u[n] + At(f, n + 1)
  BY UpToStep
<1>2. v[0] = 0 /\ \A n \in Nat : n + 1 \in Peers => v[n + 1] = v[n] + At(g, n + 1)
  BY UpToStep
<1>3. \A n \in 0..NumPeers : u[n] \in Int /\ v[n] \in Int
  BY SumType
<1> HIDE DEF u, v
<1>4. 0 \in A
  BY <1>1, <1>2
<1>5. ASSUME NEW n \in Nat, n \in A
      PROVE  n + 1 \in A
  <2> SUFFICES ASSUME n + 1 <= NumPeers
               PROVE  k * u[n + 1] <= m * v[n + 1]
    OBVIOUS
  <2>1. n + 1 \in Peers /\ n \in 0..NumPeers
    BY PeersAssumption DEF Peers
  <2>2. u[n] \in Int /\ v[n] \in Int /\ At(f, n + 1) \in Int /\ At(g, n + 1) \in Int
    BY <1>3, <2>1 DEF Numeric
  <2>3. /\ k * u[n + 1] = k * u[n] + k * At(f, n + 1)
        /\ m * v[n + 1] = m * v[n] + m * At(g, n + 1)
    BY <1>1, <1>2, <2>1, <2>2, Distributes
  <2>4. k * u[n] <= m * v[n] /\ k * At(f, n + 1) <= m * At(g, n + 1)
    BY <1>5, <2>1, PeersAssumption
  <2>5. /\ k * u[n] \in Int /\ k * At(f, n + 1) \in Int
        /\ m * v[n] \in Int /\ m * At(g, n + 1) \in Int
    BY <2>2, Distributes
  <2>6. \A a, b, c, d \in Int : a <= c /\ b <= d => a + b <= c + d
    OBVIOUS
  <2>7. QED
    BY <2>3, <2>4, <2>5, <2>6
<1>6. \A n \in Nat : n \in A
  <2> HIDE DEF A
  <2>1. QED
    BY <1>4, <1>5, Induction
<1>7. QED
  BY <1>6, PeersAssumption DEF u, v, Sum

\* what is not negative anywhere is not negative in sum
LEMMA SumNonneg ==
  ASSUME NEW f, \A p \in Peers : At(f, p) \in Nat
  PROVE  Sum(f) \in Nat
<1>1. Numeric(f)
  BY DEF Numeric
<1>2. 0 * Sum(f) <= 1 * Sum(f)
  <2>1. \A p \in Peers : 0 * At(f, p) <= 1 * At(f, p)
    OBVIOUS
  <2>2. QED
    BY <1>1, <2>1, SumLeq
<1>3. Sum(f) \in Int
  BY <1>1, SumType
<1>4. QED
  BY <1>2, <1>3

\* the difference of two sums, term by term
LEMMA SumMinus ==
  ASSUME NEW f, NEW g, NEW h, Numeric(f), Numeric(g),
         \A p \in Peers : At(h, p) = At(f, p) - At(g, p)
  PROVE  Sum(h) = Sum(f) - Sum(g)
<1> DEFINE u == UpTo(f)
           v == UpTo(g)
           w == UpTo(h)
           A == {n \in Nat : n <= NumPeers => w[n] = u[n] - v[n]}
<1>1. u[0] = 0 /\ \A n \in Nat : n + 1 \in Peers => u[n + 1] = u[n] + At(f, n + 1)
  BY UpToStep
<1>2. v[0] = 0 /\ \A n \in Nat : n + 1 \in Peers => v[n + 1] = v[n] + At(g, n + 1)
  BY UpToStep
<1>3. w[0] = 0 /\ \A n \in Nat : n + 1 \in Peers => w[n + 1] = w[n] + At(h, n + 1)
  BY UpToStep
<1>4. \A n \in 0..NumPeers : u[n] \in Int /\ v[n] \in Int
  BY SumType
<1> HIDE DEF u, v, w
<1>5. 0 \in A
  BY <1>1, <1>2, <1>3
<1>6. ASSUME NEW n \in Nat, n \in A
      PROVE  n + 1 \in A
  <2> SUFFICES ASSUME n + 1 <= NumPeers
               PROVE  w[n + 1] = u[n + 1] - v[n + 1]
    OBVIOUS
  <2>1. n + 1 \in Peers /\ n \in 0..NumPeers
    BY PeersAssumption DEF Peers
  <2>2. w[n] = u[n] - v[n]
    BY <1>6, <2>1, PeersAssumption
  <2>3. u[n] \in Int /\ v[n] \in Int /\ At(f, n + 1) \in Int /\ At(g, n + 1) \in Int
    BY <1>4, <2>1 DEF Numeric
  <2>4. QED
    BY <1>1, <1>2, <1>3, <2>1, <2>2, <2>3
<1>7. \A n \in Nat : n \in A
  <2> HIDE DEF A
  <2>1. QED
    BY <1>5, <1>6, Induction
<1>8. QED
  BY <1>7, PeersAssumption DEF u, v, w, Sum

\* a sum of nothing but one term
LEMMA SumSingle ==
  ASSUME NEW f, NEW p \in Peers, NEW a \in Int,
         \A q \in Peers : At(f, q) = IF q = p THEN a ELSE 0
  PROVE  Sum(f) = a
<1> DEFINE u == UpTo(f)
           A == {n \in Nat : n <= NumPeers => u[n] = IF p <= n THEN a ELSE 0}
<1>1. u[0] = 0 /\ \A n \in Nat : n + 1 \in Peers => u[n + 1] = u[n] + At(f, n + 1)
  BY UpToStep
<1> HIDE DEF u
<1>2. 0 \in A
  BY <1>1 DEF Peers
<1>3. ASSUME NEW n \in Nat, n \in A
      PROVE  n + 1 \in A
  <2> SUFFICES ASSUME n + 1 <= NumPeers
               PROVE  u[n + 1] = IF p <= n + 1 THEN a ELSE 0
    OBVIOUS
  <2>1. n + 1 \in Peers /\ p \in Nat
    BY PeersAssumption DEF Peers
  <2>2. u[n] = IF p <= n THEN a ELSE 0
    BY <1>3, PeersAssumption
  <2>3. At(f, n + 1) = IF n + 1 = p THEN a ELSE 0
    BY <2>1
  <2>4. QED
    BY <1>1, <2>1, <2>2, <2>3
<1>4. \A n \in Nat : n \in A
  <2> HIDE DEF A
  <2>1. QED
    BY <1>2, <1>3, Induction
<1>5. QED
  BY <1>4, PeersAssumption DEF u, Sum, Peers

\* what the flags need besides: quotas are kept for peers
IInv ==
    /\ FlaggedIffQueued
    /\ limited \subseteq Peers
    /\ quota = [p \in Peers |-> quota[p]]

\* nobody is queued in an empty queue
LEMMA EmptyQueue == DOMAIN <<>> = {}
  BY SMT

LEMMA InitIInv == Init => IInv
  BY EmptyQueue DEF Init, IInv, FlaggedIffQueued

\* setup_receive() of a peer that does not wait: it begins to wait only without quota,
\* and then it is flagged, queued and reads nothing
LEMMA SetupIInv ==
  ASSUME IInv, NEW p \in Peers, NEW left, p \notin limited, Setup(p, left),
         disconnecting' = disconnecting
  PROVE  IInv'
<1>1. CASE /\ quota' = [quota EXCEPT ![p] = left]
           /\ Reading(p)
           /\ UNCHANGED <<queue, queuedBytes, limited>>
  BY <1>1 DEF IInv, FlaggedIffQueued, Reading
<1>2. CASE /\ Throttled(p) # {}
           /\ \E size \in Sizes, prio \in Prios : Queued(p, size, prio)
           /\ limited' = limited \union {p}
           /\ quota' = [quota EXCEPT ![p] = 0]
           /\ network' = network \ {p}
  <2>1. DOMAIN queue' = {p} \union DOMAIN queue
    BY <1>2, Zenon DEF Queued
  <2>2. QED
    BY <1>2, <2>1 DEF IInv, FlaggedIffQueued
<1>3. CASE /\ \E size \in Sizes : quota' = [quota EXCEPT ![p] = size]
           /\ Reading(p)
           /\ UNCHANGED <<queue, queuedBytes, limited>>
  BY <1>3 DEF IInv, FlaggedIffQueued, Reading
<1>4. QED
  BY <1>1, <1>2, <1>3, Zenon DEF Setup

LEMMA SetupReceiveIInv ==
  ASSUME IInv, NEW p \in Peers, SetupReceive(p)
  PROVE  IInv'
  BY SetupIInv DEF SetupReceive

\* a peer that reads is not flagged, so it may ask again
LEMMA OnReceiveDataIInv ==
  ASSUME IInv, NEW p \in Peers, NEW n \in 0..quota[p], OnReceiveData(p, n)
  PROVE  IInv'
<1>1. p \in network /\ p \notin limited
  BY DEF OnReceiveData, IInv, FlaggedIffQueued
<1>2. CASE Setup(p, quota[p] - n) /\ UNCHANGED disconnecting
  BY <1>1, <1>2, SetupIInv
<1>3. CASE /\ quota' = [quota EXCEPT ![p] = quota[p] - n]
           /\ network' = network \ {p}
           /\ disconnecting' = disconnecting \union {p}
           /\ UNCHANGED <<queue, queuedBytes, limited>>
  BY <1>1, <1>3 DEF IInv, FlaggedIffQueued
<1>4. QED
  BY <1>2, <1>3, Zenon DEF OnReceiveData

\* a disconnecting peer keeps its flag and its place until the next tick
LEMMA DisconnectIInv ==
  ASSUME IInv, NEW p \in Peers, Disconnect(p)
  PROVE  IInv'
  BY DEF Disconnect, IInv, FlaggedIffQueued

\* those who are served lose the flag and the place together, the disconnecting ones only
\* the place; nobody else's quota changes
LEMMA TickIInv ==
  ASSUME IInv, NEW ms \in Ticks, Tick(ms)
  PROVE  IInv'
<1>1. PICK left, share : Grant(left, share, Served(share))
  BY Zenon DEF Tick
<1>2. UNCHANGED disconnecting
  BY DEF Tick
<1> DEFINE served == Served(share)
<1>3. served \subseteq Asking
  BY DEF Served
<1>4. /\ DOMAIN queue' = Asking \ served
      /\ quota' = [p \in Peers |-> IF p \in served THEN quota[p] + queue[p].assigned + share[p]
                                   ELSE quota[p]]
      /\ limited' = limited \ served
      /\ \E R \in SUBSET served : network' = network \union R
  BY <1>1 DEF Grant
<1>5. QED
  <2> HIDE DEF served
  <2>1. DOMAIN queue' \subseteq limited' /\ limited' \ disconnecting' \subseteq DOMAIN queue'
    BY <1>2, <1>4 DEF IInv, FlaggedIffQueued, Asking
  <2>2. ASSUME NEW p \in limited'
        PROVE  quota'[p] = 0 /\ p \notin network'
    BY <1>4, <2>2 DEF IInv, FlaggedIffQueued
  <2>3. quota' = [p \in Peers |-> quota'[p]] /\ limited' \subseteq Peers
    BY <1>4 DEF IInv
  <2>4. QED
    BY <2>1, <2>2, <2>3, Zenon DEF IInv, FlaggedIffQueued

\* everybody is disconnecting when the queue is cleared
LEMMA CloseIInv ==
  ASSUME IInv, Close
  PROVE  IInv'
  BY EmptyQueue DEF Close, IInv, FlaggedIffQueued, channels

\* limits and overhead move neither flags nor requests
LEMMA ChannelIInv ==
  ASSUME IInv, UNCHANGED <<queue, peers>>
  PROVE  IInv'
  BY DEF IInv, FlaggedIffQueued, peers

LEMMA NextIInv == IInv /\ [Next]_vars => IInv'
<1> SUFFICES ASSUME IInv, [Next]_vars PROVE IInv'
  OBVIOUS
<1>1. CASE \E p \in Peers : Peer(p)
  BY <1>1, SetupReceiveIInv, OnReceiveDataIInv, DisconnectIInv, Zenon DEF Peer
<1>2. CASE \E ms \in Ticks : Tick(ms)
  BY <1>2, TickIInv
<1>3. CASE \E c \in Channels : \/ \E n \in 1..MaxOverhead : UseQuota(c, n)
                               \/ \E l \in Limits[c] : Throttle(c, l)
  BY <1>3, ChannelIInv, Zenon DEF UseQuota, Throttle
<1>4. CASE Close
  BY <1>4, CloseIInv
<1>5. CASE UNCHANGED vars
  BY <1>5, ChannelIInv, Zenon DEF vars
<1>6. QED
  BY <1>1, <1>2, <1>3, <1>4, <1>5, Zenon DEF Next

(* A queued peer is flagged, has no quota and reads nothing, and a flagged peer is queued    *)
(* or disconnecting: request_bandwidth() never meets a peer that is queued already, and     *)
(* assign_bandwidth() always finds the flag it clears.                                    *)
THEOREM FlagsMatchQueue == Spec => []FlaggedIffQueued
<1>1. IInv => FlaggedIffQueued
  BY DEF IInv
<1>2. QED
  BY InitIInv, NextIInv, <1>1, PTL DEF Spec

----------------------------------------------------------------------------
(* How much a tick grants                                                         *)

LEMMA MinLeast ==
  ASSUME NEW S \in SUBSET Nat, S # {}
  PROVE  Min(S) \in S /\ \A m \in S : Min(S) <= m
  BY LeastNatural, Zenon DEF Min

LEMMA MinPair == \A a, b \in Int : Min({a, b}) = IF a <= b THEN a ELSE b
<1> TAKE a, b \in Int
<1>1. \E x \in {a, b} : \A y \in {a, b} : x <= y
  OBVIOUS
<1>2. Min({a, b}) \in {a, b} /\ \A y \in {a, b} : Min({a, b}) <= y
  BY <1>1, Zenon DEF Min
<1>3. QED
  BY <1>2

LEMMA MaxZero == \A a \in Int : Max({a, 0}) = IF a >= 0 THEN a ELSE 0
<1> TAKE a \in Int
<1>1. \E x \in {a, 0} : \A y \in {a, 0} : x >= y
  OBVIOUS
<1>2. Max({a, 0}) \in {a, 0} /\ \A y \in {a, 0} : Max({a, 0}) >= y
  BY <1>1, Zenon DEF Max
<1>3. QED
  BY <1>2

LEMMA Quotient == \A a \in Nat, b \in Nat \ {0} : a \div b \in Nat /\ b * (a \div b) <= a
  BY SMT

\* the state an update of the quotas starts from
Requesting == \A p \in DOMAIN queue : queue[p] \in Requests /\ queue[p].assigned <= queue[p].size

StateOK ==
    /\ limit \in [Channels -> Nat]
    /\ quotaLeft \in [Channels -> Int]
    /\ overhead \in [Channels -> 0..MaxOverhead]
    /\ DOMAIN queue \subseteq Peers
    /\ Requesting

LEMMA RequestFields ==
  ASSUME StateOK, NEW p \in DOMAIN queue
  PROVE  /\ queue[p].size \in Nat \ {0} /\ queue[p].prio \in Nat \ {0}
         /\ queue[p].assigned \in Nat /\ queue[p].assigned <= queue[p].size
         /\ queue[p].ttl \in 0..Ttl /\ queue[p].chans \subseteq Channels
         /\ Missing(p) \in Nat /\ Missing(p) <= queue[p].size
<1>1. queue[p] \in Requests /\ queue[p].assigned <= queue[p].size
  BY DEF StateOK, Requesting
<1>2. /\ queue[p].size \in Nat \ {0} /\ queue[p].prio \in Nat \ {0}
      /\ queue[p].assigned \in Nat /\ queue[p].ttl \in 0..Ttl /\ queue[p].chans \subseteq Channels
  BY <1>1, SizesAssumption, PriosAssumption DEF Requests
<1>3. QED
  BY <1>1, <1>2 DEF Missing

\* what At reads of a function over some of the peers
LEMMA AtFunction ==
  ASSUME NEW S, NEW e, e = [p \in S |-> e[p]]
  PROVE  \A p : At(e, p) = IF p \in S THEN e[p] ELSE 0
  BY DEF At

\* a channel somebody waits for has weight
LEMMA WeightPositive ==
  ASSUME StateOK, NEW c \in Channels, NEW p \in InChannel(c, Asking)
  PROVE  Weight(c) \in Nat \ {0}
<1> DEFINE S == InChannel(c, Asking)
           f == [q \in S |-> queue[q].prio]
           g == [q \in {p} |-> queue[p].prio]
<1>1. S \subseteq DOMAIN queue /\ S \subseteq Peers /\ p \in S
  BY DEF InChannel, Asking, StateOK
<1>2. \A q \in S : queue[q].prio \in Nat \ {0}
  BY <1>1, RequestFields
<1>3. \A q \in Peers : At(f, q) = IF q \in S THEN queue[q].prio ELSE 0
  BY DEF At
<1>4. \A q \in Peers : At(g, q) = IF q = p THEN queue[p].prio ELSE 0
  BY DEF At
<1> HIDE DEF f, g
<1>5. (\A q \in Peers : At(f, q) \in Nat) /\ Numeric(f) /\ Numeric(g)
  <2> HIDE DEF S
  <2>1. QED
    BY <1>1, <1>2, <1>3, <1>4 DEF Numeric
<1>6. Sum(g) = queue[p].prio
  <2>1. queue[p].prio \in Int /\ p \in Peers
    BY <1>1, <1>2
  <2>2. QED
    BY <2>1, <1>4, SumSingle
<1>7. 1 * Sum(g) <= 1 * Sum(f)
  <2>1. \A q \in Peers : 1 * At(g, q) <= 1 * At(f, q)
    <3> HIDE DEF S
    <3>1. QED
      BY <1>1, <1>2, <1>3, <1>4
  <2>2. QED
    BY <1>5, <2>1, SumLeq
<1>8. Sum(f) \in Nat /\ Weight(c) = Sum(f)
  BY <1>5, SumNonneg DEF Weight, f
<1>9. QED
  BY <1>1, <1>2, <1>6, <1>7, <1>8

\* a share is at most what the request misses and what each limited channel of it grants
LEMMA ShareBounds ==
  ASSUME StateOK, NEW left \in [Channels -> Int], NEW p \in Asking
  PROVE  /\ Share(p, left) \in Nat
         /\ Share(p, left) <= Missing(p)
         /\ \A c \in queue[p].chans : limit[c] > 0 =>
              /\ Weight(c) \in Nat \ {0}
              /\ Weight(c) * Share(p, left) <= Max({left[c], 0}) * queue[p].prio
<1> DEFINE C == {d \in queue[p].chans : limit[d] > 0}
           part(c) == Part(p, Max({left[c], 0}), Weight(c))
           S == {Missing(p)} \union {part(c) : c \in C}
<1>1. p \in DOMAIN queue /\ Missing(p) \in Nat /\ queue[p].prio \in Nat /\ C \subseteq Channels
  BY RequestFields DEF Asking
<1>2. ASSUME NEW c \in C
      PROVE  /\ Weight(c) \in Nat \ {0}
             /\ part(c) \in Nat
             /\ Weight(c) * part(c) <= Max({left[c], 0}) * queue[p].prio
  <2>1. Weight(c) \in Nat \ {0}
    BY <1>1, WeightPositive DEF InChannel
  <2>2. Max({left[c], 0}) \in Nat
    BY <1>1, MaxZero
  <2>3. Max({left[c], 0}) * queue[p].prio \in Nat
    <3>1. \A a, b \in Nat : a * b \in Nat
      OBVIOUS
    <3>2. QED
      BY <1>1, <2>2, <3>1
  <2>4. QED
    BY <2>1, <2>3, Quotient DEF Part
<1>3. S \in SUBSET Nat /\ S # {}
  BY <1>1, <1>2, Zenon
<1>4. Share(p, left) \in S /\ \A m \in S : Share(p, left) <= m
  <2>1. Share(p, left) = Min(S)
    BY Zenon DEF Share
  <2> HIDE DEF S
  <2>2. QED
    BY <1>3, <2>1, MinLeast
<1>5. Share(p, left) \in Nat /\ Share(p, left) <= Missing(p)
  BY <1>3, <1>4, Zenon
<1>6. ASSUME NEW c \in C
      PROVE  Weight(c) * Share(p, left) <= Max({left[c], 0}) * queue[p].prio
  <2>1. Share(p, left) <= part(c)
    BY <1>4, Zenon
  <2>2. \A w, a, b, m \in Int : w >= 0 /\ a <= b /\ w * b <= m => w * a <= m
    BY SMT
  <2>3. Max({left[c], 0}) \in Nat
    BY <1>1, MaxZero
  <2>4. Max({left[c], 0}) * queue[p].prio \in Int
    BY <1>1, <2>3, Distributes
  <2>5. QED
    <3> HIDE DEF part, C
    <3>1. QED
      BY <1>2, <1>5, <2>1, <2>2, <2>4
<1>7. QED
  BY <1>2, <1>5, <1>6

LEMMA SumZero ==
  ASSUME NEW f, \A p \in Peers : At(f, p) = 0
  PROVE  Sum(f) = 0
<1>1. Numeric(f) /\ \A p \in Peers : At(f, p) = At(f, p) - At(f, p)
  BY DEF Numeric
<1>2. Sum(f) = Sum(f) - Sum(f) /\ Sum(f) \in Int
  BY <1>1, SumMinus, SumType
<1>3. QED
  BY <1>2

\* what a channel is charged for a tick is at most what it had
LEMMA ChargedBound ==
  ASSUME StateOK, NEW left \in [Channels -> Int], NEW share,
         \A p \in Asking : share[p] = Share(p, left),
         NEW c \in Channels
  PROVE  Charged(c, share) \in Nat /\ Charged(c, share) <= Max({left[c], 0})
<1> DEFINE S == InChannel(c, Asking)
           D == Max({left[c], 0})
           f == [p \in S |-> share[p]]
           g == [p \in S |-> queue[p].prio]
<1>1. D \in Nat
  BY MaxZero
<1>2. CASE limit[c] = 0
  BY <1>1, <1>2 DEF Charged
<1>3. CASE limit[c] # 0
  <2>1. limit[c] > 0 /\ Charged(c, share) = Sum(f) /\ Weight(c) = Sum(g)
    BY <1>3 DEF Charged, Weight, StateOK
  <2>2. ASSUME NEW p \in S
        PROVE  /\ p \in Peers /\ Weight(c) \in Nat \ {0} /\ queue[p].prio \in Nat
               /\ share[p] \in Nat /\ Weight(c) * share[p] <= D * queue[p].prio
    <3>1. p \in Asking /\ c \in queue[p].chans
      BY DEF InChannel
    <3>2. p \in DOMAIN queue /\ p \in Peers
      BY <3>1 DEF Asking, StateOK
    <3>3. share[p] = Share(p, left)
      BY <3>1
    <3>4. queue[p].prio \in Nat
      BY <3>2, RequestFields
    <3>5. QED
      BY <2>1, <3>1, <3>2, <3>3, <3>4, ShareBounds, Zenon
  <2>3. \A p \in Peers : /\ At(f, p) = IF p \in S THEN share[p] ELSE 0
                         /\ At(g, p) = IF p \in S THEN queue[p].prio ELSE 0
    BY DEF At
  <2> HIDE DEF S, D, f, g
  <2>4. \A p \in Peers : At(f, p) \in Nat /\ At(g, p) \in Nat
    BY <2>2, <2>3
  <2>5. Numeric(f) /\ Numeric(g) /\ Sum(f) \in Nat /\ Sum(g) \in Nat
    BY <2>4, SumNonneg DEF Numeric
  <2>6. CASE S = {}
    <3>1. \A p \in Peers : At(f, p) = 0
      BY <2>3, <2>6
    <3>2. QED
      BY <1>1, <2>1, <3>1, SumZero DEF D
  <2>7. CASE S # {}
    <3>1. Weight(c) \in Nat \ {0}
      BY <2>2, <2>7
    <3>2. \A p \in Peers : Weight(c) * At(f, p) <= D * At(g, p)
      <4> TAKE p \in Peers
      <4>1. CASE p \in S
        BY <2>2, <2>3, <4>1
      <4>2. CASE p \notin S
        <5>1. At(f, p) = 0 /\ At(g, p) = 0
          BY <2>3, <4>2
        <5>2. QED
          BY <1>1, <3>1, <5>1
      <4>3. QED
        BY <4>1, <4>2
    <3>3. Weight(c) * Sum(f) <= D * Weight(c)
      <4>1. Weight(c) \in Int /\ D \in Int
        BY <1>1, <3>1
      <4>2. Weight(c) * Sum(f) <= D * Sum(g)
        BY <2>5, <3>2, <4>1, SumLeq, Zenon
      <4>3. QED
        BY <2>1, <4>2, Zenon
    <3>4. \A w \in Nat \ {0}, a, b \in Nat : w * a <= b * w => a <= b
      <4> TAKE w \in Nat \ {0}, a, b \in Nat
      <4> SUFFICES ASSUME a > b
                   PROVE  w * a > b * w
        <5>1. w * a \in Int /\ b * w \in Int
          BY Distributes
        <5>2. QED
          BY <5>1
      <4>1. w * (b + (a - b)) = w * b + w * (a - b) /\ b + (a - b) = a /\ w * b = b * w
        BY Distributes
      <4>2. w * (a - b) > 0
        <5>1. \A x, y \in Nat \ {0} : x * y > 0
          BY SMT
        <5>2. QED
          BY <5>1
      <4>3. w * b \in Int /\ w * (a - b) \in Int /\ b * w \in Int
        BY Distributes
      <4>4. QED
        BY <4>1, <4>2, <4>3
    <3>5. QED
      BY <1>1, <2>1, <2>5, <3>1, <3>3, <3>4 DEF D
  <2>8. QED
    BY <2>6, <2>7
<1>4. QED
  BY <1>2, <1>3

\* what is given back is not negative, and neither is what a limit allows
LEMMA ReplenishedBound ==
  ASSUME StateOK, NeverOverdrawn, NEW ms \in Nat, NEW c \in Channels
  PROVE  Replenished(c, ms) \in Int /\ Replenished(c, ms) >= -overhead[c]
<1>1. limit[c] \in Nat /\ quotaLeft[c] \in Int /\ overhead[c] \in Nat
      /\ quotaLeft[c] >= -overhead[c]
  BY BoundsAssumption DEF StateOK, NeverOverdrawn
<1>2. Returned(c) \in Nat
  <2> DEFINE S == InChannel(c, Gone)
             f == [p \in S |-> queue[p].assigned]
  <2>1. \A p \in S : queue[p].assigned \in Nat
    BY RequestFields DEF InChannel, Gone
  <2>2. \A p \in Peers : At(f, p) \in Nat
    BY <2>1 DEF At
  <2>3. Sum(f) \in Nat
    <3> HIDE DEF f
    <3>1. QED
      BY <2>2, SumNonneg
  <2>4. QED
    BY <2>3 DEF Returned
<1> DEFINE left == quotaLeft[c] + Returned(c)
           inc == (limit[c] * Min({ms, 3000}) + 500) \div 1000
<1>3. left \in Int /\ left >= -overhead[c]
  BY <1>1, <1>2
<1>4. inc \in Nat
  <2>1. Min({ms, 3000}) \in Nat
    BY MinPair
  <2>2. \A a, b \in Nat : a * b \in Nat
    BY SMT
  <2>3. \A a \in Nat : (a + 500) \div 1000 \in Nat
    BY SMT
  <2>4. QED
    BY <1>1, <2>1, <2>2, <2>3
<1>5. Min({left + inc, limit[c] * 3}) \in Int
      /\ Min({left + inc, limit[c] * 3}) >= -overhead[c]
  <2> HIDE DEF left, inc
  <2>1. QED
    BY <1>1, <1>3, <1>4, MinPair
<1>6. QED
  <2>1. Replenished(c, ms) = IF limit[c] = 0 \/ InChannel(c, Asking) = {} THEN left
                             ELSE Min({left + inc, limit[c] * 3})
    BY Zenon DEF Replenished
  <2> HIDE DEF left, inc
  <2>2. QED
    BY <1>3, <1>5, <2>1

----------------------------------------------------------------------------
(* The invariant                                                                  *)

\* m_queued_bytes as a function of the queue
Lacking(Q) == [p \in DOMAIN Q |-> Q[p].size - Q[p].assigned]

BInv ==
    /\ IInv
    /\ StateOK
    /\ quota \in [Peers -> Nat]
    /\ network \subseteq Peers /\ disconnecting \subseteq Peers
    /\ abort \in BOOLEAN
    /\ settings \in 0..MaxSettings
    /\ CheckInvariant
    /\ NeverOverdrawn

LEMMA Counted == CheckInvariant <=> queuedBytes = Sum(Lacking(queue))
  BY DEF CheckInvariant, Lacking, Missing

LEMMA LackingAt ==
  ASSUME NEW Q
  PROVE  \A p : At(Lacking(Q), p) = IF p \in DOMAIN Q THEN Q[p].size - Q[p].assigned ELSE 0
  BY DEF At, Lacking

\* the counter never runs below zero
LEMMA CountNonneg ==
  ASSUME StateOK, CheckInvariant
  PROVE  queuedBytes \in Nat
<1>1. \A p \in DOMAIN queue : queue[p].size - queue[p].assigned \in Nat
  BY RequestFields
<1>2. \A p \in Peers : At(Lacking(queue), p) \in Nat
  BY <1>1, LackingAt
<1>3. QED
  BY <1>2, SumNonneg, Counted

LEMMA NumericLacking ==
  ASSUME StateOK
  PROVE  Numeric(Lacking(queue))
<1>1. \A p \in DOMAIN queue : queue[p].size - queue[p].assigned \in Int
  BY RequestFields
<1>2. QED
  BY <1>1, LackingAt DEF Numeric

LEMMA InitBInv == Init => BInv
<1> SUFFICES ASSUME Init PROVE BInv
  OBVIOUS
<1>1. IInv
  BY InitIInv
<1>2. DOMAIN queue = {}
  BY EmptyQueue DEF Init
<1>3. limit \in [Channels -> Nat]
  BY LimitsAssumption DEF Init
<1>4. StateOK
  BY <1>2, <1>3, BoundsAssumption DEF Init, StateOK, Requesting
<1>5. CheckInvariant
  <2>1. \A p \in Peers : At(Lacking(queue), p) = 0
    BY <1>2, LackingAt
  <2>2. QED
    BY <2>1, SumZero, Counted DEF Init
<1>6. NeverOverdrawn
  BY DEF Init, NeverOverdrawn
<1>7. quota \in [Peers -> Nat] /\ settings \in 0..MaxSettings
  BY BoundsAssumption DEF Init
<1>8. abort \in BOOLEAN /\ network \subseteq Peers /\ disconnecting \subseteq Peers
  BY Zenon DEF Init
<1>9. QED
  BY <1>1, <1>4, <1>5, <1>6, <1>7, <1>8, Zenon DEF BInv

\* the counter and the requests when nothing is queued, granted or dropped
LEMMA QueueUnchanged ==
  ASSUME BInv, UNCHANGED <<queue, queuedBytes>>
  PROVE  CheckInvariant' /\ DOMAIN queue' \subseteq Peers /\ Requesting'
  BY DEF BInv, StateOK, Requesting, CheckInvariant, Missing

LEMMA ChannelsUnchanged ==
  ASSUME BInv, UNCHANGED channels
  PROVE  NeverOverdrawn' /\ limit' \in [Channels -> Nat] /\ quotaLeft' \in [Channels -> Int]
         /\ overhead' \in [Channels -> 0..MaxOverhead] /\ settings' \in 0..MaxSettings
  BY DEF BInv, StateOK, NeverOverdrawn, channels

\* a new request misses all of its size
LEMMA QueuedBInv ==
  ASSUME BInv, NEW p \in Peers, p \notin limited,
         NEW size \in Sizes, NEW prio \in Prios, Queued(p, size, prio)
  PROVE  CheckInvariant' /\ DOMAIN queue' \subseteq Peers /\ Requesting'
<1> DEFINE r == Request(p, size, prio)
<1>1. r \in Requests /\ r.size = size /\ r.assigned = 0
  <2>1. Throttled(p) \subseteq Channels
    BY MembershipsAssumption DEF Throttled
  <2>2. QED
    BY <2>1, BoundsAssumption DEF Request, Requests
<1>2. p \notin DOMAIN queue /\ size \in Nat
  BY SizesAssumption DEF BInv, IInv, FlaggedIffQueued
<1>3. /\ DOMAIN queue' = DOMAIN queue \union {p}
      /\ queue'[p] = r
      /\ \A q \in DOMAIN queue : queue'[q] = queue[q]
  <2>1. queue' = [q \in DOMAIN queue \union {p} |-> IF q = p THEN r ELSE queue[q]]
    BY DEF Queued
  <2> HIDE DEF r
  <2>2. QED
    BY <1>2, <2>1
<1> HIDE DEF r
<1>4. DOMAIN queue' \subseteq Peers /\ Requesting'
  <2>1. \A q \in DOMAIN queue' : queue'[q] \in Requests /\ queue'[q].assigned <= queue'[q].size
    BY <1>1, <1>2, <1>3 DEF BInv, StateOK, Requesting
  <2>2. QED
    BY <1>3, <2>1 DEF BInv, StateOK, Requesting
<1>5. CheckInvariant'
  <2> DEFINE f == Lacking(queue')
             g == Lacking(queue)
             h == [q \in {p} |-> size]
  <2>1. \A q \in Peers : At(h, q) = IF q = p THEN size ELSE 0
    BY DEF At
  <2>2. \A q : At(g, q) = IF q \in DOMAIN queue THEN queue[q].size - queue[q].assigned ELSE 0
    BY LackingAt
  <2>3. \A q : At(f, q) = IF q \in DOMAIN queue' THEN queue'[q].size - queue'[q].assigned ELSE 0
    BY LackingAt
  <2>4. Numeric(g) /\ Numeric(h)
    <3>1. Numeric(g)
      BY NumericLacking DEF BInv
    <3> HIDE DEF g, h
    <3>2. QED
      BY <1>2, <2>1, <3>1 DEF Numeric
  <2> HIDE DEF f, g, h
  <2>5. \A q \in Peers : At(h, q) = At(f, q) - At(g, q) /\ At(f, q) \in Int
    <3> TAKE q \in Peers
    <3>1. CASE q = p
      BY <1>1, <1>2, <1>3, <2>1, <2>2, <2>3, <3>1
    <3>2. CASE q # p
      <4>1. At(f, q) = At(g, q) /\ At(h, q) = 0 /\ At(g, q) \in Int
        BY <1>3, <2>1, <2>2, <2>3, <2>4, <3>2 DEF Numeric
      <4>2. QED
        BY <4>1
    <3>3. QED
      BY <3>1, <3>2
  <2>6. Numeric(f)
    BY <2>5 DEF Numeric
  <2>7. Sum(h) = Sum(f) - Sum(g)
    BY <2>4, <2>5, <2>6, SumMinus
  <2>8. Sum(h) = size
    BY <1>2, <2>1, SumSingle
  <2>9. Sum(f) = Sum(g) + size
    BY <1>2, <2>4, <2>6, <2>7, <2>8, SumType
  <2>10. queuedBytes' = queuedBytes + size /\ queuedBytes = Sum(g)
    BY Counted DEF Queued, BInv, g
  <2>11. QED
    BY <2>9, <2>10 DEF f, CheckInvariant, Lacking, Missing
<1>6. QED
  BY <1>4, <1>5

\* what a request that stays in the queue becomes
LEMMA Renewed ==
  ASSUME NEW r \in Requests, NEW a \in Nat, NEW s,
         s = [r EXCEPT !.assigned = @ + a, !.ttl = Max({@ - 1, 0})]
  PROVE  s \in Requests /\ s.size = r.size /\ s.assigned = r.assigned + a
<1>1. r.ttl \in 0..Ttl /\ r.assigned \in Nat
  BY DEF Requests
<1>2. Max({r.ttl - 1, 0}) \in 0..Ttl
  BY <1>1, MaxZero, BoundsAssumption
<1>3. r.assigned + a \in Nat
  BY <1>1
<1>4. DOMAIN r = {"size", "prio", "assigned", "ttl", "chans"}
      /\ r = [size |-> r.size, prio |-> r.prio, assigned |-> r.assigned, ttl |-> r.ttl,
              chans |-> r.chans]
  BY DEF Requests
<1> DEFINE m == Max({r.ttl - 1, 0})
<1>5. s = [size |-> r.size, prio |-> r.prio, assigned |-> r.assigned + a, ttl |-> m,
           chans |-> r.chans]
  <2> HIDE DEF m
  <2>1. s = [[r EXCEPT !.assigned = r.assigned + a] EXCEPT !.ttl = m]
    BY Zenon DEF m
  <2>2. QED
    BY <1>4, <2>1
<1>6. QED
  <2> HIDE DEF m
  <2>1. m \in 0..Ttl
    BY <1>2 DEF m
  <2>2. QED
    BY <1>3, <1>5, <2>1 DEF Requests

\* a tick, request by request: those who stay miss what they were not granted, and the
\* counter has lost exactly what went
LEMMA TickBInv ==
  ASSUME BInv, NEW ms \in Ticks, Tick(ms)
  PROVE  /\ CheckInvariant' /\ NeverOverdrawn' /\ StateOK'
         /\ quota' \in [Peers -> Nat] /\ network' \subseteq Peers
<1>1. PICK left, share : /\ left = [c \in Channels |-> Replenished(c, ms)]
                         /\ share = [p \in Asking |-> Share(p, left)]
                         /\ Grant(left, share, Served(share))
  BY Zenon DEF Tick
<1>2. UNCHANGED <<limit, overhead>>
  BY DEF Tick
<1>3. StateOK /\ NeverOverdrawn /\ CheckInvariant /\ ms \in Nat
  BY TicksAssumption DEF BInv
<1>4. left \in [Channels -> Int] /\ \A c \in Channels : left[c] >= -overhead[c]
  BY <1>1, <1>3, ReplenishedBound
<1>5. \A p \in Asking : /\ share[p] = Share(p, left)
                        /\ share[p] \in Nat /\ share[p] <= Missing(p)
  BY <1>1, <1>3, <1>4, ShareBounds
<1> DEFINE served == Served(share)
           stay == Asking \ served
<1>6. /\ served \subseteq Asking
      /\ Asking \subseteq DOMAIN queue /\ DOMAIN queue \subseteq Peers
      /\ DOMAIN queue = Asking \union Gone /\ Asking \intersect Gone = {}
      /\ \A p \in stay : share[p] # Missing(p)
  BY <1>3 DEF Served, Asking, Gone, StateOK
<1>7. /\ quotaLeft' = [c \in Channels |-> left[c] - Charged(c, share)]
      /\ queue' = [p \in stay |->
                    [queue[p] EXCEPT !.assigned = @ + share[p], !.ttl = Max({@ - 1, 0})]]
      /\ queuedBytes' = queuedBytes - Dequeued(share, served)
      /\ quota' = [p \in Peers |-> IF p \in served THEN quota[p] + queue[p].assigned + share[p]
                                   ELSE quota[p]]
      /\ \E R \in SUBSET served : network' = network \union R
  BY <1>1, Zenon DEF Grant
<1> HIDE DEF served
<1>8. ASSUME NEW p \in DOMAIN queue
      PROVE  /\ queue[p] \in Requests /\ Missing(p) = queue[p].size - queue[p].assigned
             /\ queue[p].size \in Nat /\ queue[p].assigned \in Nat /\ Missing(p) \in Nat
  BY <1>3, <1>8, RequestFields DEF StateOK, Requesting, Missing
<1>9. /\ DOMAIN queue' = stay
      /\ \A p \in stay : /\ queue'[p] \in Requests
                         /\ queue'[p].size = queue[p].size
                         /\ queue'[p].assigned = queue[p].assigned + share[p]
  <2>1. DOMAIN queue' = stay
    BY <1>7, Zenon
  <2>2. ASSUME NEW p \in stay
        PROVE  /\ queue'[p] \in Requests
               /\ queue'[p].size = queue[p].size
               /\ queue'[p].assigned = queue[p].assigned + share[p]
    <3>1. queue'[p] = [queue[p] EXCEPT !.assigned = @ + share[p], !.ttl = Max({@ - 1, 0})]
      BY <1>7, Zenon
    <3>2. queue[p] \in Requests /\ share[p] \in Nat
      BY <1>5, <1>6, <1>8
    <3> PICK s : s = queue'[p]
      OBVIOUS
    <3> DEFINE r == queue[p]
               a == share[p]
    <3>3. s = [r EXCEPT !.assigned = @ + a, !.ttl = Max({@ - 1, 0})]
      BY <3>1, Zenon
    <3>4. s.size = queue[p].size /\ s.assigned = queue[p].assigned + share[p] /\ s \in Requests
      <4>1. r \in Requests /\ a \in Nat
        BY <3>2
      <4> HIDE DEF r, a
      <4>2. s \in Requests /\ s.size = r.size /\ s.assigned = r.assigned + a
        BY <3>3, <4>1, Renewed, Zenon
      <4>3. QED
        BY <4>2, Zenon DEF r, a
    <3>5. QED
      BY <3>4
  <2>3. QED
    BY <2>1, <2>2
<1> HIDE DEF stay
<1>10. ASSUME NEW p \in stay
       PROVE  p \in DOMAIN queue /\ p \in Asking /\ p \notin Gone \union served
  BY <1>6 DEF stay
<1>11. ASSUME NEW p \in DOMAIN queue, p \notin stay
       PROVE  p \in Gone \union served
  BY <1>6, <1>11 DEF stay
<1>12. Requesting'
  <2>1. ASSUME NEW p \in stay
        PROVE  queue'[p].assigned <= queue'[p].size
    BY <1>5, <1>8, <1>9, <1>10
  <2>2. QED
    BY <1>9, <2>1 DEF Requesting
<1>13. CheckInvariant'
  <2> DEFINE f == Lacking(queue)
             g == [p \in DOMAIN queue |-> IF p \in Gone \union served THEN Missing(p) ELSE share[p]]
             h == Lacking(queue')
  <2>1. \A p : At(f, p) = IF p \in DOMAIN queue THEN queue[p].size - queue[p].assigned ELSE 0
    BY LackingAt
  <2>2. \A p : At(g, p) = IF p \notin DOMAIN queue THEN 0
                          ELSE IF p \in Gone \union served THEN Missing(p) ELSE share[p]
    BY DEF At
  <2>3. \A p : At(h, p) = IF p \in stay THEN queue'[p].size - queue'[p].assigned ELSE 0
    BY <1>9, LackingAt
  <2>4. Dequeued(share, served) = Sum(g)
    BY DEF Dequeued
  <2>5. queuedBytes = Sum(f)
    BY <1>3, Counted
  <2>6. Numeric(f)
    BY <1>3, NumericLacking
  <2> HIDE DEF f, g, h
  <2>7. \A p \in Peers : At(g, p) \in Int /\ At(h, p) = At(f, p) - At(g, p)
    <3> TAKE p \in Peers
    <3>1. CASE p \notin DOMAIN queue
      BY <1>10, <2>1, <2>2, <2>3, <3>1
    <3>2. CASE p \in stay
      <4>1. p \in DOMAIN queue /\ p \in Asking /\ p \notin Gone \union served
        BY <1>10, <3>2
      <4>2. At(g, p) = share[p] /\ share[p] \in Nat
        BY <1>5, <2>2, <4>1
      <4>3. At(f, p) = queue[p].size - queue[p].assigned
        BY <2>1, <4>1
      <4>4. At(h, p) = queue[p].size - (queue[p].assigned + share[p])
        BY <1>9, <2>3, <3>2
      <4>5. QED
        BY <1>8, <4>1, <4>2, <4>3, <4>4
    <3>3. CASE p \in DOMAIN queue /\ p \notin stay
      BY <1>8, <1>11, <2>1, <2>2, <2>3, <3>3
    <3>4. QED
      BY <3>1, <3>2, <3>3
  <2>8. Numeric(g)
    BY <2>7 DEF Numeric
  <2>9. Sum(h) = Sum(f) - Sum(g)
    BY <2>6, <2>7, <2>8, SumMinus
  <2>10. queuedBytes' = Sum(h)
    BY <1>7, <2>4, <2>5, <2>9
  <2>11. QED
    BY <2>10 DEF h, CheckInvariant, Lacking, Missing
<1>14. quotaLeft' \in [Channels -> Int] /\ NeverOverdrawn'
  <2>1. ASSUME NEW c \in Channels
        PROVE  quotaLeft'[c] \in Int /\ quotaLeft'[c] >= -overhead'[c]
    <3>1. Charged(c, share) \in Nat /\ Charged(c, share) <= Max({left[c], 0})
      BY <1>3, <1>4, <1>5, ChargedBound
    <3>2. Max({left[c], 0}) = IF left[c] >= 0 THEN left[c] ELSE 0
      BY <1>4, MaxZero
    <3>3. quotaLeft'[c] = left[c] - Charged(c, share)
      BY <1>7, Zenon
    <3>4. overhead[c] \in Nat /\ overhead'[c] = overhead[c]
      BY <1>2, <1>3, BoundsAssumption DEF StateOK
    <3>5. left[c] \in Int /\ left[c] >= -overhead[c]
      BY <1>4
    <3> DEFINE m == Max({left[c], 0})
    <3> HIDE DEF m
    <3>6. QED
      BY <3>1, <3>2, <3>3, <3>4, <3>5 DEF m
  <2>2. quotaLeft' = [c \in Channels |-> quotaLeft'[c]]
    BY <1>7
  <2>3. QED
    BY <2>1, <2>2 DEF NeverOverdrawn
<1>15. StateOK'
  <2>1. DOMAIN queue' \subseteq Peers
    BY <1>6, <1>9, <1>10
  <2>2. QED
    BY <1>2, <1>3, <1>12, <1>14, <2>1 DEF StateOK
<1>16. quota' \in [Peers -> Nat]
  <2>1. ASSUME NEW p \in Peers
        PROVE  (IF p \in served THEN quota[p] + queue[p].assigned + share[p] ELSE quota[p]) \in Nat
    <3>1. quota[p] \in Nat
      BY DEF BInv
    <3>2. CASE p \in served
      BY <1>5, <1>6, <1>8, <3>1, <3>2
    <3>3. QED
      BY <3>1, <3>2
  <2>2. QED
    BY <1>7, <2>1
<1>17. network' \subseteq Peers
  BY <1>6, <1>7 DEF BInv
<1>18. QED
  BY <1>12, <1>13, <1>14, <1>15, <1>16, <1>17

\* what setup_receive() leaves true of the requests and the quota
LEMMA SetupBInv ==
  ASSUME BInv, NEW p \in Peers, NEW left \in Nat, p \notin limited, Setup(p, left)
  PROVE  /\ CheckInvariant' /\ DOMAIN queue' \subseteq Peers /\ Requesting'
         /\ quota' \in [Peers -> Nat] /\ network' \subseteq Peers
<1>1. quota \in [Peers -> Nat] /\ network \subseteq Peers
  BY DEF BInv
<1>2. CASE /\ quota' = [quota EXCEPT ![p] = left]
           /\ Reading(p)
           /\ UNCHANGED <<queue, queuedBytes, limited>>
  <2>1. quota' \in [Peers -> Nat] /\ network' \subseteq Peers
    BY <1>1, <1>2 DEF Reading
  <2>2. QED
    BY <1>2, <2>1, QueueUnchanged
<1>3. CASE \E size \in Sizes, prio \in Prios :
             /\ Queued(p, size, prio)
             /\ quota' = [quota EXCEPT ![p] = 0]
             /\ network' = network \ {p}
  <2>1. quota' \in [Peers -> Nat] /\ network' \subseteq Peers
    BY <1>1, <1>3
  <2>2. QED
    BY <1>3, <2>1, QueuedBInv
<1>4. CASE \E size \in Sizes : /\ quota' = [quota EXCEPT ![p] = size]
                               /\ Reading(p)
                               /\ UNCHANGED <<queue, queuedBytes, limited>>
  <2>1. quota' \in [Peers -> Nat] /\ network' \subseteq Peers
    BY <1>1, <1>4, SizesAssumption DEF Reading
  <2>2. QED
    BY <1>4, <2>1, QueueUnchanged
<1>5. QED
  BY <1>2, <1>3, <1>4, Zenon DEF Setup

\* the conjuncts an action of one peer can disturb
LEMMA PeerBInv ==
  ASSUME BInv, IInv', UNCHANGED channels, UNCHANGED abort,
         CheckInvariant', DOMAIN queue' \subseteq Peers, Requesting',
         quota' \in [Peers -> Nat], network' \subseteq Peers, disconnecting' \subseteq Peers
  PROVE  BInv'
<1>1. NeverOverdrawn' /\ limit' \in [Channels -> Nat] /\ quotaLeft' \in [Channels -> Int]
      /\ overhead' \in [Channels -> 0..MaxOverhead] /\ settings' \in 0..MaxSettings
  BY ChannelsUnchanged
<1>2. StateOK'
  BY <1>1 DEF StateOK
<1>3. abort' \in BOOLEAN
  BY Zenon DEF BInv
<1>4. QED
  BY <1>1, <1>2, <1>3, Zenon DEF BInv

LEMMA SetupReceiveBInv ==
  ASSUME BInv, IInv', NEW p \in Peers, SetupReceive(p)
  PROVE  BInv'
<1>1. /\ p \notin limited /\ Setup(p, quota[p])
      /\ UNCHANGED channels /\ UNCHANGED abort /\ UNCHANGED disconnecting
  BY Zenon DEF SetupReceive
<1>2. quota[p] \in Nat /\ disconnecting' \subseteq Peers
  BY <1>1 DEF BInv
<1>3. QED
  BY <1>1, <1>2, SetupBInv, PeerBInv

LEMMA OnReceiveDataBInv ==
  ASSUME BInv, IInv', NEW p \in Peers, NEW n \in 0..quota[p], OnReceiveData(p, n)
  PROVE  BInv'
<1>1. p \notin limited
  BY DEF OnReceiveData, BInv, IInv, FlaggedIffQueued
<1>2. UNCHANGED channels /\ UNCHANGED abort
  BY Zenon DEF OnReceiveData
<1>3. quota \in [Peers -> Nat] /\ network \subseteq Peers /\ disconnecting \subseteq Peers
  BY DEF BInv
<1>4. quota[p] - n \in Nat
  BY <1>3
<1>5. CASE Setup(p, quota[p] - n) /\ UNCHANGED disconnecting
  BY <1>1, <1>2, <1>3, <1>4, <1>5, SetupBInv, PeerBInv
<1>6. CASE /\ quota' = [quota EXCEPT ![p] = quota[p] - n]
           /\ network' = network \ {p}
           /\ disconnecting' = disconnecting \union {p}
           /\ UNCHANGED <<queue, queuedBytes, limited>>
  <2>1. quota' \in [Peers -> Nat] /\ network' \subseteq Peers /\ disconnecting' \subseteq Peers
    BY <1>3, <1>4, <1>6
  <2>2. QED
    BY <1>2, <1>6, <2>1, QueueUnchanged, PeerBInv
<1>7. QED
  BY <1>5, <1>6, Zenon DEF OnReceiveData

LEMMA DisconnectBInv ==
  ASSUME BInv, IInv', NEW p \in Peers, Disconnect(p)
  PROVE  BInv'
<1>1. UNCHANGED <<queue, queuedBytes>> /\ UNCHANGED channels /\ UNCHANGED abort
  BY Zenon DEF Disconnect
<1>2. quota' \in [Peers -> Nat] /\ network' \subseteq Peers /\ disconnecting' \subseteq Peers
  BY DEF Disconnect, BInv
<1>3. QED
  BY <1>1, <1>2, QueueUnchanged, PeerBInv

\* closing drops all that is queued, and what was counted for it
LEMMA CloseBInv ==
  ASSUME BInv, IInv', Close
  PROVE  BInv'
<1>1. DOMAIN queue' = {}
  BY EmptyQueue DEF Close
<1>2. CheckInvariant'
  <2> DEFINE f == Lacking(queue')
  <2>1. \A p \in Peers : At(f, p) = 0
    BY <1>1, LackingAt
  <2> HIDE DEF f
  <2>2. Sum(f) = 0 /\ queuedBytes' = 0
    BY <2>1, SumZero DEF Close
  <2>3. QED
    BY <2>2 DEF f, CheckInvariant, Lacking, Missing
<1>3. Requesting'
  BY <1>1 DEF Requesting
<1>4. quota' \in [Peers -> Nat] /\ network' \subseteq Peers /\ disconnecting' \subseteq Peers
  BY DEF Close, BInv
<1>5. NeverOverdrawn' /\ limit' \in [Channels -> Nat] /\ quotaLeft' \in [Channels -> Int]
      /\ overhead' \in [Channels -> 0..MaxOverhead] /\ settings' \in 0..MaxSettings
  BY ChannelsUnchanged DEF Close
<1>6. StateOK'
  BY <1>1, <1>3, <1>5 DEF StateOK
<1>7. abort' \in BOOLEAN
  BY Zenon DEF Close
<1>8. QED
  BY <1>2, <1>4, <1>5, <1>6, <1>7, Zenon DEF BInv

\* overhead is charged to a channel and remembered
LEMMA UseQuotaBInv ==
  ASSUME BInv, IInv', NEW c \in Channels, NEW n \in 1..MaxOverhead, UseQuota(c, n)
  PROVE  BInv'
<1>1. /\ quotaLeft' = [quotaLeft EXCEPT ![c] = @ - n]
      /\ overhead' = [overhead EXCEPT ![c] = @ + n]
      /\ overhead[c] + n <= MaxOverhead
      /\ UNCHANGED <<limit, settings, queue, queuedBytes, quota, limited, network,
                     disconnecting, abort>>
  BY DEF UseQuota, peers
<1>2. StateOK /\ NeverOverdrawn /\ MaxOverhead \in Nat
  BY BoundsAssumption DEF BInv
<1>3. /\ quotaLeft' \in [Channels -> Int]
      /\ overhead' \in [Channels -> 0..MaxOverhead]
      /\ NeverOverdrawn'
  BY <1>1, <1>2 DEF StateOK, NeverOverdrawn
<1>4. CheckInvariant' /\ DOMAIN queue' \subseteq Peers /\ Requesting'
  BY <1>1, QueueUnchanged
<1>5. StateOK'
  BY <1>1, <1>2, <1>3, <1>4 DEF StateOK
<1>6. /\ quota' \in [Peers -> Nat] /\ network' \subseteq Peers /\ disconnecting' \subseteq Peers
      /\ settings' \in 0..MaxSettings
  BY <1>1 DEF BInv
<1>7. abort' \in BOOLEAN
  BY <1>1, Zenon DEF BInv
<1>8. QED
  BY <1>3, <1>4, <1>5, <1>6, <1>7, Zenon DEF BInv

LEMMA ThrottleBInv ==
  ASSUME BInv, IInv', NEW c \in Channels, NEW l \in Limits[c], Throttle(c, l)
  PROVE  BInv'
<1>1. /\ limit' = [limit EXCEPT ![c] = l]
      /\ settings < MaxSettings /\ settings' = settings + 1
      /\ UNCHANGED <<quotaLeft, overhead, queue, queuedBytes, quota, limited, network,
                     disconnecting, abort>>
  BY DEF Throttle, peers
<1>2. StateOK /\ NeverOverdrawn /\ settings \in 0..MaxSettings /\ MaxSettings \in Nat
  BY BoundsAssumption DEF BInv
<1>3. limit' \in [Channels -> Nat] /\ NeverOverdrawn' /\ settings' \in 0..MaxSettings
  BY <1>1, <1>2, LimitsAssumption DEF StateOK, NeverOverdrawn
<1>4. CheckInvariant' /\ DOMAIN queue' \subseteq Peers /\ Requesting'
  BY <1>1, QueueUnchanged
<1>5. StateOK'
  BY <1>1, <1>2, <1>3, <1>4 DEF StateOK
<1>6. quota' \in [Peers -> Nat] /\ network' \subseteq Peers /\ disconnecting' \subseteq Peers
  BY <1>1 DEF BInv
<1>7. abort' \in BOOLEAN
  BY <1>1, Zenon DEF BInv
<1>8. QED
  BY <1>3, <1>4, <1>5, <1>6, <1>7, Zenon DEF BInv

LEMMA NextBInv == BInv /\ [Next]_vars => BInv'
<1> SUFFICES ASSUME BInv, [Next]_vars PROVE BInv'
  OBVIOUS
<1>1. IInv'
  BY NextIInv DEF BInv
<1>2. CASE \E p \in Peers : Peer(p)
  BY <1>1, <1>2, SetupReceiveBInv, OnReceiveDataBInv, DisconnectBInv, Zenon DEF Peer
<1>3. CASE \E ms \in Ticks : Tick(ms)
  <2>1. PICK ms \in Ticks : Tick(ms)
    BY <1>3
  <2>2. /\ CheckInvariant' /\ NeverOverdrawn' /\ StateOK'
        /\ quota' \in [Peers -> Nat] /\ network' \subseteq Peers
    BY <2>1, TickBInv
  <2>3. settings' \in 0..MaxSettings /\ disconnecting' \subseteq Peers
    BY <2>1 DEF Tick, BInv
  <2>4. abort' \in BOOLEAN
    BY <2>1, Zenon DEF Tick, BInv
  <2>5. QED
    BY <1>1, <2>2, <2>3, <2>4, Zenon DEF BInv
<1>4. CASE \E c \in Channels : \/ \E n \in 1..MaxOverhead : UseQuota(c, n)
                               \/ \E l \in Limits[c] : Throttle(c, l)
  BY <1>1, <1>4, UseQuotaBInv, ThrottleBInv, Zenon
<1>5. CASE Close
  BY <1>1, <1>5, CloseBInv
<1>6. CASE UNCHANGED vars
  <2>1. UNCHANGED <<queue, queuedBytes>> /\ UNCHANGED channels /\ UNCHANGED abort
    BY <1>6, Zenon DEF vars
  <2>2. quota' \in [Peers -> Nat] /\ network' \subseteq Peers /\ disconnecting' \subseteq Peers
    BY <1>6 DEF vars, peers, BInv
  <2>3. QED
    BY <1>1, <2>1, <2>2, QueueUnchanged, PeerBInv
<1>7. QED
  BY <1>2, <1>3, <1>4, <1>5, <1>6, Zenon DEF Next

LEMMA SpecBInv == Spec => []BInv
  BY InitBInv, NextBInv, PTL DEF Spec

(* Every part of the state keeps its type: m_queued_bytes and the quota of a peer never      *)
(* fall below zero, whatever is granted, returned or dropped.                              *)
THEOREM TypeCorrect == Spec => []TypeOK
<1>1. BInv => TypeOK
  <2> SUFFICES ASSUME BInv PROVE TypeOK
    OBVIOUS
  <2>1. queuedBytes \in Nat
    BY CountNonneg DEF BInv
  <2>2. StateOK /\ limited \subseteq Peers
    BY DEF BInv, IInv
  <2>3. \A p \in DOMAIN queue : queue[p] \in Requests
    BY <2>2 DEF StateOK, Requesting
  <2>4. QED
    BY <2>1, <2>2, <2>3, Zenon DEF BInv, StateOK, TypeOK
<1>2. QED
  BY SpecBInv, <1>1, PTL

(* check_invariant() of bandwidth_manager: m_queued_bytes is what the queued requests still  *)
(* miss, after any sequence of partial grants, time-outs and disconnects.                  *)
THEOREM QueuedBytesExact == Spec => []CheckInvariant
<1>1. BInv => CheckInvariant
  BY DEF BInv
<1>2. QED
  BY SpecBInv, <1>1, PTL

(* update_quotas() never grants more than a channel has, for any limits, priorities, sizes   *)
(* and ticks: integer shares by priority never add up to more than what is distributed.     *)
THEOREM GrantsWithinQuota == Spec => []NeverOverdrawn
<1>1. BInv => NeverOverdrawn
  BY DEF BInv
<1>2. QED
  BY SpecBInv, <1>1, PTL
=============================================================================
