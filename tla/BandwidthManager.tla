-------------------------- MODULE BandwidthManager --------------------------
(***************************************************************************)
(* bandwidth_manager with the channels it shares out and the peers that ask   *)
(* it for quota, in the direction of downloads (uploads do the same).  A peer *)
(* without quota asks for some bytes and waits, flagged bw_limit, in a queue; *)
(* every tick, each channel grants what its rate allows, in proportion to     *)
(* the priorities of those who wait, and a peer gets the least that its       *)
(* channels grant.                                                            *)
(*                                                                         *)
(* All of it runs on the network thread.  The callbacks of update_quotas()    *)
(* raise a peer's quota and start a read, whose handler comes later: none     *)
(* calls back into the manager, so a tick is one step.                        *)
(***************************************************************************)
EXTENDS Integers, FiniteSets, FiniteSetsExt

CONSTANTS
    NumPeers,       \* peers are numbered, in any order
    Channels,
    Memberships,    \* which channels each peer asks through
    Limits,         \* the rates each channel may be set to, 0 for unlimited
    Sizes,          \* how many bytes a peer may ask for
    Prios,          \* the priorities of peers
    Ticks,          \* the milliseconds there may be between two ticks
    Ttl,            \* how many rounds a request waits for all it asked for (20)
    MaxOverhead,    \* bound: bytes of overhead charged to a channel
    MaxSettings     \* bound: changes of the limits

ASSUME PeersAssumption == NumPeers \in Nat
Peers == 1..NumPeers

ASSUME MembershipsAssumption == Memberships \in [Peers -> SUBSET Channels]
ASSUME LimitsAssumption == Limits \in [Channels -> SUBSET Nat]
ASSUME SizesAssumption == Sizes \subseteq Nat \ {0}
ASSUME PriosAssumption == Prios \subseteq Nat \ {0}
ASSUME TicksAssumption == Ticks \subseteq Nat
ASSUME BoundsAssumption == Ttl \in Nat /\ MaxOverhead \in Nat /\ MaxSettings \in Nat

VARIABLES
    limit,          \* m_limit of each channel
    quotaLeft,      \* m_quota_left of each channel
    overhead,       \* bytes charged to each channel without having been granted
    queue,          \* m_queue: the request of each peer that is in it
    queuedBytes,    \* m_queued_bytes
    quota,          \* m_quota of each peer
    limited,        \* peers with bw_limit in m_channel_state
    network,        \* peers with bw_network in it: a read is outstanding
    disconnecting,  \* peers with m_disconnecting
    abort,          \* m_abort
    settings        \* changes of the limits so far

channels == <<limit, quotaLeft, overhead, settings>>
peers == <<quota, limited, network, disconnecting>>
vars == <<channels, queue, queuedBytes, peers, abort>>

Requests == [size : Sizes, prio : Prios, assigned : Nat, ttl : 0..Ttl, chans : SUBSET Channels]

\* the sum of a function over some of the peers, taken along their numbers
At(f, p) == IF p \in DOMAIN f THEN f[p] ELSE 0
UpTo(f) ==
    LET upTo[n \in 0..NumPeers] == IF n = 0 THEN 0 ELSE upTo[n - 1] + At(f, n)
    IN  upTo
Sum(f) == UpTo(f)[NumPeers]

Init ==
    /\ limit \in [Channels -> UNION {Limits[c] : c \in Channels}]
    /\ \A c \in Channels : limit[c] \in Limits[c]
    /\ quotaLeft = [c \in Channels |-> 0]
    /\ overhead = [c \in Channels |-> 0]
    /\ queue = <<>>
    /\ queuedBytes = 0
    /\ quota \in [Peers -> {0, 1}]      \* an incoming connection has some to begin with
    /\ limited = {} /\ network = {} /\ disconnecting = {}
    /\ abort = FALSE
    /\ settings = 0

----------------------------------------------------------------------------
\* request_bandwidth(): only channels with a limit count, and without any of them the
\* whole request is granted on the spot.  When the manager is closed everybody is
\* disconnecting, and nobody asks.
Throttled(p) == {c \in Memberships[p] : limit[c] > 0}

Request(p, size, prio) ==
    [size |-> size, prio |-> prio, assigned |-> 0, ttl |-> Ttl, chans |-> Throttled(p)]

Queued(p, size, prio) ==
    /\ queue' = [q \in DOMAIN queue \union {p} |->
                    IF q = p THEN Request(p, size, prio) ELSE queue[q]]
    /\ queuedBytes' = queuedBytes + size

\* can_read() and try_read(): whether a read is started depends on the disk's queue
Reading(p) == network' \in {network \ {p}, network \union {p}}

\* setup_receive() of a peer that is neither disconnecting nor waiting, when it has
\* `left` bytes of quota
Setup(p, left) ==
    \/ /\ left > 0
       /\ quota' = [quota EXCEPT ![p] = left]
       /\ Reading(p)
       /\ UNCHANGED <<queue, queuedBytes, limited>>
    \/ /\ left = 0
       /\ \E size \in Sizes, prio \in Prios :
            \/ /\ Throttled(p) # {}
               /\ Queued(p, size, prio)
               /\ limited' = limited \union {p}
               /\ quota' = [quota EXCEPT ![p] = 0]
               /\ network' = network \ {p}
            \/ /\ Throttled(p) = {}
               /\ quota' = [quota EXCEPT ![p] = size]
               /\ Reading(p)
               /\ UNCHANGED <<queue, queuedBytes, limited>>

\* the disk's queue is short again, a write is done, or a new connection begins to read
SetupReceiveAgain(p) ==  \* mutant of SetupReceive
    /\ p \notin disconnecting \union network
    /\ Setup(p, quota[p])
    /\ UNCHANGED <<channels, disconnecting, abort>>
SetupReceive(p) ==
    /\ p \notin disconnecting \union network \union limited
    /\ Setup(p, quota[p])
    /\ UNCHANGED <<channels, disconnecting, abort>>

\* n bytes were read, in one go or in several; the peer reads on unless what it
\* received, an error or another handler before has disconnected it
OnReceiveData(p, n) ==
    /\ p \in network
    /\ \/ /\ p \notin disconnecting /\ n > 0
          /\ Setup(p, quota[p] - n)
          /\ UNCHANGED disconnecting
       \/ /\ quota' = [quota EXCEPT ![p] = quota[p] - n]
          /\ network' = network \ {p}
          /\ disconnecting' = disconnecting \union {p}
          /\ UNCHANGED <<queue, queuedBytes, limited>>
    /\ UNCHANGED <<channels, abort>>

\* anything else that disconnects a peer; its request stays queued until the next tick
Disconnect(p) ==
    /\ p \notin disconnecting
    /\ disconnecting' = disconnecting \union {p}
    /\ UNCHANGED <<channels, queue, queuedBytes, quota, limited, network, abort>>

----------------------------------------------------------------------------
\* update_quotas(): the requests of disconnecting peers go first, and what they had
\* been granted goes back to their channels
Gone == DOMAIN queue \intersect disconnecting
Asking == DOMAIN queue \ disconnecting
InChannel(c, S) == {p \in S : c \in queue[p].chans}
Missing(p) == queue[p].size - queue[p].assigned

Returned(c) ==
    IF limit[c] = 0 THEN 0
    ELSE Sum([p \in InChannel(c, Gone) |-> queue[p].assigned])

\* bandwidth_channel::update_quota(), for the channels somebody waits for
Replenished(c, ms) ==
    LET left == quotaLeft[c] + Returned(c)
    IN  IF limit[c] = 0 \/ InChannel(c, Asking) = {} THEN left
        ELSE Min({left + (limit[c] * Min({ms, 3000}) + 500) \div 1000, limit[c] * 3})

\* bw_request::assign_bandwidth(): the least share over the channels that still have a
\* limit, when `left` is what each channel has been replenished to
Weight(c) == Sum([p \in InChannel(c, Asking) |-> queue[p].prio])
PartOrdered(p, distribute, weight) == distribute * (queue[p].prio \div weight)  \* mutant of Part
PartRoundedUp(p, distribute, weight) ==  \* mutant of Part
    (distribute * queue[p].prio + weight - 1) \div weight
Part(p, distribute, weight) == (distribute * queue[p].prio) \div weight

Share(p, left) ==
    Min({Missing(p)} \union
          {Part(p, Max({left[c], 0}), Weight(c)) : c \in {d \in queue[p].chans : limit[d] > 0}})

Charged(c, share) ==
    IF limit[c] = 0 THEN 0 ELSE Sum([p \in InChannel(c, Asking) |-> share[p]])

\* all it asked for, or something of it after enough rounds
Served(share) ==
    {p \in Asking : \/ share[p] = Missing(p)
                    \/ queue[p].ttl <= 1 /\ queue[p].assigned + share[p] > 0}

\* m_queued_bytes loses what left the queue and what was granted to those who stay
DequeuedGrants(share, served) ==  \* mutant of Dequeued
    Sum([p \in DOMAIN queue |-> IF p \in Gone THEN Missing(p) ELSE share[p]])
Dequeued(share, served) ==
    Sum([p \in DOMAIN queue |-> IF p \in Gone \union served THEN Missing(p) ELSE share[p]])

\* update_quotas() in one go, its callbacks included
Grant(left, share, served) ==
    /\ quotaLeft' = [c \in Channels |-> left[c] - Charged(c, share)]
    /\ queue' = [p \in Asking \ served |->
                    [queue[p] EXCEPT !.assigned = @ + share[p], !.ttl = Max({@ - 1, 0})]]
    /\ queuedBytes' = queuedBytes - Dequeued(share, served)
    /\ quota' = [p \in Peers |-> IF p \in served THEN quota[p] + queue[p].assigned + share[p]
                                 ELSE quota[p]]
    /\ limited' = limited \ served
    /\ \E R \in SUBSET served : network' = network \union R

Tick(ms) ==
    /\ ~abort /\ queue # <<>>
    /\ \E left \in {[c \in Channels |-> Replenished(c, ms)]} :
         \E share \in {[p \in Asking |-> Share(p, left)]} : Grant(left, share, Served(share))
    /\ UNCHANGED <<limit, overhead, settings, disconnecting, abort>>

----------------------------------------------------------------------------
\* IP overhead, DHT and tracker traffic, counted whether or not there is quota for it
UseQuota(c, n) ==
    /\ limit[c] > 0
    /\ overhead[c] + n <= MaxOverhead
    /\ quotaLeft' = [quotaLeft EXCEPT ![c] = @ - n]
    /\ overhead' = [overhead EXCEPT ![c] = @ + n]
    /\ UNCHANGED <<limit, settings, queue, queuedBytes, peers, abort>>

Throttle(c, l) ==
    /\ limit[c] # l
    /\ settings < MaxSettings
    /\ limit' = [limit EXCEPT ![c] = l]
    /\ settings' = settings + 1
    /\ UNCHANGED <<quotaLeft, overhead, queue, queuedBytes, peers, abort>>

\* session_impl::abort() disconnects everybody and closes the manager
Close ==
    /\ ~abort
    /\ abort' = TRUE
    /\ disconnecting' = Peers
    /\ queue' = <<>>
    /\ queuedBytes' = 0
    /\ UNCHANGED <<channels, quota, limited, network>>

Peer(p) ==
    \/ SetupReceive(p)
    \/ \E n \in 0..quota[p] : OnReceiveData(p, n)
    \/ Disconnect(p)

Next ==
    \/ \E p \in Peers : Peer(p)
    \/ \E ms \in Ticks : Tick(ms)
    \/ \E c \in Channels : \/ \E n \in 1..MaxOverhead : UseQuota(c, n)
                           \/ \E l \in Limits[c] : Throttle(c, l)
    \/ Close

Spec == Init /\ [][Next]_vars

\* the session's timer ticks until the session is aborted
FairSpec == Spec /\ WF_vars(\E ms \in Ticks : Tick(ms))

----------------------------------------------------------------------------
TypeOK ==
    /\ limit \in [Channels -> Nat]
    /\ quotaLeft \in [Channels -> Int]
    /\ overhead \in [Channels -> 0..MaxOverhead]
    /\ DOMAIN queue \subseteq Peers /\ \A p \in DOMAIN queue : queue[p] \in Requests
    /\ queuedBytes \in Nat
    /\ quota \in [Peers -> Nat]
    /\ limited \subseteq Peers /\ network \subseteq Peers /\ disconnecting \subseteq Peers
    /\ abort \in BOOLEAN
    /\ settings \in 0..MaxSettings

(* check_invariant() of the class: m_queued_bytes is what the queued requests are still     *)
(* missing, however their bytes came: in parts, by a time-out, or never.                 *)
CheckInvariant == queuedBytes = Sum([p \in DOMAIN queue |-> Missing(p)])

(* The flag and the queue tell the same: a queued peer is flagged (the assertion of         *)
(* assign_bandwidth()), has no quota and reads nothing, and no flagged peer is forgotten:  *)
(* it is queued or disconnecting.                                                         *)
FlaggedIffQueued ==
    /\ DOMAIN queue \subseteq limited
    /\ limited \ disconnecting \subseteq DOMAIN queue
    /\ \A p \in limited : quota[p] = 0 /\ p \notin network

(* Rounding, clamping, returned quota and limits that come and go never grant more than a   *)
(* channel has: it is overdrawn at most by the overhead that nobody granted.               *)
NeverOverdrawn == \A c \in Channels : quotaLeft[c] >= -overhead[c]

(* Whoever waits gets something, whatever the others ask for and however long, unless the  *)
(* peer or the session goes: the division starves nobody.  It holds where a tick's worth of *)
(* every limit, times the lowest priority, is at least the priorities of all who wait.     *)
Answered == \A p \in Peers : p \in limited ~> (p \notin limited \/ p \in disconnecting)
=============================================================================
