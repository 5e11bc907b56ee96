--------------------------- MODULE UdpSocket_proofs ---------------------------
(***************************************************************************)
(* The safety of UdpSocket for any number of associations and packets: the    *)
(* count of outstanding operations, the ticket, and that the proxy is never    *)
(* bypassed.  IInv adds that an association has an operation only after its   *)
(* attempt has been started, and that no attempt outlives close().           *)
(***************************************************************************)
EXTENDS UdpSocket, FiniteSetTheorems, TLAPS

\* an attempt that has not been started has no operation
Fresh == \A k \in Ids : stage[k] \in {"none", "queued"} => op[k] = "none"

\* the queue was closed before the socket
Quiet == aborted => Attempts = {}

IInv == TypeOK /\ OpsExact /\ NeverBypassed /\ Fresh /\ Quiet

\* the same, by the variables that actions change together
Stages == {"none", "queued", "connected", "done", "timedout"}
Outcomes == {"waiting", "done", "failed", "aborted"}
AssocOK ==
    begun \in 0..MaxAssociations /\ current \in 0..begun /\ lookups \subseteq 1..begun
StageOK ==
    stage \in [Ids -> Stages] /\ ticket \in {None} \union {k \in Ids : stage[k] = "connected"}
TcpOK ==
    carrier \in {None} \union Ids /\ op \in [Ids -> Steps] /\ outcome \in [Ids -> Outcomes]
PacketsOK ==
    /\ tunnel \in BOOLEAN /\ queueing \in BOOLEAN /\ backlog \in 0..MaxPackets
    /\ NeverBypassed
SessionOK ==
    reading \in BOOLEAN /\ cleared \in BOOLEAN /\ phase \in {"running", "aborting", "aborted"}
CountOK == OpsExact /\ ops \in Int /\ strays \in Nat

LEMMA Parts ==
  IInv <=> /\ AssocOK /\ StageOK /\ TcpOK /\ PacketsOK /\ SessionOK /\ CountOK
           /\ Fresh /\ Quiet
  BY Zenon DEF IInv, TypeOK, AssocOK, StageOK, TcpOK, PacketsOK, SessionOK, CountOK, Stages, Outcomes

LEMMA PartsNext ==
  ASSUME AssocOK', StageOK', TcpOK', PacketsOK', SessionOK', CountOK', Fresh', Quiet'
  PROVE  IInv'
  BY Zenon DEF IInv, TypeOK, AssocOK, StageOK, TcpOK, PacketsOK, SessionOK, CountOK, Stages, Outcomes

LEMMA PartsKept ==
  ASSUME IInv
  PROVE  /\ UNCHANGED <<begun, current, lookups>> => AssocOK'
         /\ UNCHANGED <<stage, ticket>> => StageOK'
         /\ UNCHANGED <<carrier, op, outcome>> => TcpOK'
         /\ UNCHANGED <<current, tunnel, queueing, backlog>> => PacketsOK'
         /\ UNCHANGED <<reading, cleared, phase>> => SessionOK'
         /\ UNCHANGED <<lookups, stage, op, ops, strays>> => CountOK'
         /\ UNCHANGED <<stage, op>> => Fresh'
         /\ UNCHANGED <<stage, phase>> => Quiet'
<1>1. /\ AssocOK /\ StageOK /\ TcpOK /\ PacketsOK /\ SessionOK /\ CountOK
      /\ Fresh /\ Quiet
  BY Parts
<1>2. /\ UNCHANGED <<begun, current, lookups>> => AssocOK'
      /\ UNCHANGED <<stage, ticket>> => StageOK'
      /\ UNCHANGED <<carrier, op, outcome>> => TcpOK'
  BY <1>1 DEF AssocOK, StageOK, TcpOK
<1>3. UNCHANGED <<current, tunnel, queueing, backlog>> => PacketsOK'
  <2>1. SUFFICES ASSUME current' = current, tunnel' = tunnel, queueing' = queueing,
                        backlog' = backlog
                 PROVE  PacketsOK'
    OBVIOUS
  <2>2. QED
    BY <1>1, <2>1, Zenon DEF PacketsOK, NeverBypassed
<1>4. UNCHANGED <<reading, cleared, phase>> => SessionOK'
  BY <1>1, Zenon DEF SessionOK
<1>5. UNCHANGED <<lookups, stage, op, ops, strays>> => CountOK'
  BY <1>1 DEF CountOK, OpsExact, Attempts, Pending
<1>6. /\ UNCHANGED <<stage, op>> => Fresh'
      /\ UNCHANGED <<stage, phase>> => Quiet'
  BY <1>1 DEF Fresh, Quiet, aborted, Attempts
<1>7. QED
  BY <1>2, <1>3, <1>4, <1>5, <1>6

----------------------------------------------------------------------------
(* Counting                                                                       *)

LEMMA IdsFinite ==
  ASSUME NEW S \in SUBSET Ids
  PROVE  IsFiniteSet(S) /\ Cardinality(S) \in Nat
<1>1. IsFiniteSet(Ids)
  BY FS_Interval, UdpAssumption DEF Ids
<1>2. QED
  BY <1>1, FS_Subset, FS_CardinalityType

LEMMA OneMore ==
  ASSUME NEW S \in SUBSET Ids, NEW k \in Ids, k \notin S
  PROVE  Cardinality(S \union {k}) = Cardinality(S) + 1
  BY IdsFinite, FS_AddElement

LEMMA OneLess ==
  ASSUME NEW S \in SUBSET Ids, NEW k \in S
  PROVE  Cardinality(S \ {k}) = Cardinality(S) - 1
  BY IdsFinite, FS_RemoveElement

\* the sets that m_outstanding_ops counts
LEMMA Sets ==
  ASSUME TypeOK
  PROVE  lookups \in SUBSET Ids /\ Attempts \in SUBSET Ids /\ Pending \in SUBSET Ids
  BY UdpAssumption DEF TypeOK, Attempts, Pending, Ids

\* an attempt ends
LEMMA AttemptEnds ==
  ASSUME NEW k \in Attempts, NEW to \in {"done", "timedout"}, TypeOK,
         stage' = [stage EXCEPT ![k] = to]
  PROVE  /\ Attempts' = Attempts \ {k}
         /\ Cardinality(Attempts') = Cardinality(Attempts) - 1
<1>1. Attempts' = Attempts \ {k}
  BY DEF Attempts, TypeOK
<1>2. QED
  BY <1>1, OneLess, Sets, Zenon

\* an operation is started by who had none, ends, or is followed by another
LEMMA OpStarts ==
  ASSUME TypeOK, NEW k \in Ids, op[k] = "none", NEW step \in Steps \ {"none"},
         op' = [op EXCEPT ![k] = step]
  PROVE  Cardinality(Pending') = Cardinality(Pending) + 1
<1>1. Pending' = Pending \union {k} /\ k \notin Pending
  BY DEF Pending, TypeOK
<1>2. QED
  BY <1>1, OneMore, Sets, Zenon

LEMMA OpEnds ==
  ASSUME TypeOK, NEW k \in Pending, op' = [op EXCEPT ![k] = "none"]
  PROVE  Cardinality(Pending') = Cardinality(Pending) - 1
<1>1. Pending' = Pending \ {k}
  BY DEF Pending, TypeOK
<1>2. QED
  BY <1>1, OneLess, Sets, Zenon

LEMMA OpFollowed ==
  ASSUME TypeOK, NEW k \in Pending, NEW step \in Steps \ {"none"},
         op' = [op EXCEPT ![k] = step]
  PROVE  Pending' = Pending
  BY DEF Pending, TypeOK

\* what Start and closing do to outcomes
LEMMA OutcomeTypes ==
  ASSUME TypeOK
  PROVE  /\ Cancelled(outcome) \in [Ids -> {"waiting", "done", "failed", "aborted"}]
         /\ \A k \in Ids, how \in {"waiting", "done", "failed", "aborted"} :
              /\ [outcome EXCEPT ![k] = how] \in [Ids -> {"waiting", "done", "failed", "aborted"}]
              /\ [Cancelled(outcome) EXCEPT ![k] = how]
                   \in [Ids -> {"waiting", "done", "failed", "aborted"}]
  BY DEF TypeOK, Cancelled

\* the steps of the handshake are not the end of it
LEMMA FollowTypes ==
  /\ Steps = {"none", "connected", "hung_up", "handshake1", "handshake2", "handshake3",
              "handshake4", "connect1", "connect2"}
  /\ DOMAIN Follow = {"handshake1", "handshake2", "handshake3", "handshake4", "connect1", "connect2"}
  /\ \A step \in DOMAIN Follow : Follow[step] \subseteq Steps \ {"none"}
  BY DEF Steps, Follow

LEMMA InitIInv == Init => IInv
<1> SUFFICES ASSUME Init PROVE IInv
  OBVIOUS
<1>1. TypeOK
  <2>1. tunnel \in BOOLEAN /\ queueing \in BOOLEAN /\ reading \in BOOLEAN /\ cleared \in BOOLEAN
    BY Zenon DEF Init
  <2>2. stage \in [Ids -> {"none", "queued", "connected", "done", "timedout"}]
    BY DEF Init, Queue!Init
  <2>3. op \in [Ids -> Steps] /\ outcome \in [Ids -> {"waiting", "done", "failed", "aborted"}]
    BY DEF Init, Steps
  <2>4. /\ begun \in 0..MaxAssociations /\ current \in 0..begun /\ lookups \subseteq 1..begun
        /\ backlog \in 0..MaxPackets /\ ops \in Int /\ strays \in Nat
    BY UdpAssumption DEF Init, None
  <2>5. /\ carrier \in {None} \union Ids
        /\ ticket \in {None} \union {k \in Ids : stage[k] = "connected"}
        /\ phase \in {"running", "aborting", "aborted"}
    BY DEF Init
  <2>6. QED
    BY <2>1, <2>2, <2>3, <2>4, <2>5, Zenon DEF TypeOK
<1>2. lookups = {} /\ Attempts = {} /\ Pending = {}
  BY DEF Init, Queue!Init, Attempts, Pending
<1>3. OpsExact
  BY <1>2, FS_EmptySet DEF Init, OpsExact
<1>4. NeverBypassed /\ Fresh
  BY DEF Init, NeverBypassed, Fresh
<1>5. Quiet
  BY DEF Init, Quiet, aborted
<1>6. QED
  BY <1>1, <1>3, <1>4, <1>5 DEF IInv

----------------------------------------------------------------------------
(* The steps                                                                      *)

\* the count, from what became of the three sets
LEMMA CountKept ==
  ASSUME IInv, NEW dl \in Int, NEW da \in Int, NEW dp \in Int,
         Cardinality(lookups') = Cardinality(lookups) + dl,
         Cardinality(Attempts') = Cardinality(Attempts) + da,
         Cardinality(Pending') = Cardinality(Pending) + dp,
         NEW ds \in Nat, strays' = strays + ds,
         ops' = ops + dl + da + dp - ds
  PROVE  CountOK'
<1>1. TypeOK /\ OpsExact
  BY DEF IInv
<1>2. /\ Cardinality(lookups) \in Nat /\ Cardinality(Attempts) \in Nat
      /\ Cardinality(Pending) \in Nat
  BY <1>1, Sets, IdsFinite
<1>3. ops \in Int /\ strays \in Nat
  BY <1>1 DEF TypeOK
<1>4. PICK o, n, l, a, p \in Int :
        /\ o = ops' /\ n = strays' /\ l = Cardinality(lookups')
        /\ a = Cardinality(Attempts') /\ p = Cardinality(Pending')
  <2>1. /\ Cardinality(lookups) + dl \in Int /\ Cardinality(Attempts) + da \in Int
        /\ Cardinality(Pending) + dp \in Int
        /\ strays + ds \in Int /\ ops + dl + da + dp - ds \in Int
    BY <1>2, <1>3
  <2>2. QED
    BY <2>1
<1>5. /\ l = Cardinality(lookups) + dl /\ a = Cardinality(Attempts) + da
      /\ p = Cardinality(Pending) + dp /\ n = strays + ds /\ o = ops + dl + da + dp - ds
  BY <1>4
<1>6. ops + strays = Cardinality(lookups) + Cardinality(Attempts) + Cardinality(Pending)
  BY <1>1 DEF OpsExact
<1>7. o + n = l + a + p /\ n \in Nat
  BY <1>2, <1>3, <1>5, <1>6
<1>8. QED
  BY <1>4, <1>7 DEF OpsExact, CountOK

\* the three sets, where nothing moves them
LEMMA SetsKept ==
  ASSUME TypeOK
  PROVE  /\ UNCHANGED lookups => Cardinality(lookups') = Cardinality(lookups) + 0
         /\ UNCHANGED stage => /\ Attempts' = Attempts
                               /\ Cardinality(Attempts') = Cardinality(Attempts) + 0
         /\ UNCHANGED op => /\ Pending' = Pending
                            /\ Cardinality(Pending') = Cardinality(Pending) + 0
<1>1. /\ Cardinality(lookups) \in Nat /\ Cardinality(Attempts) \in Nat
      /\ Cardinality(Pending) \in Nat
  BY Sets, IdsFinite
<1>2. (UNCHANGED stage => Attempts' = Attempts) /\ (UNCHANGED op => Pending' = Pending)
  BY DEF Attempts, Pending
<1>3. QED
  BY <1>1, <1>2

\* a new association is looked up under a number of its own
LEMMA Associated ==
  ASSUME IInv, Associate
  PROVE  /\ begun' \in 0..MaxAssociations /\ current' \in 0..begun' /\ lookups' \subseteq 1..begun'
         /\ Cardinality(lookups') = Cardinality(lookups) + 1
         /\ tunnel' = FALSE /\ queueing' = TRUE
<1>1. begun \in Nat /\ begun < MaxAssociations /\ lookups \subseteq 1..begun
  BY UdpAssumption DEF IInv, TypeOK, Associate
<1>2. begun + 1 \in Ids /\ begun + 1 \notin lookups /\ lookups \in SUBSET Ids
  BY <1>1, UdpAssumption DEF Ids
<1>3. Cardinality(lookups \union {begun + 1}) = Cardinality(lookups) + 1
  BY <1>2, OneMore
<1>4. /\ begun' = begun + 1 /\ current' = begun + 1 /\ lookups' = lookups \union {begun + 1}
      /\ tunnel' = FALSE /\ queueing' = TRUE
  BY Zenon DEF Associate, QueueingAgain
<1>5. QED
  BY <1>1, <1>3, <1>4, UdpAssumption

LEMMA Dissociated ==
  ASSUME IInv, Dissociate
  PROVE  /\ begun' \in 0..MaxAssociations /\ current' \in 0..begun' /\ lookups' \subseteq 1..begun'
         /\ Cardinality(lookups') = Cardinality(lookups) + 0
         /\ current' = None /\ tunnel' = FALSE /\ queueing' = queueing
  BY SetsKept, UdpAssumption DEF Dissociate, IInv, TypeOK, None

LEMMA SetProxySettingsIInv ==
  ASSUME IInv, SetProxySettings
  PROVE  IInv'
<1>1. TypeOK /\ StageOK /\ TcpOK /\ PacketsOK
  BY Parts, Zenon DEF IInv
<1>2. /\ UNCHANGED <<stage, ticket, op, backlog, reading, phase, cleared, strays>>
      /\ carrier' = None /\ outcome' = Cancelled(outcome)
  BY DEF SetProxySettings, CloseSock
<1>3. StageOK' /\ SessionOK' /\ Fresh' /\ Quiet'
  BY <1>2, PartsKept
<1>4. TcpOK'
  BY <1>1, <1>2, OutcomeTypes DEF TcpOK, Outcomes
<1>5. /\ Cardinality(Attempts') = Cardinality(Attempts) + 0
      /\ Cardinality(Pending') = Cardinality(Pending) + 0
      /\ strays' = strays + 0 /\ ops \in Int
  BY <1>1, <1>2, SetsKept DEF TypeOK
<1>6. CASE Associate /\ ops' = ops + 1
  <2>1. AssocOK' /\ tunnel' = FALSE /\ queueing' = TRUE
    BY <1>6, Associated DEF AssocOK
  <2>2. ops' = ops + 1 + 0 + 0 - 0
    BY <1>5, <1>6
  <2>3. CountOK'
    BY <1>5, <1>6, <2>2, Associated, CountKept
  <2>4. PacketsOK'
    BY <1>1, <1>2, <2>1, Zenon DEF PacketsOK, NeverBypassed
  <2>5. QED
    BY <1>3, <1>4, <2>1, <2>3, <2>4, PartsNext
<1>7. CASE Dissociate /\ ops' = ops
  <2>1. AssocOK' /\ current' = None /\ tunnel' = FALSE /\ queueing' = queueing
    BY <1>7, Dissociated DEF AssocOK
  <2>2. ops' = ops + 0 + 0 + 0 - 0
    BY <1>5, <1>7
  <2>3. CountOK'
    BY <1>5, <1>7, <2>2, Dissociated, CountKept
  <2>4. PacketsOK'
    BY <1>1, <1>2, <2>1, Zenon DEF PacketsOK, NeverBypassed
  <2>5. QED
    BY <1>3, <1>4, <2>1, <2>3, <2>4, PartsNext
<1>8. QED
  BY <1>6, <1>7, Zenon DEF SetProxySettings

LEMMA OnNameLookupIInv ==
  ASSUME IInv, NEW k \in Ids, OnNameLookup(k)
  PROVE  IInv'
<1>1. TypeOK /\ AssocOK /\ StageOK /\ SessionOK /\ Fresh /\ Quiet
  BY Parts, Zenon DEF IInv
<1>2. /\ UNCHANGED <<begun, current, ticket, tcp, packets, reading, phase, strays>>
      /\ k \in lookups /\ lookups' = lookups \ {k}
  BY DEF OnNameLookup
<1>3. UNCHANGED <<carrier, op, outcome, tunnel, queueing, backlog>>
  BY <1>2 DEF tcp, packets
<1>4. TcpOK' /\ PacketsOK' /\ AssocOK'
  BY <1>1, <1>2, <1>3, PartsKept DEF AssocOK
<1>5. /\ Cardinality(lookups') = Cardinality(lookups) + (-1)
      /\ Cardinality(Pending') = Cardinality(Pending) + 0
      /\ strays' = strays + 0 /\ ops \in Int
  <2>1. lookups \in SUBSET Ids /\ Cardinality(lookups) \in Nat
    BY <1>1, Sets, IdsFinite
  <2>2. Cardinality(lookups \ {k}) = Cardinality(lookups) - 1
    BY <1>2, <2>1, OneLess
  <2>3. QED
    BY <1>1, <1>2, <1>3, <2>1, <2>2, SetsKept DEF TypeOK
<1>6. CASE ~aborted /\ Queue!Enqueue(k) /\ UNCHANGED <<ops, cleared>>
  <2>1. stage[k] = "none" /\ stage' = [stage EXCEPT ![k] = "queued"]
    BY <1>6 DEF Queue!Enqueue, Queue!Moves
  <2>2. Attempts' = Attempts \union {k} /\ k \notin Attempts /\ Attempts \in SUBSET Ids
    BY <1>1, <2>1 DEF Attempts, StageOK
  <2>3. Cardinality(Attempts') = Cardinality(Attempts) + 1
    BY <2>2, OneMore, Zenon
  <2>4. ops' = ops + (-1) + 1 + 0 - 0
    BY <1>5, <1>6
  <2>5. CountOK'
    BY <1>5, <2>3, <2>4, CountKept
  <2>6. StageOK' /\ Fresh'
    BY <1>1, <1>2, <1>3, <2>1 DEF StageOK, Stages, Fresh
  <2>7. SessionOK' /\ Quiet'
    BY <1>2, <1>6, PartsKept DEF Quiet, aborted
  <2>8. QED
    BY <1>4, <2>5, <2>6, <2>7, PartsNext
<1>7. CASE /\ ops' = ops - 1
           /\ IF aborted THEN MaybeClear(ops') ELSE UNCHANGED cleared
           /\ UNCHANGED stage
  <2>1. StageOK' /\ Fresh' /\ Quiet'
    BY <1>2, <1>3, <1>7, PartsKept
  <2>2. SessionOK'
    BY <1>1, <1>2, <1>7, Zenon DEF SessionOK, MaybeClear
  <2>3. Cardinality(Attempts') = Cardinality(Attempts) + 0
    BY <1>1, <1>7, SetsKept
  <2>4. ops' = ops + (-1) + 0 + 0 - 0
    BY <1>5, <1>7
  <2>5. CountOK'
    BY <1>5, <2>3, <2>4, CountKept
  <2>6. QED
    BY <1>4, <2>1, <2>2, <2>5, PartsNext
<1>8. QED
  BY <1>6, <1>7, Zenon DEF OnNameLookup

LEMMA OnConnectIInv ==
  ASSUME IInv, NEW k \in Ids, OnConnect(k)
  PROVE  IInv'
<1>1. TypeOK /\ StageOK /\ TcpOK /\ Fresh /\ Quiet
  BY Parts, Zenon DEF IInv
<1>2. /\ UNCHANGED <<begun, current, lookups, packets, reading, phase, strays>>
      /\ stage[k] = "queued" /\ stage' = [stage EXCEPT ![k] = "connected"]
  BY DEF OnConnect, Queue!OnConnect, Queue!Moves
<1>3. ~aborted
  BY <1>2 DEF Attempts, Quiet, IInv
<1>4. /\ ticket' = k /\ ops' = ops + 1 /\ op' = [op EXCEPT ![k] = "connected"]
      /\ \/ carrier' = k /\ outcome' = [outcome EXCEPT ![k] = "waiting"]
         \/ outcome' = [outcome EXCEPT ![k] = "failed"] /\ UNCHANGED carrier
      /\ UNCHANGED cleared
  BY <1>3, Zenon DEF OnConnect
<1>5. AssocOK' /\ PacketsOK' /\ SessionOK'
  BY <1>2, <1>4, PartsKept DEF packets
<1>6. op[k] = "none"
  BY <1>1, <1>2 DEF Fresh
<1>7. StageOK' /\ Fresh' /\ Quiet'
  BY <1>1, <1>2, <1>3, <1>4 DEF StageOK, TcpOK, Stages, Fresh, Quiet, aborted
<1>8. TcpOK'
  <2>1. "connected" \in Steps
    BY DEF Steps
  <2>2. QED
    BY <1>1, <1>4, <2>1 DEF TcpOK, Outcomes
<1>9. CountOK'
  <2>1. Attempts' = Attempts
    BY <1>1, <1>2 DEF Attempts, StageOK
  <2>2. "connected" \in Steps \ {"none"}
    BY DEF Steps
  <2>3. Cardinality(Pending') = Cardinality(Pending) + 1
    BY <1>1, <1>4, <1>6, <2>2, OpStarts
  <2>4. Cardinality(lookups') = Cardinality(lookups) + 0
    BY <1>1, <1>2, SetsKept
  <2>5. Cardinality(Attempts') = Cardinality(Attempts) + 0
    BY <1>1, <2>1, Sets, IdsFinite
  <2>6. ops' = ops + 0 + 0 + 1 - 0 /\ strays' = strays + 0
    BY <1>1, <1>2, <1>4 DEF TypeOK
  <2>7. QED
    BY <2>3, <2>4, <2>5, <2>6, CountKept
<1>10. QED
  BY <1>5, <1>7, <1>8, <1>9, PartsNext

LEMMA OnTimeoutIInv ==
  ASSUME IInv, NEW k \in Ids, OnTimeout(k)
  PROVE  IInv'
<1>1. TypeOK /\ StageOK /\ TcpOK /\ Fresh /\ Quiet
  BY Parts, Zenon DEF IInv
<1>2. /\ UNCHANGED <<begun, current, lookups, op, packets, reading, phase, strays>>
      /\ k \in Attempts /\ stage' = [stage EXCEPT ![k] = "timedout"] /\ ops' = ops - 1
  BY DEF OnTimeout, Queue!OnTimeout, Queue!Moves, Attempts
<1>3. ~aborted
  BY <1>2 DEF Quiet, IInv
<1>4. carrier' = None /\ outcome' = Cancelled(outcome) /\ ticket' = None /\ UNCHANGED cleared
  BY <1>3, Zenon DEF OnTimeout, CloseSock, Forgotten
<1>5. AssocOK' /\ PacketsOK' /\ SessionOK'
  BY <1>2, <1>4, PartsKept DEF packets
<1>6. StageOK' /\ Fresh' /\ Quiet'
  BY <1>1, <1>2, <1>3, <1>4 DEF StageOK, Stages, Fresh, Quiet, aborted
<1>7. TcpOK'
  BY <1>1, <1>2, <1>4, OutcomeTypes DEF TcpOK, Outcomes
<1>8. CountOK'
  <2>1. Cardinality(Attempts') = Cardinality(Attempts) - 1
    BY <1>1, <1>2, AttemptEnds
  <2>2. Cardinality(Attempts) \in Nat
    BY <1>1, Sets, IdsFinite
  <2>3. /\ Cardinality(lookups') = Cardinality(lookups) + 0
        /\ Cardinality(Pending') = Cardinality(Pending) + 0
    BY <1>1, <1>2, SetsKept
  <2>4. Cardinality(Attempts') = Cardinality(Attempts) + (-1)
    BY <2>1, <2>2
  <2>5. ops' = ops + 0 + (-1) + 0 - 0 /\ strays' = strays + 0
    BY <1>1, <1>2 DEF TypeOK
  <2>6. QED
    BY <2>3, <2>4, <2>5, CountKept
<1>9. QED
  BY <1>5, <1>6, <1>7, <1>8, PartsNext

\* done() ends the attempt the ticket names, or finds no ticket
LEMMA DoneTicketEnds ==
  ASSUME IInv, NEW n \in Int, DoneTicket(n)
  PROVE  /\ StageOK' /\ ticket' = None
         /\ \A k \in Ids : stage'[k] \in {"none", "queued"} => stage'[k] = stage[k]
         /\ \/ /\ Cardinality(Attempts') = Cardinality(Attempts) + (-1)
               /\ strays' = strays + 0 /\ ops' = n - 1
            \/ /\ Cardinality(Attempts') = Cardinality(Attempts) + 0
               /\ strays' = strays + 1 /\ ops' = n - 1
<1>1. TypeOK /\ StageOK
  BY Parts, Zenon DEF IInv
<1>2. ticket' = None /\ ops' = n - 1
  BY DEF DoneTicket, Returned
<1>3. Cardinality(Attempts) \in Nat /\ strays \in Nat
  BY <1>1, Sets, IdsFinite DEF TypeOK
<1>4. CASE ticket = None
  <2>1. strays' = strays + 1 /\ UNCHANGED stage
    BY <1>4 DEF DoneTicket
  <2>2. StageOK'
    BY <1>1, <1>2, <2>1 DEF StageOK
  <2>3. Cardinality(Attempts') = Cardinality(Attempts) + 0
    BY <1>1, <2>1, SetsKept
  <2>4. QED
    BY <1>2, <2>1, <2>2, <2>3
<1>5. CASE ticket # None
  <2>1. stage' = [stage EXCEPT ![ticket] = "done"] /\ UNCHANGED strays
    BY <1>5 DEF DoneTicket, Queue!Done, Queue!Moves
  <2>2. ticket \in Ids /\ stage[ticket] = "connected"
    BY <1>1, <1>5 DEF StageOK
  <2>3. StageOK' /\ \A k \in Ids : stage'[k] \in {"none", "queued"} => stage'[k] = stage[k]
    BY <1>1, <1>2, <2>1, <2>2 DEF StageOK, Stages
  <2>4. Cardinality(Attempts') = Cardinality(Attempts) - 1
    <3>1. PICK t \in Ids : t = ticket
      BY <2>2
    <3>2. t \in Attempts /\ stage' = [stage EXCEPT ![t] = "done"]
      BY <2>1, <2>2, <3>1 DEF Attempts
    <3>3. QED
      BY <1>1, <3>2, AttemptEnds
  <2>5. Cardinality(Attempts') = Cardinality(Attempts) + (-1) /\ strays' = strays + 0
    BY <1>3, <2>1, <2>4
  <2>6. QED
    BY <1>2, <2>3, <2>5
<1>6. QED
  BY <1>4, <1>5

LEMMA OnConnectedIInv ==
  ASSUME IInv, NEW k \in Ids, OnConnected(k)
  PROVE  IInv'
<1>1. TypeOK /\ StageOK /\ TcpOK /\ SessionOK /\ Fresh /\ Quiet
  BY Parts, Zenon DEF IInv
<1>2. /\ UNCHANGED <<begun, current, lookups, carrier, packets, reading, phase>>
      /\ op[k] = "connected" /\ k \in Pending
  BY DEF OnConnected, Pending
<1>3. AssocOK' /\ PacketsOK'
  BY <1>2, PartsKept DEF packets
<1>4. /\ Cardinality(lookups') = Cardinality(lookups) + 0
      /\ ops \in Int /\ ops - 1 \in Int /\ Cardinality(Pending) \in Nat
  BY <1>1, <1>2, SetsKept, Sets, IdsFinite DEF TypeOK
<1>5. ASSUME Ends(k)
      PROVE  /\ TcpOK' /\ Cardinality(Pending') = Cardinality(Pending) + (-1)
             /\ \A j \in Ids : op[j] = "none" => op'[j] = "none"
  <2>1. op' = [op EXCEPT ![k] = "none"] /\ outcome' = [outcome EXCEPT ![k] = "waiting"]
    BY <1>5 DEF Ends
  <2>2. TcpOK'
    BY <1>1, <1>2, <2>1 DEF TcpOK, Outcomes, Steps
  <2>3. Cardinality(Pending') = Cardinality(Pending) - 1
    BY <1>1, <1>2, <2>1, OpEnds
  <2>4. QED
    BY <1>1, <1>4, <2>1, <2>2, <2>3 DEF TcpOK
<1>6. CASE /\ aborted \/ outcome[k] = "aborted"
           /\ ops' = ops - 1
           /\ IF aborted THEN MaybeClear(ops') ELSE UNCHANGED cleared
           /\ Ends(k)
           /\ UNCHANGED <<stage, ticket, strays>>
  <2>1. StageOK' /\ Quiet' /\ Cardinality(Attempts') = Cardinality(Attempts) + 0
    BY <1>1, <1>2, <1>6, PartsKept, SetsKept
  <2>2. SessionOK'
    BY <1>1, <1>2, <1>6, Zenon DEF SessionOK, MaybeClear
  <2>3. ops' = ops + 0 + 0 + (-1) - 0 /\ strays' = strays + 0
    BY <1>1, <1>4, <1>6 DEF TypeOK
  <2>4. /\ TcpOK' /\ Cardinality(Pending') = Cardinality(Pending) + (-1)
        /\ \A j \in Ids : op[j] = "none" => op'[j] = "none"
    BY <1>5, <1>6
  <2>5. CountOK'
    <3>1. /\ Cardinality(lookups') = Cardinality(lookups) + 0
          /\ Cardinality(Attempts') = Cardinality(Attempts) + 0
          /\ Cardinality(Pending') = Cardinality(Pending) + (-1)
      BY <1>4, <2>1, <2>4
    <3>2. QED
      BY <2>3, <3>1, CountKept
  <2>6. Fresh'
    BY <1>1, <1>6, <2>4 DEF Fresh
  <2>7. QED
    BY <1>3, <2>1, <2>2, <2>4, <2>5, <2>6, PartsNext
<1>7. CASE ~aborted /\ DoneTicket(ops - 1) /\ Ends(k) /\ UNCHANGED cleared
  <2>1. PICK n \in Int : n = ops - 1
    BY <1>4
  <2>2. /\ StageOK' /\ \A j \in Ids : stage'[j] \in {"none", "queued"} => stage'[j] = stage[j]
        /\ \/ /\ Cardinality(Attempts') = Cardinality(Attempts) + (-1)
              /\ strays' = strays + 0 /\ ops' = n - 1
           \/ /\ Cardinality(Attempts') = Cardinality(Attempts) + 0
              /\ strays' = strays + 1 /\ ops' = n - 1
    BY <1>7, <2>1, DoneTicketEnds
  <2>3. /\ TcpOK' /\ Cardinality(Pending') = Cardinality(Pending) + (-1)
        /\ \A j \in Ids : op[j] = "none" => op'[j] = "none"
    BY <1>5, <1>7
  <2>4. CountOK'
    <3>1. CASE /\ Cardinality(Attempts') = Cardinality(Attempts) + (-1)
               /\ strays' = strays + 0 /\ ops' = n - 1
      <4>1. ops' = ops + 0 + (-1) + (-1) - 0
        BY <1>4, <2>1, <3>1
      <4>2. QED
        BY <1>4, <2>3, <3>1, <4>1, CountKept
    <3>2. CASE /\ Cardinality(Attempts') = Cardinality(Attempts) + 0
               /\ strays' = strays + 1 /\ ops' = n - 1
      <4>1. ops' = ops + 0 + 0 + (-1) - 1
        BY <1>4, <2>1, <3>2
      <4>2. QED
        BY <1>4, <2>3, <3>2, <4>1, CountKept
    <3>3. QED
      BY <2>2, <3>1, <3>2
  <2>5. Fresh'
    BY <1>1, <2>2, <2>3 DEF Fresh
  <2>6. SessionOK' /\ Quiet'
    BY <1>2, <1>7, PartsKept DEF Quiet, aborted
  <2>7. QED
    BY <1>3, <2>2, <2>3, <2>4, <2>5, <2>6, PartsNext
<1>8. CASE ~aborted /\ DoneTicket(ops) /\ Start(k, "handshake1") /\ UNCHANGED cleared
  <2>1. /\ StageOK' /\ \A j \in Ids : stage'[j] \in {"none", "queued"} => stage'[j] = stage[j]
        /\ \/ /\ Cardinality(Attempts') = Cardinality(Attempts) + (-1)
              /\ strays' = strays + 0 /\ ops' = ops - 1
           \/ /\ Cardinality(Attempts') = Cardinality(Attempts) + 0
              /\ strays' = strays + 1 /\ ops' = ops - 1
    <3>1. PICK n \in Int : n = ops
      BY <1>4
    <3>2. QED
      BY <1>8, <3>1, DoneTicketEnds
  <2>2. op' = [op EXCEPT ![k] = "handshake1"] /\ "handshake1" \in Steps \ {"none"}
    BY <1>8, FollowTypes DEF Start
  <2>3. \E how \in Outcomes : outcome' = [outcome EXCEPT ![k] = how]
    BY <1>8 DEF Start, Outcomes
  <2>4. TcpOK'
    BY <1>1, <1>2, <2>2, <2>3 DEF TcpOK
  <2>5. Cardinality(Pending') = Cardinality(Pending) + 0
    <3>1. Pending' = Pending
      BY <1>1, <1>2, <2>2, OpFollowed
    <3>2. QED
      BY <1>4, <3>1
  <2>6. CountOK'
    <3>1. CASE /\ Cardinality(Attempts') = Cardinality(Attempts) + (-1)
               /\ strays' = strays + 0 /\ ops' = ops - 1
      <4>1. ops' = ops + 0 + (-1) + 0 - 0
        BY <1>4, <3>1
      <4>2. QED
        BY <1>4, <2>5, <3>1, <4>1, CountKept
    <3>2. CASE /\ Cardinality(Attempts') = Cardinality(Attempts) + 0
               /\ strays' = strays + 1 /\ ops' = ops - 1
      <4>1. ops' = ops + 0 + 0 + 0 - 1
        BY <1>4, <3>2
      <4>2. QED
        BY <1>4, <2>5, <3>2, <4>1, CountKept
    <3>3. QED
      BY <2>1, <3>1, <3>2
  <2>7. Fresh'
    BY <1>1, <1>2, <2>1, <2>2 DEF Fresh, TcpOK
  <2>8. SessionOK' /\ Quiet'
    BY <1>2, <1>8, PartsKept DEF Quiet, aborted
  <2>9. QED
    BY <1>3, <2>1, <2>4, <2>6, <2>7, <2>8, PartsNext
<1>9. QED
  BY <1>6, <1>7, <1>8, Zenon DEF OnConnected

LEMMA HandshakeIInv ==
  ASSUME IInv, NEW k \in Ids, Handshake(k)
  PROVE  IInv'
<1>1. TypeOK /\ TcpOK /\ PacketsOK /\ SessionOK /\ Fresh
  BY Parts, Zenon DEF IInv
<1>2. /\ UNCHANGED <<begun, current, lookups, stage, ticket, reading, phase, strays>>
      /\ op[k] \in DOMAIN Follow /\ k \in Pending
  BY FollowTypes DEF Handshake, Pending
<1>3. AssocOK' /\ StageOK' /\ Quiet'
  BY <1>2, PartsKept
<1>4. /\ Cardinality(lookups') = Cardinality(lookups) + 0
      /\ Cardinality(Attempts') = Cardinality(Attempts) + 0
      /\ ops \in Int /\ strays' = strays + 0 /\ Cardinality(Pending) \in Nat
  BY <1>1, <1>2, SetsKept, Sets, IdsFinite DEF TypeOK
<1>5. backlog \in 0..MaxPackets /\ 0 \in 0..MaxPackets
  BY <1>1, UdpAssumption DEF TypeOK
<1>6. ASSUME op' = [op EXCEPT ![k] = "none"], ops' = ops - 1
      PROVE  CountOK' /\ Fresh'
  <2>1. Cardinality(Pending') = Cardinality(Pending) - 1
    BY <1>1, <1>2, <1>6, OpEnds
  <2>2. Cardinality(Pending') = Cardinality(Pending) + (-1) /\ ops' = ops + 0 + 0 + (-1) - 0
    BY <1>4, <1>6, <2>1
  <2>3. CountOK'
    BY <1>4, <2>2, CountKept
  <2>4. QED
    BY <1>1, <1>2, <1>6, <2>3 DEF Fresh, TcpOK
<1>7. CASE Fails(k)
  <2>1. /\ op' = [op EXCEPT ![k] = "none"] /\ outcome' = [outcome EXCEPT ![k] = "waiting"]
        /\ ops' = ops - 1 /\ UNCHANGED <<carrier, tunnel, queueing>>
        /\ backlog' = 0 \/ backlog' = backlog
    BY <1>7 DEF Fails, Ends
  <2>2. TcpOK'
    BY <1>1, <2>1 DEF TcpOK, Outcomes, Steps
  <2>3. PacketsOK'
    <3>1. current' = current /\ tunnel' = tunnel /\ queueing' = queueing
      BY <1>2, <2>1
    <3>2. backlog' \in 0..MaxPackets
      BY <1>5, <2>1
    <3>3. tunnel => backlog' = 0
      BY <1>1, <2>1, Zenon DEF PacketsOK, NeverBypassed
    <3>4. QED
      BY <1>1, <3>1, <3>2, <3>3, Zenon DEF PacketsOK, NeverBypassed
  <2>4. SessionOK'
    <3>1. IF aborted THEN MaybeClear(ops') ELSE UNCHANGED cleared
      BY <1>7, Zenon DEF Fails
    <3>2. QED
      BY <1>1, <1>2, <3>1, Zenon DEF SessionOK, MaybeClear
  <2>5. QED
    BY <1>3, <1>6, <2>1, <2>2, <2>3, <2>4, PartsNext
<1>8. CASE Refuses(k)
  <2>1. /\ op' = [op EXCEPT ![k] = "none"]
        /\ outcome' = [Cancelled(outcome) EXCEPT ![k] = "waiting"]
        /\ carrier' = None /\ ops' = ops - 1 /\ UNCHANGED <<packets, cleared>>
    BY <1>8 DEF Refuses
  <2>2. TcpOK'
    BY <1>1, <2>1, OutcomeTypes DEF TcpOK, Outcomes, Steps
  <2>3. PacketsOK' /\ SessionOK'
    BY <1>2, <2>1, PartsKept DEF packets
  <2>4. QED
    BY <1>3, <1>6, <2>1, <2>2, <2>3, PartsNext
<1>9. CASE Proceeds(k)
  <2>1. UNCHANGED <<carrier, ops, cleared>>
    BY <1>9 DEF Proceeds
  <2>2. PICK step \in Steps \ {"none"} : Start(k, step)
    BY <1>2, <1>9, FollowTypes DEF Proceeds
  <2>3. op' = [op EXCEPT ![k] = step] /\ \E how \in Outcomes : outcome' = [outcome EXCEPT ![k] = how]
    BY <2>2 DEF Start, Outcomes
  <2>4. TcpOK'
    BY <1>1, <2>1, <2>3 DEF TcpOK
  <2>5. CountOK'
    <3>1. Pending' = Pending
      BY <1>1, <1>2, <2>3, OpFollowed
    <3>2. Cardinality(Pending') = Cardinality(Pending) + 0 /\ ops' = ops + 0 + 0 + 0 - 0
      BY <1>4, <2>1, <3>1
    <3>3. QED
      BY <1>4, <3>2, CountKept
  <2>6. Fresh'
    BY <1>1, <1>2, <2>3, FollowTypes DEF Fresh, TcpOK
  <2>7. SessionOK'
    BY <1>2, <2>1, PartsKept
  <2>8. PacketsOK'
    <3>1. CASE op[k] = "connect2"
      <4>1. tunnel' = TRUE /\ queueing' = FALSE /\ backlog' = 0
        BY <1>9, <3>1, Zenon DEF Proceeds
      <4>2. QED
        BY <1>5, <4>1 DEF PacketsOK, NeverBypassed
    <3>2. CASE op[k] # "connect2"
      <4>1. UNCHANGED packets
        BY <1>9, <3>2, Zenon DEF Proceeds
      <4>2. QED
        BY <1>2, <4>1, PartsKept DEF packets
    <3>3. QED
      BY <3>1, <3>2
  <2>9. QED
    BY <1>3, <2>4, <2>5, <2>6, <2>7, <2>8, PartsNext
<1>10. QED
  BY <1>7, <1>8, <1>9, Zenon DEF Handshake

LEMMA HungUpIInv ==
  ASSUME IInv, NEW k \in Ids, HungUp(k)
  PROVE  IInv'
<1>1. TypeOK /\ TcpOK /\ PacketsOK /\ SessionOK /\ Fresh
  BY Parts, Zenon DEF IInv
<1>2. /\ UNCHANGED <<stage, ticket, backlog, reading, phase, strays>>
      /\ op[k] = "hung_up" /\ k \in Pending /\ op' = [op EXCEPT ![k] = "none"]
  BY DEF HungUp, Pending
<1>3. StageOK' /\ Quiet' /\ Fresh'
  BY <1>1, <1>2, PartsKept DEF Fresh, TcpOK
<1>4. /\ Cardinality(Attempts') = Cardinality(Attempts) + 0
      /\ Cardinality(Pending') = Cardinality(Pending) + (-1)
      /\ ops \in Int /\ strays' = strays + 0
  <2>1. Cardinality(Pending') = Cardinality(Pending) - 1
    BY <1>1, <1>2, OpEnds
  <2>2. Cardinality(Pending) \in Nat
    BY <1>1, Sets, IdsFinite
  <2>3. QED
    BY <1>1, <1>2, <2>1, <2>2, SetsKept DEF TypeOK
<1>5. CASE /\ ops' = ops - 1
           /\ outcome' = [outcome EXCEPT ![k] = "waiting"]
           /\ IF aborted THEN MaybeClear(ops') ELSE UNCHANGED cleared
           /\ UNCHANGED <<begun, current, lookups, carrier, tunnel, queueing>>
  <2>1. AssocOK' /\ PacketsOK'
    BY <1>2, <1>5, PartsKept
  <2>2. TcpOK'
    BY <1>1, <1>2, <1>5 DEF TcpOK, Outcomes, Steps
  <2>3. SessionOK'
    BY <1>1, <1>2, <1>5, Zenon DEF SessionOK, MaybeClear
  <2>4. Cardinality(lookups') = Cardinality(lookups) + 0
    BY <1>1, <1>5, SetsKept
  <2>5. ops' = ops + 0 + 0 + (-1) - 0
    BY <1>4, <1>5
  <2>6. CountOK'
    BY <1>4, <2>4, <2>5, CountKept
  <2>7. QED
    BY <1>3, <2>1, <2>2, <2>3, <2>6, PartsNext
<1>6. CASE /\ carrier' = None
           /\ outcome' = [Cancelled(outcome) EXCEPT ![k] = "waiting"]
           /\ \/ current # None /\ Associate /\ ops' = ops
              \/ current = None /\ Dissociate /\ ops' = ops - 1
           /\ UNCHANGED cleared
  <2>1. TcpOK'
    BY <1>1, <1>2, <1>6, OutcomeTypes DEF TcpOK, Outcomes, Steps
  <2>2. SessionOK'
    BY <1>2, <1>6, PartsKept
  <2>3. CASE Associate /\ ops' = ops
    <3>1. AssocOK' /\ tunnel' = FALSE /\ queueing' = TRUE
      BY <2>3, Associated DEF AssocOK
    <3>2. PacketsOK'
      BY <1>1, <1>2, <3>1, Zenon DEF PacketsOK, NeverBypassed
    <3>3. ops' = ops + 1 + 0 + (-1) - 0
      BY <1>4, <2>3
    <3>4. CountOK'
      BY <1>4, <2>3, <3>3, Associated, CountKept
    <3>5. QED
      BY <1>3, <2>1, <2>2, <3>1, <3>2, <3>4, PartsNext
  <2>4. CASE Dissociate /\ ops' = ops - 1
    <3>1. AssocOK' /\ current' = None /\ tunnel' = FALSE /\ queueing' = queueing
      BY <2>4, Dissociated DEF AssocOK
    <3>2. PacketsOK'
      BY <1>1, <1>2, <3>1, Zenon DEF PacketsOK, NeverBypassed
    <3>3. ops' = ops + 0 + 0 + (-1) - 0
      BY <1>4, <2>4
    <3>4. CountOK'
      BY <1>4, <2>4, <3>3, Dissociated, CountKept
    <3>5. QED
      BY <1>3, <2>1, <2>2, <3>1, <3>2, <3>4, PartsNext
  <2>5. QED
    BY <1>6, <2>3, <2>4
<1>7. QED
  BY <1>5, <1>6, Zenon DEF HungUp

LEMMA SendIInv ==
  ASSUME IInv, Send
  PROVE  IInv'
<1>1. TypeOK /\ PacketsOK
  BY Parts, Zenon DEF IInv
<1>2. /\ UNCHANGED <<begun, current, lookups, stage, ticket, tcp, tunnel, queueing, reading, ops,
                     phase, cleared, strays>>
      /\ ~tunnel /\ backlog < MaxPackets /\ backlog' = backlog + 1
  BY DEF Send
<1>3. AssocOK' /\ StageOK' /\ TcpOK' /\ SessionOK' /\ CountOK' /\ Fresh' /\ Quiet'
  BY <1>2, PartsKept DEF tcp
<1>4. backlog' \in 0..MaxPackets
  BY <1>1, <1>2, UdpAssumption DEF TypeOK
<1>5. current' = current /\ tunnel' = tunnel /\ queueing' = queueing /\ ~tunnel
  BY <1>2
<1>6. PacketsOK'
  BY <1>1, <1>4, <1>5, Zenon DEF PacketsOK, NeverBypassed
<1>7. QED
  BY <1>3, <1>6, PartsNext

\* the steps that only move what SessionOK is about
LEMMA SessionSteps ==
  ASSUME IInv, OnRead \/ Abort
  PROVE  IInv'
<1>1. SessionOK /\ Quiet
  BY Parts, Zenon DEF IInv
<1>2. UNCHANGED <<begun, current, lookups, stage, ticket, carrier, op, outcome, tunnel, queueing,
                  backlog, ops, strays>>
  BY DEF OnRead, Abort, tcp, packets
<1>3. AssocOK' /\ StageOK' /\ TcpOK' /\ PacketsOK' /\ CountOK' /\ Fresh'
  BY <1>2, PartsKept
<1>4. CASE OnRead
  <2>1. reading' = FALSE /\ cleared' = (cleared \/ ops = 0) /\ phase' = phase
    BY <1>4, Zenon DEF OnRead
  <2>2. SessionOK'
    BY <1>1, <2>1, Zenon DEF SessionOK
  <2>3. QED
    BY <1>2, <1>3, <2>1, <2>2, PartsKept, PartsNext
<1>5. CASE Abort
  <2>1. phase' = "aborting" /\ reading' = reading /\ cleared' = cleared
    BY <1>5 DEF Abort
  <2>2. SessionOK' /\ Quiet'
    BY <1>1, <2>1, Zenon DEF SessionOK, Quiet, aborted
  <2>3. QED
    BY <1>3, <2>2, PartsNext
<1>6. QED
  BY <1>4, <1>5

\* when the socket is closed the queue has ended the attempt of the ticket
LEMMA CloseIInv ==
  ASSUME IInv, Close
  PROVE  IInv'
<1>1. TypeOK /\ StageOK /\ TcpOK /\ SessionOK
  BY Parts, Zenon DEF IInv
<1>2. /\ UNCHANGED <<begun, current, lookups, carrier, op, packets, reading, strays>>
      /\ Attempts = {} /\ phase' = "aborted" /\ outcome' = Cancelled(outcome)
  BY DEF Close, QueueClosed
<1>3. ticket = None
  BY <1>1, <1>2 DEF StageOK, Attempts
<1>4. UNCHANGED <<stage, ticket, ops>>
  BY <1>3, Zenon DEF Close
<1>5. AssocOK' /\ StageOK' /\ PacketsOK' /\ CountOK' /\ Fresh'
  BY <1>2, <1>4, PartsKept DEF packets
<1>6. TcpOK'
  BY <1>1, <1>2, OutcomeTypes DEF TcpOK, Outcomes
<1>7. SessionOK'
  <2>1. cleared' = (cleared \/ (ops' = 0 /\ ~reading))
    BY Zenon DEF Close, MaybeClear
  <2>2. reading' = reading
    BY <1>2
  <2>3. QED
    BY <1>1, <1>2, <2>1, <2>2, Zenon DEF SessionOK
<1>8. Quiet'
  BY <1>2, <1>4 DEF Quiet, Attempts
<1>9. QED
  BY <1>5, <1>6, <1>7, <1>8, PartsNext

LEMMA CompletesIInv ==
  ASSUME IInv, NEW k \in Ids, Completes(k)
  PROVE  IInv'
<1>1. TcpOK
  BY Parts
<1>2. /\ UNCHANGED <<begun, current, lookups, stage, ticket, op, packets, reading, ops, phase,
                     cleared, strays>>
      /\ \E how \in Outcomes : outcome' = [outcome EXCEPT ![k] = how]
      /\ carrier' \in {None, carrier}
  BY DEF Completes, Outcomes
<1>3. /\ AssocOK' /\ StageOK' /\ PacketsOK' /\ SessionOK' /\ CountOK' /\ Fresh' /\ Quiet'
  BY <1>2, PartsKept DEF packets
<1>4. TcpOK'
  BY <1>1, <1>2 DEF TcpOK
<1>5. QED
  BY <1>3, <1>4, PartsNext

----------------------------------------------------------------------------
(* The theorems                                                                   *)

LEMMA NextIInv == IInv /\ [Next]_vars => IInv'
<1> SUFFICES ASSUME IInv, [Next]_vars PROVE IInv'
  OBVIOUS
<1>1. CASE SetProxySettings
  BY <1>1, SetProxySettingsIInv
<1>2. CASE Send
  BY <1>2, SendIInv
<1>3. CASE OnRead \/ Abort
  BY <1>3, SessionSteps
<1>4. CASE Close
  BY <1>4, CloseIInv
<1>5. ASSUME NEW k \in Ids, Handlers(k) \/ OnConnect(k) \/ OnTimeout(k) \/ Completes(k)
      PROVE  IInv'
  BY <1>5, OnNameLookupIInv, OnConnectedIInv, HandshakeIInv, HungUpIInv, OnConnectIInv,
     OnTimeoutIInv, CompletesIInv DEF Handlers
<1>6. CASE UNCHANGED vars
  BY <1>6, PartsKept, PartsNext DEF vars, tcp, packets
<1>7. QED
  BY <1>1, <1>2, <1>3, <1>4, <1>5, <1>6, Zenon DEF Next

LEMMA Inductive == Spec => []IInv
<1>1. QED
  BY InitIInv, NextIInv, PTL DEF Spec

(* Every member stays within its type, and the ticket, when there is one, is that of an    *)
(* attempt which has been started and neither ended nor timed out: done() is never called  *)
(* for another.                                                                           *)
THEOREM TypeCorrect == Spec => []TypeOK
<1>1. IInv => TypeOK
  BY DEF IInv
<1>2. QED
  BY <1>1, Inductive, PTL

(* m_outstanding_ops is the number of handlers to come, short of it by each reference that  *)
(* on_connected() gave back without a ticket.                                              *)
THEOREM OpsCounted == Spec => []OpsExact
<1>1. IInv => OpsExact
  BY DEF IInv
<1>2. QED
  BY <1>1, Inductive, PTL

(* While the settings name a SOCKS5 proxy every packet goes through the tunnel or waits for *)
(* it, and the tunnel is never up while packets wait.                                      *)
THEOREM ProxyNeverBypassed == Spec => []NeverBypassed
<1>1. IInv => NeverBypassed
  BY DEF IInv
<1>2. QED
  BY <1>1, Inductive, PTL
=============================================================================
