------------------------------ MODULE UdpSocket ------------------------------
(***************************************************************************)
(* udp_socket and its association with a SOCKS5 proxy.  The TCP connection to *)
(* the proxy is an attempt of the connection_queue, which calls back as        *)
(* ConnectionContract says; every change of the proxy and every hang-up begins *)
(* a new association: a name lookup, an attempt, a handshake of several reads  *)
(* and writes.  Older ones are not withdrawn: their handlers and time-outs     *)
(* still come, and find the members the new one uses.                         *)
(*                                                                         *)
(* An operation on the TCP socket completes before its handler runs, and the  *)
(* socket may be closed in between.  m_outstanding_ops counts the handlers     *)
(* that may still come: the session may clear the callback, and destroy the   *)
(* socket, when it is zero.                                                  *)
(***************************************************************************)
EXTENDS Integers, FiniteSets

CONSTANTS
    MaxAssociations,    \* bound: associations begun, by settings or hang-ups
    MaxPackets          \* bound: packets in m_queue

ASSUME UdpAssumption == MaxAssociations \in Nat /\ MaxPackets \in Nat

Ids == 1..MaxAssociations   \* associations, also the tickets of their attempts
None == 0                   \* no association; the ticket -1

VARIABLES
    begun,          \* associations begun so far
    current,        \* the latest one, None when the settings name no SOCKS5 proxy
    lookups,        \* associations whose on_name_lookup is to come
    stage,          \* what each attempt's owner has seen of the connection_queue
    ticket,         \* m_connection_ticket
    carrier,        \* whose TCP connection m_socks5_sock is or tries to be
    op,             \* the operation each association has started on m_socks5_sock
    outcome,        \* and how it ended, its handler being posted, or "waiting"
    tunnel,         \* m_tunnel_packets
    queueing,       \* m_queue_packets
    backlog,        \* packets in m_queue
    reading,        \* m_v4_outstanding
    ops,            \* m_outstanding_ops
    phase,          \* the session: running, in abort(), aborted (m_abort is set)
    cleared,        \* m_callback is empty
    strays          \* references that on_connected() gave back without a ticket

tcp == <<carrier, op, outcome>>
packets == <<tunnel, queueing, backlog>>
vars == <<begun, current, lookups, stage, ticket, tcp, packets, reading, ops, phase, cleared,
          strays>>

Queue == INSTANCE ConnectionContract WITH Tickets <- Ids

\* the handshake after the connection, each step with what its handler may start next
Follow ==
    [handshake1 |-> {"handshake2"}, handshake2 |-> {"handshake3", "connect1"},
     handshake3 |-> {"handshake4"}, handshake4 |-> {"connect1"},
     connect1 |-> {"connect2"}, connect2 |-> {"hung_up"}]
Answers == {"handshake2", "handshake4", "connect2"}     \* those that read what the proxy says
Steps == {"none", "connected", "hung_up"} \union DOMAIN Follow

Attempts == {k \in Ids : stage[k] \in {"queued", "connected"}}
Pending == {k \in Ids : op[k] # "none"}

aborted == phase = "aborted"

Init ==
    /\ begun = 0 /\ current = None /\ lookups = {}
    /\ Queue!Init
    /\ ticket = None /\ carrier = None
    /\ op = [k \in Ids |-> "none"] /\ outcome = [k \in Ids |-> "waiting"]
    /\ tunnel = FALSE /\ queueing = FALSE /\ backlog = 0
    /\ reading = TRUE /\ ops = 0
    /\ phase = "running" /\ cleared = FALSE /\ strays = 0

----------------------------------------------------------------------------
\* maybe_clear_callback(), when n operations are outstanding
MaybeClear(n) == cleared' = (cleared \/ (n = 0 /\ ~reading))

\* closing or cancelling m_socks5_sock: what has completed by then stays completed
Cancelled(fate) ==
    [k \in Ids |-> IF op[k] # "none" /\ fate[k] = "waiting" THEN "aborted" ELSE fate[k]]
CloseSock ==
    /\ carrier' = None
    /\ outcome' = Cancelled(outcome)

\* k starts an operation; without a connection it fails
Start(k, step) ==
    /\ op' = [op EXCEPT ![k] = step]
    /\ outcome' = [outcome EXCEPT ![k] = IF carrier = None THEN "failed" ELSE "waiting"]

Ends(k) == op' = [op EXCEPT ![k] = "none"] /\ outcome' = [outcome EXCEPT ![k] = "waiting"]

\* set_proxy_settings() before m_abort is set
NotQueueing == queueing                         \* mutant of QueueingAgain
QueueingAgain == TRUE
Associate ==
    /\ begun < MaxAssociations
    /\ begun' = begun + 1 /\ current' = begun + 1
    /\ lookups' = lookups \union {begun + 1}
    /\ tunnel' = FALSE /\ queueing' = QueueingAgain
Dissociate ==
    /\ current' = None
    /\ tunnel' = FALSE
    /\ UNCHANGED <<begun, lookups, queueing>>

SetProxySettings ==
    /\ phase = "running"
    /\ CloseSock
    /\ \/ Associate /\ ops' = ops + 1
       \/ Dissociate /\ ops' = ops
    /\ UNCHANGED <<stage, ticket, op, backlog, reading, phase, cleared, strays>>

\* the name was resolved, or was not; close() cancels lookups
OnNameLookup(k) ==
    /\ k \in lookups /\ phase # "aborting"
    /\ lookups' = lookups \ {k}
    /\ \/ /\ ~aborted
          /\ Queue!Enqueue(k)
          /\ UNCHANGED <<ops, cleared>>
       \/ /\ ops' = ops - 1
          /\ IF aborted THEN MaybeClear(ops') ELSE UNCHANGED cleared
          /\ UNCHANGED stage
    /\ UNCHANGED <<begun, current, ticket, tcp, packets, reading, phase, strays>>

----------------------------------------------------------------------------
\* the queue starts k's attempt.  A socket that is connecting or connected for another
\* association refuses to connect again.
OnConnect(k) ==
    /\ phase # "aborting"
    /\ Queue!OnConnect(k)
    /\ IF aborted
         THEN /\ ops' = ops - 1
              /\ MaybeClear(ops')
              /\ UNCHANGED <<ticket, tcp>>
         ELSE /\ ticket' = k
              /\ ops' = ops + 1
              /\ op' = [op EXCEPT ![k] = "connected"]
              /\ IF carrier = None
                   THEN carrier' = k /\ outcome' = [outcome EXCEPT ![k] = "waiting"]
                   ELSE outcome' = [outcome EXCEPT ![k] = "failed"] /\ UNCHANGED carrier
              /\ UNCHANGED cleared
    /\ UNCHANGED <<begun, current, lookups, packets, reading, phase, strays>>

\* k's attempt runs out of time, or the queue is closed: the ticket is forgotten, k's or not
StillKnown == ticket                            \* mutant of Forgotten
Forgotten == None
OnTimeout(k) ==
    /\ Queue!OnTimeout(k)
    /\ stage[k] = "queued" => phase = "aborting"
    /\ ops' = ops - 1
    /\ IF aborted
         THEN MaybeClear(ops') /\ UNCHANGED <<ticket, carrier, outcome>>
         ELSE CloseSock /\ ticket' = Forgotten /\ UNCHANGED cleared
    /\ UNCHANGED <<begun, current, lookups, op, packets, reading, phase, strays>>

\* m_cc.done(m_connection_ticket), and the reference of the time-out that will not come
Unreturned == 0                                 \* mutant of Returned
Returned == 1
DoneTicket(n) ==
    /\ IF ticket = None
         THEN strays' = strays + 1 /\ UNCHANGED stage
         ELSE Queue!Done(ticket) /\ UNCHANGED strays
    /\ ticket' = None
    /\ ops' = n - Returned

OnConnected(k) ==
    /\ phase # "aborting"
    /\ op[k] = "connected" /\ outcome[k] # "waiting"
    /\ \/ /\ aborted \/ outcome[k] = "aborted"
          /\ ops' = ops - 1
          /\ IF aborted THEN MaybeClear(ops') ELSE UNCHANGED cleared
          /\ Ends(k)
          /\ UNCHANGED <<stage, ticket, strays>>
       \/ /\ ~aborted /\ outcome[k] = "failed"
          /\ DoneTicket(ops - 1)
          /\ Ends(k)
          /\ UNCHANGED cleared
       \/ /\ ~aborted /\ outcome[k] = "done"
          /\ DoneTicket(ops)
          /\ Start(k, "handshake1")
          /\ UNCHANGED cleared
    /\ UNCHANGED <<begun, current, lookups, carrier, packets, reading, phase>>

\* The handler of a step of the handshake.  The proxy may refuse, after which nothing more
\* happens until the settings change, or in handshake2 the socket is closed; connect2
\* opens the tunnel and sends the queued packets through it, or drops them.
Fails(k) ==
    /\ Ends(k)
    /\ ops' = ops - 1
    /\ IF aborted THEN MaybeClear(ops') ELSE UNCHANGED cleared
    /\ backlog' = IF op[k] = "connect2" THEN 0 ELSE backlog
    /\ UNCHANGED <<carrier, tunnel, queueing>>

Refuses(k) ==
    /\ op[k] = "handshake2"
    /\ carrier' = None
    /\ op' = [op EXCEPT ![k] = "none"]
    /\ outcome' = [Cancelled(outcome) EXCEPT ![k] = "waiting"]
    /\ ops' = ops - 1
    /\ UNCHANGED <<packets, cleared>>

Proceeds(k) ==
    /\ \E step \in Follow[op[k]] : Start(k, step)
    /\ IF op[k] = "connect2"
         THEN tunnel' = TRUE /\ queueing' = FALSE /\ backlog' = 0
         ELSE UNCHANGED packets
    /\ UNCHANGED <<carrier, ops, cleared>>

Handshake(k) ==
    /\ phase # "aborting"
    /\ op[k] \in DOMAIN Follow /\ outcome[k] # "waiting"
    /\ \/ /\ aborted \/ outcome[k] # "done" \/ op[k] \in Answers
          /\ Fails(k)
       \/ ~aborted /\ outcome[k] = "done" /\ Refuses(k)
       \/ ~aborted /\ outcome[k] = "done" /\ Proceeds(k)
    /\ UNCHANGED <<begun, current, lookups, stage, ticket, reading, phase, strays>>

\* the proxy hung up (or said something): set_proxy_settings() with the same settings
HungUp(k) ==
    /\ phase # "aborting"
    /\ op[k] = "hung_up" /\ outcome[k] # "waiting"
    /\ op' = [op EXCEPT ![k] = "none"]
    /\ IF aborted \/ outcome[k] = "aborted"
         THEN /\ ops' = ops - 1
              /\ outcome' = [outcome EXCEPT ![k] = "waiting"]
              /\ IF aborted THEN MaybeClear(ops') ELSE UNCHANGED cleared
              /\ UNCHANGED <<begun, current, lookups, carrier, tunnel, queueing>>
         ELSE /\ carrier' = None
              /\ outcome' = [Cancelled(outcome) EXCEPT ![k] = "waiting"]
              /\ \/ current # None /\ Associate /\ ops' = ops
                 \/ current = None /\ Dissociate /\ ops' = ops - 1
              /\ UNCHANGED cleared
    /\ UNCHANGED <<stage, ticket, backlog, reading, phase, strays>>

----------------------------------------------------------------------------
\* send() of what must go through the proxy: a packet is wrapped, queued or sent as it is
Send ==
    /\ ~tunnel /\ queueing
    /\ backlog < MaxPackets
    /\ backlog' = backlog + 1
    /\ UNCHANGED <<begun, current, lookups, stage, ticket, tcp, tunnel, queueing, reading, ops,
                   phase, cleared, strays>>

\* on_read() with m_abort set, or with an error that ends the reading; any other read is
\* followed by the next
OnRead ==
    /\ reading /\ phase # "aborting"
    /\ reading' = FALSE
    /\ cleared' = (cleared \/ ops = 0)
    /\ UNCHANGED <<begun, current, lookups, stage, ticket, tcp, packets, ops, phase, strays>>

\* session_impl::abort() closes the connection queue, which calls every on_timeout, and
\* then the socket
Abort ==
    /\ phase = "running"
    /\ phase' = "aborting"
    /\ UNCHANGED <<begun, current, lookups, stage, ticket, tcp, packets, reading, ops, cleared,
                   strays>>

AnyTime == TRUE                                 \* mutant of QueueClosed
QueueClosed == Attempts = {}
Close ==
    /\ phase = "aborting" /\ QueueClosed
    /\ phase' = "aborted"
    /\ outcome' = Cancelled(outcome)
    /\ IF ticket = None
         THEN UNCHANGED <<stage, ticket, ops>>
         ELSE Queue!Done(ticket) /\ ticket' = None /\ ops' = ops - 1
    /\ MaybeClear(ops')
    /\ UNCHANGED <<begun, current, lookups, carrier, op, packets, reading, strays>>

\* an operation completes: its handler is posted
Completes(k) ==
    /\ op[k] # "none" /\ outcome[k] = "waiting"
    /\ \E how \in {"done", "failed"} : outcome' = [outcome EXCEPT ![k] = how]
    /\ carrier' = IF op[k] = "connected" /\ outcome'[k] = "failed" /\ carrier = k THEN None
                  ELSE carrier
    /\ UNCHANGED <<begun, current, lookups, stage, ticket, op, packets, reading, ops, phase,
                   cleared, strays>>

Handlers(k) == OnNameLookup(k) \/ OnConnected(k) \/ Handshake(k) \/ HungUp(k)

Next ==
    \/ SetProxySettings \/ Send \/ OnRead \/ Abort \/ Close
    \/ \E k \in Ids : Handlers(k) \/ OnConnect(k) \/ OnTimeout(k) \/ Completes(k)

Spec == Init /\ [][Next]_vars

\* io_service::run() runs every handler that is posted, and cancelling posts the handlers of
\* all that is outstanding
Fairness ==
    /\ \A k \in Ids : WF_vars(Handlers(k)) /\ WF_vars(phase = "aborting" /\ OnTimeout(k))
    /\ WF_vars(Close) /\ WF_vars(OnRead /\ aborted)
FairSpec == Spec /\ Fairness

----------------------------------------------------------------------------
(* Type correctness; done() is only called for an attempt that may still be ended by it.    *)
TypeOK ==
    /\ begun \in 0..MaxAssociations
    /\ current \in 0..begun /\ carrier \in {None} \union Ids
    /\ ticket \in {None} \union {k \in Ids : stage[k] = "connected"}
    /\ lookups \subseteq 1..begun
    /\ stage \in [Ids -> {"none", "queued", "connected", "done", "timedout"}]
    /\ op \in [Ids -> Steps]
    /\ outcome \in [Ids -> {"waiting", "done", "failed", "aborted"}]
    /\ tunnel \in BOOLEAN /\ queueing \in BOOLEAN /\ backlog \in 0..MaxPackets
    /\ reading \in BOOLEAN /\ cleared \in BOOLEAN
    /\ ops \in Int /\ strays \in Nat
    /\ phase \in {"running", "aborting", "aborted"}

(* m_outstanding_ops counts the handlers that are to come, one for each lookup, attempt    *)
(* and operation, less the references that on_connected() gave back when a time-out had    *)
(* taken the ticket: "we just called done, which means on_timeout won't be called" does     *)
(* not hold of those, and six steps lead to the first.                                     *)
OpsExact ==
    ops + strays = Cardinality(lookups) + Cardinality(Attempts) + Cardinality(Pending)

(* While the settings name a SOCKS5 proxy no packet is sent past it, whatever becomes of the *)
(* associations before; and what was queued is gone before the first packet is tunnelled.   *)
NeverBypassed ==
    /\ current # None => tunnel \/ queueing
    /\ tunnel => backlog = 0

(* A closed socket is released: its last handler clears the callback, unless a reference     *)
(* was given back twice.                                                                *)
Released == aborted ~> (cleared \/ strays > 0)
=============================================================================
