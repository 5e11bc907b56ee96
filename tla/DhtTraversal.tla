---------------------------- MODULE DhtTraversal ----------------------------
(***************************************************************************)
(* A search of the DHT (traversal_algorithm, find_data, refresh) over the     *)
(* request table of rpc_manager.  The search asks the closest nodes it knows  *)
(* that it has not asked yet, a few at a time; a reply names more nodes; it    *)
(* is over when the closest ones have answered or nobody is left to ask.     *)
(*                                                                         *)
(* A node stands for its observer: the search makes one for each node it      *)
(* learns of, and a node cut off the end of m_results is cut off again if it  *)
(* is named again.  Nodes are numbered by their distance to the target.       *)
(*                                                                         *)
(* tick() and ~rpc_manager() go through a private list and call one observer  *)
(* after the other, and each call may send requests: such a call is a step.   *)
(***************************************************************************)
EXTENDS Integers, FiniteSets

CONSTANTS
    Nodes,          \* the nodes of the DHT
    MaxResults,     \* the length m_results is cut to (100)
    NumTargets,     \* m_num_target_nodes
    Branch,         \* the branch factor a search starts with
    Kinds           \* which searches: "get_peers", "refresh"

ASSUME NodesAssumption == Nodes \subseteq Nat /\ IsFiniteSet(Nodes)
ASSUME MaxResultsAssumption == MaxResults \in Nat \ {0}
ASSUME NumTargetsAssumption == NumTargets \in Nat \ {0}
ASSUME BranchAssumption == Branch \in Nat \ {0}
ASSUME KindsAssumption == Kinds \subseteq {"get_peers", "refresh"}

VARIABLES
    kind,           \* find_data itself, or its subclass refresh
    results,        \* m_results
    queried,        \* flag_queried
    alive,          \* flag_alive
    short,          \* flag_short_timeout
    reported,       \* flag_done: the observer has told the search how it ended
    invokeCount,    \* m_invoke_count
    branchFactor,   \* m_branch_factor
    done,           \* m_done
    answer,         \* m_results as m_nodes_callback is given them
    transactions,   \* rpc_manager::m_transactions
    sentAt,         \* sentAt[n]: when n was asked; m_transactions is in this order
    now,            \* counts the times at which requests were sent
    running,        \* what the network thread is in
    calls           \* the observers it has still to call

search   == <<kind, results, queried, alive, short, reported, done, answer>>
counters == <<invokeCount, branchFactor>>
manager  == <<transactions, sentAt, now, running, calls>>
vars     == <<search, counters, manager>>

----------------------------------------------------------------------------

\* How many of S are closer to the target than n
Closer(S, n) == Cardinality({m \in S : m < n})

\* m_results holds the MaxResults closest nodes.
Cut(S) == {n \in S : Closer(S, n) < MaxResults}

\* Nodes of res still worth asking: those up to the NumTargets-th that answered.
TooFew(res, answered) ==                    \* mutant of Open
    {n \in res \ queried : Closer(res \cap answered, n) < NumTargets - 1}
Open(res, answered) ==
    {n \in res \ queried : Closer(res \cap answered, n) < NumTargets}

\* Of these, add_requests() asks the closest, until `count` reaches b.
NextToAsk(open, count, b) == {n \in open : count + Closer(open, n) < b}

\* rpc_manager is being destroyed, and invoke() sends nothing any more.
destructing == running = "destructing"

\* find_data's invoke() tells when nothing was sent for that reason, refresh's
\* does not.
Invoked(S) == IF destructing /\ kind = "get_peers" THEN {} ELSE S

\* add_requests() on the results res, of which `answered` have answered, with
\* `count` requests out and `waiting` in the table.  A message that the socket
\* refuses is counted, but not entered in the table.
AddRequests(res, answered, count, waiting) ==
    LET asked == Invoked(NextToAsk(Open(res, answered), count, branchFactor'))
    IN  /\ queried' = queried \cup asked
        /\ invokeCount' = count + Cardinality(asked)
        /\ \E sent \in SUBSET asked :
             /\ destructing => sent = {}
             /\ transactions' = waiting \cup sent
             /\ sentAt' = [n \in Nodes |-> IF n \in sent THEN now ELSE sentAt[n]]
        /\ now' = IF asked = {} THEN now ELSE now + 1

\* With so many requests out, is the search over?
OverEarly(count) == count <= 1              \* mutant of Over
Over(count)      == count = 0

\* The search goes on, or is over when no request is out: done().
GoesOn(res, answered, count, waiting) ==
    /\ AddRequests(res, answered, count, waiting)
    /\ IF Over(invokeCount')
         THEN done' = TRUE /\ answer' = res /\ results' = {}
         ELSE results' = res /\ UNCHANGED <<done, answer>>

\* The branch factor is given back what n's short timeout added to it.
NotRestored(n) == branchFactor              \* mutant of Restored
Restored(n)    == IF n \in short THEN branchFactor - 1 ELSE branchFactor

\* prevent_request lowers the branch factor b, but not to 0.
Lowered(b) == IF b <= 1 THEN 1 ELSE b - 1

\* What a failure takes off m_invoke_count
NotTaken == invokeCount                     \* mutant of OneLess
OneLess  == invokeCount - 1

----------------------------------------------------------------------------

Init ==
    /\ kind \in Kinds
    /\ results = {} /\ queried = {} /\ alive = {} /\ short = {} /\ reported = {}
    /\ invokeCount = 0 /\ branchFactor = Branch
    /\ done = FALSE /\ answer = {}
    /\ transactions = {} /\ sentAt = [n \in Nodes |-> 0] /\ now = 0
    /\ running = "starting" /\ calls = {}

\* start(), with what the routing table or the routers give
Start ==
    /\ running = "starting" /\ running' = "idle"
    /\ UNCHANGED branchFactor
    /\ \E known \in SUBSET Nodes :
        /\ AddRequests(Cut(known), {}, 0, {})
        /\ results' = Cut(known)
    /\ UNCHANGED <<kind, alive, short, reported, done, answer, calls>>

\* A request may end once: flag_done
Reports(n) == n \notin reported /\ reported' = reported \cup {n}

\* finished(): n has answered.
Finished(n, res, waiting) ==
    /\ Reports(n)
    /\ alive' = alive \cup {n}
    /\ branchFactor' = Restored(n)
    /\ GoesOn(res, alive', invokeCount - 1, waiting)
    /\ UNCHANGED <<kind, short>>

\* failed(), for good, with b as the branch factor
Failed(n, b, waiting) ==
    /\ Reports(n)
    /\ IF results = {}
         THEN /\ transactions' = waiting
              /\ UNCHANGED <<counters, results, queried, done, answer, sentAt, now>>
         ELSE /\ branchFactor' = b
              /\ GoesOn(results, alive, OneLess, waiting)
    /\ UNCHANGED <<kind, alive, short>>

----------------------------------------------------------------------------

\* incoming(): a reply to a request in the table names some nodes.
Reply(n) ==
    /\ running = "idle" /\ n \in transactions
    /\ \E named \in SUBSET Nodes :
        Finished(n, Cut(results \cup named), transactions \ {n})
    /\ UNCHANGED <<running, calls>>

\* A reply without its 'r' or 'id': the request leaves the table and nobody is told.
MalformedReply(n) ==
    /\ running = "idle" /\ n \in transactions
    /\ transactions' = transactions \ {n}
    /\ UNCHANGED <<search, counters, sentAt, now, running, calls>>

\* unreachable(): an ICMP message
Unreachable(n) ==
    /\ running = "idle" /\ n \in transactions
    /\ Failed(n, Restored(n), transactions \ {n})
    /\ UNCHANGED <<running, calls>>

\* The oldest of S, as many as are past a timeout
Oldest(T, S) == T \subseteq S /\ \A t \in T, s \in S \ T : sentAt[t] < sentAt[s]

\* Observers are called in the order of m_transactions.
Call(n) == n \in calls /\ \A m \in calls : sentAt[n] <= sentAt[m]

\* tick(): requests that are 20 s old leave the table, then are told.
Tick ==
    /\ running = "idle" /\ transactions # {}
    /\ \E T \in SUBSET transactions :
        /\ Oldest(T, transactions)
        /\ calls' = T
        /\ transactions' = transactions \ T
    /\ running' = "timeouts"
    /\ UNCHANGED <<search, counters, sentAt, now>>

\* observer::timeout()
Timeout(n) ==
    /\ running = "timeouts" /\ Call(n)
    /\ Failed(n, Restored(n), transactions)
    /\ calls' = calls \ {n}
    /\ UNCHANGED running

\* tick(): requests that are 3 s old are told so, once.  (Those sent in this very
\* tick are not, in the code; here they may be.)
ShortScan ==
    /\ running = "timeouts" /\ calls = {}
    /\ \E T \in SUBSET transactions :
        /\ Oldest(T, transactions)
        /\ calls' = T \ short
    /\ running' = "shorts"
    /\ UNCHANGED <<search, counters, transactions, sentAt, now>>

\* observer::short_timeout(): the request is still out, but makes room for one more.
ShortTimeout(n) ==
    /\ running = "shorts" /\ Call(n)
    /\ IF results = {}
         THEN UNCHANGED <<search, counters, transactions, sentAt, now>>
         ELSE /\ branchFactor' = branchFactor + 1
              /\ short' = short \cup {n}
              /\ GoesOn(results, alive, invokeCount, transactions)
              /\ UNCHANGED <<kind, alive, reported>>
    /\ calls' = calls \ {n}
    /\ UNCHANGED running

TickEnds ==
    /\ running = "shorts" /\ calls = {}
    /\ running' = "idle"
    /\ UNCHANGED <<search, counters, transactions, sentAt, now, calls>>

\* ~rpc_manager(): the DHT is stopped, and every request in the table aborted.
Destruct ==
    /\ running = "idle"
    /\ running' = "destructing"
    /\ calls' = transactions /\ transactions' = {}
    /\ UNCHANGED <<search, counters, sentAt, now>>

\* observer::abort()
Abort(n) ==
    /\ running = "destructing" /\ Call(n)
    /\ Failed(n, Lowered(Restored(n)), transactions)
    /\ calls' = calls \ {n}
    /\ UNCHANGED running

----------------------------------------------------------------------------

Network == \E n \in Nodes : Reply(n) \/ MalformedReply(n) \/ Unreachable(n)
Ticking == \/ \E n \in Nodes : Timeout(n) \/ ShortTimeout(n)
           \/ ShortScan \/ TickEnds

Next ==
    \/ Start \/ Network \/ Tick \/ Ticking
    \/ Destruct \/ \E n \in Nodes : Abort(n)

\* The timer calls tick() again and again, until a request is old enough; what
\* the thread has begun it ends.
Expires(n) == Tick /\ n \in calls'
Fairness ==
    /\ WF_vars(Start) /\ WF_vars(Ticking)
    /\ \A n \in Nodes : SF_vars(Expires(n))
    /\ WF_vars(\E n \in Nodes : Abort(n))

Spec == Init /\ [][Next]_vars
FairSpec == Spec /\ Fairness

----------------------------------------------------------------------------

Out == queried \ reported

\* Type correctness.
TypeOK ==
    /\ kind \in Kinds
    /\ results \subseteq Nodes /\ queried \subseteq Nodes
    /\ alive \subseteq reported /\ reported \subseteq queried /\ short \subseteq queried
    /\ invokeCount \in Nat /\ branchFactor \in Nat \ {0}
    /\ done \in BOOLEAN /\ answer \subseteq Nodes
    /\ transactions \subseteq queried /\ calls \subseteq queried
    /\ sentAt \in [Nodes -> Nat] /\ now \in Nat
    /\ running \in {"starting", "idle", "timeouts", "shorts", "destructing"}

\* m_invoke_count counts each request from its sending to its report, once, in
\* whatever order replies, both timeouts and unreachable nodes come, and even
\* when its node has been cut off m_results meanwhile.
InvokeCountExact == invokeCount = Cardinality(Out)

\* m_branch_factor is raised by one for each request that is out and has had its
\* short timeout, and for nothing else, until the DHT is stopped.
BranchFactorExact ==
    destructing \/ branchFactor = Branch + Cardinality(Out \cap short)

\* At most Branch requests are out that have not had their short timeout.
BoundedConcurrency == destructing \/ Cardinality(Out \ short) <= Branch

\* The results are final: no answer and no timeout comes after m_nodes_callback.
NothingAfterDone == done => Out = {} /\ transactions = {} /\ results = {}

\* A search that is over has asked every node it knew that was closer than the
\* NumTargets-th that answered, unless the DHT was stopped under it.
SearchComplete ==
    done /\ ~destructing =>
        \A n \in answer \ queried : Closer(answer \cap alive, n) >= NumTargets

\* Requests nobody will report any more: refused by the socket, or answered by a
\* malformed reply.
Pending == transactions \cup calls
Lost == Out \ Pending

\* "If the message was sent, it must have been reported back to the
\* traversal_algorithm as well" (~observer): once it is out of the table.
SentIsReported ==
    [][\A n \in transactions \ transactions' : n \in reported' \cup calls']_vars

\* A search that has sent a request ends, if it loses track of none: whatever
\* nodes answer or not, in any order.
Terminates == Out # {} ~> done \/ Lost # {} \/ destructing

=============================================================================
