------------------------ MODULE DhtTraversal_proofs ------------------------
(***************************************************************************)
(* Theorems about DhtTraversal, for every set of nodes, every branch factor *)
(* and every length of the result list: its two counters are exact, so no     *)
(* more requests are out than allowed, nothing comes after the end, and a     *)
(* search that is over has asked everybody it should have.                   *)
(***************************************************************************)
EXTENDS DhtTraversal, FiniteSetTheorems, TLAPS

\* Where the requests that are out may be.
Held ==
    /\ transactions \subseteq Out /\ calls \subseteq Out
    /\ running \in {"starting", "idle"} => calls = {}
    /\ running = "starting" => queried = {} /\ reported = {} /\ results = {} /\ done = FALSE
    /\ running = "timeouts" => calls \cap transactions = {}
    /\ running = "shorts" => calls \subseteq transactions \ short
    /\ running = "destructing" => transactions = {}
    /\ Out # {} => results # {}

\* Requests are only sent below the branch factor, and whatever lowers it ends one.
InvokeBound == destructing \/ invokeCount <= branchFactor

\* The inductive invariant.
IInv ==
    /\ TypeOK
    /\ Held
    /\ InvokeCountExact
    /\ BranchFactorExact
    /\ InvokeBound
    /\ NothingAfterDone
    /\ SearchComplete

----------------------------------------------------------------------------

\* Every set of nodes is finite.
LEMMA NodesFinite ==
    ASSUME NEW S \in SUBSET Nodes
    PROVE  IsFiniteSet(S) /\ Cardinality(S) \in Nat
<1>1. IsFiniteSet(S)
  BY NodesAssumption, FS_Subset
<1> QED BY <1>1, FS_CardinalityType

\* Ranks grow with the distance.
LEMMA CloserGrows ==
    ASSUME NEW S \in SUBSET Nodes
    PROVE  /\ \A n \in Nodes : Closer(S, n) \in Nat
           /\ \A m, n \in S : m < n => Closer(S, m) < Closer(S, n)
<1>1. ASSUME NEW n \in Nodes
      PROVE  IsFiniteSet({m \in S : m < n}) /\ Closer(S, n) \in Nat
  <2>1. {m \in S : m < n} \in SUBSET Nodes
    OBVIOUS
  <2> QED BY <2>1, NodesFinite DEF Closer
<1>2. ASSUME NEW m \in S, NEW n \in S, m < n
      PROVE  Closer(S, m) < Closer(S, n)
  <2> DEFINE M == {k \in S : k < m}
             N == {k \in S : k < n}
  <2>1. m \in Nat /\ n \in Nat /\ S \subseteq Nat
    BY NodesAssumption
  <2>2. M \subseteq N /\ m \in N /\ m \notin M
    <3>1. \A k \in S : k < m => k < n
      <4> TAKE k \in S
      <4>1. k \in Nat
        BY <2>1
      <4> QED BY <1>2, <2>1, <4>1
    <3>2. ~ (m < m)
      BY <2>1
    <3> QED BY <1>2, <3>1, <3>2
  <2>3. IsFiniteSet(N) /\ Cardinality(N) \in Nat /\ Cardinality(M) \in Nat
    BY <1>1 DEF Closer
  <2>4. Cardinality(M) <= Cardinality(N) /\ Cardinality(M) # Cardinality(N)
    <3> HIDE DEF M, N
    <3>1. M \in SUBSET N /\ M # N
      BY <2>2
    <3> QED BY <2>3, <3>1, FS_Subset
  <2> QED BY <2>3, <2>4 DEF Closer
<1> QED BY <1>1, <1>2

\* At most k nodes have a rank below k.
LEMMA FewRanks ==
    ASSUME NEW S \in SUBSET Nodes, NEW k \in Nat, NEW l \in Nat,
           NEW T \in SUBSET S,
           \A n \in T : l <= Closer(S, n) /\ Closer(S, n) < k
    PROVE  T = {} \/ Cardinality(T) <= k - l
<1> DEFINE R == l .. (k - 1)
           f == [n \in T |-> Closer(S, n)]
<1>1. IsFiniteSet(R) /\ (l < k => Cardinality(R) = k - l)
  BY FS_Interval
<1>2. \A n \in T : f[n] \in R
  BY CloserGrows
<1>3. \A m, n \in T : f[m] = f[n] => m = n
  <2> SUFFICES ASSUME NEW m \in T, NEW n \in T, f[m] = f[n], m # n
               PROVE  FALSE
    OBVIOUS
  <2>1. m \in Nat /\ n \in Nat
    BY NodesAssumption
  <2>2. m < n \/ n < m
    BY <2>1
  <2>3. Closer(S, m) # Closer(S, n)
    BY <2>2, CloserGrows
  <2> QED BY <2>3
<1>4. f \in Injection(T, R)
  BY <1>2, <1>3 DEF Injection, IsInjective
<1>5. Cardinality(T) <= Cardinality(R)
  <2> HIDE DEF f, R
  <2> QED BY <1>1, <1>4, FS_Injection
<1>6. T # {} => l < k
  BY CloserGrows
<1> QED BY <1>1, <1>5, <1>6

\* Some node of a set has nobody before it.
LEMMA LeastExists ==
    ASSUME NEW S \in SUBSET Nodes, S # {}
    PROVE  \E n \in S : Closer(S, n) = 0
<1> SUFFICES ASSUME \A n \in S : Closer(S, n) # 0
             PROVE  FALSE
  OBVIOUS
<1>1. IsFiniteSet(S) /\ Cardinality(S) \in Nat /\ Cardinality(S) # 0
  BY NodesFinite, FS_EmptySet
<1>2. ASSUME NEW n \in S
      PROVE  1 <= Closer(S, n) /\ Closer(S, n) < Cardinality(S)
  <2> DEFINE M == {m \in S : m < n}
  <2>1. n \in Nat /\ Closer(S, n) \in Nat
    BY NodesAssumption, CloserGrows
  <2>2. M \in SUBSET S /\ M # S
    BY <2>1
  <2>3. Cardinality(M) \in Nat /\ Cardinality(M) <= Cardinality(S)
        /\ Cardinality(M) # Cardinality(S)
    <3>1. Cardinality(M) \in Nat
      BY <2>1 DEF Closer
    <3> HIDE DEF M
    <3> QED BY <1>1, <2>2, <3>1, FS_Subset
  <2> QED BY <1>1, <2>1, <2>3 DEF Closer
<1>3. Cardinality(S) <= Cardinality(S) - 1
  BY <1>1, <1>2, FewRanks
<1> QED BY <1>1, <1>3

\* A result list that is cut is not emptied.
LEMMA CutNonempty ==
    ASSUME NEW S \in SUBSET Nodes, S # {}
    PROVE  Cut(S) # {}
  BY LeastExists, MaxResultsAssumption DEF Cut

----------------------------------------------------------------------------

\* add_requests() has asked these nodes.
Asks(asked, res, answered, count, waiting) ==
    /\ queried' = queried \cup asked
    /\ invokeCount' = count + Cardinality(asked)
    /\ invokeCount' \in Nat
    /\ waiting \subseteq transactions' /\ transactions' \subseteq waiting \cup asked
    /\ destructing => transactions' = waiting
    /\ destructing \/ invokeCount' <= branchFactor' \/ invokeCount' = count
    /\ destructing \/ invokeCount' # 0 \/ Open(res, answered) = {}
    /\ sentAt' \in [Nodes -> Nat] /\ now' \in Nat

\* What add_requests() does, wherever it is called: it asks new nodes, keeps to
\* the branch factor, and stops short of it only when nobody is left to ask.
LEMMA AddRequestsEffect ==
    ASSUME TypeOK, NEW res \in SUBSET Nodes, NEW answered \in SUBSET Nodes,
           NEW count \in Nat, NEW waiting \in SUBSET Nodes,
           branchFactor' \in Nat \ {0},
           AddRequests(res, answered, count, waiting)
    PROVE  \E asked \in SUBSET (res \ queried) : Asks(asked, res, answered, count, waiting)
<1> DEFINE open  == Open(res, answered)
           next  == NextToAsk(open, count, branchFactor')
           asked == Invoked(next)
<1>1. open \in SUBSET (res \ queried) /\ open \in SUBSET Nodes
  BY DEF Open
<1>2. next \in SUBSET open
  BY DEF NextToAsk
<1>3. asked \in SUBSET next
  BY DEF Invoked
<1>4. asked \in SUBSET (res \ queried) /\ asked \in SUBSET Nodes
  BY <1>1, <1>2, <1>3
<1>5. Cardinality(asked) \in Nat /\ (Cardinality(asked) = 0 <=> asked = {})
  BY <1>4, NodesFinite, FS_EmptySet
<1>6. queried' = queried \cup asked /\ invokeCount' = count + Cardinality(asked)
  BY DEF AddRequests
<1>7. invokeCount' \in Nat
  BY <1>5, <1>6
<1>8. \E sent \in SUBSET asked :
        /\ destructing => sent = {}
        /\ transactions' = waiting \cup sent
        /\ sentAt' = [n \in Nodes |-> IF n \in sent THEN now ELSE sentAt[n]]
  BY DEF AddRequests
<1>9. now' \in Nat
  BY DEF AddRequests, TypeOK
<1>10. sentAt' \in [Nodes -> Nat]
  BY <1>8 DEF TypeOK
<1>11. ~destructing => asked = next
  BY DEF Invoked
<1>12. ASSUME ~destructing, asked # {}
       PROVE  invokeCount' <= branchFactor'
  <2>1. \A n \in asked : Closer(open, n) \in Nat /\ count + Closer(open, n) < branchFactor'
    BY <1>1, <1>2, <1>3, CloserGrows DEF NextToAsk
  <2>2. count < branchFactor' /\ branchFactor' - count \in Nat
    <3>1. PICK n \in asked : TRUE
      BY <1>12
    <3>2. Closer(open, n) \in Nat /\ count + Closer(open, n) < branchFactor'
      BY <2>1, <3>1
    <3>3. \A b, c \in Nat : count + c < b => count < b /\ b - count \in Nat
      OBVIOUS
    <3>4. branchFactor' \in Nat
      OBVIOUS
    <3> QED BY <3>2, <3>3, <3>4, Zenon
  <2>3. \A n \in asked : 0 <= Closer(open, n) /\ Closer(open, n) < branchFactor' - count
    BY <2>1, <2>2
  <2>4. asked \in SUBSET open
    BY <1>2, <1>3
  <2>5. Cardinality(asked) <= (branchFactor' - count) - 0
    <3> HIDE DEF asked, open
    <3> QED BY <1>1, <1>12, <2>2, <2>3, <2>4, FewRanks
  <2> QED BY <1>5, <1>6, <2>2, <2>5
<1>13. ASSUME ~destructing, invokeCount' = 0, open # {}
       PROVE  FALSE
  <2>1. count = 0 /\ asked = {}
    BY <1>5, <1>6, <1>13
  <2>2. PICK n \in open : Closer(open, n) = 0
    BY <1>1, <1>13, LeastExists
  <2>3. n \in next
    BY <2>1, <2>2 DEF NextToAsk
  <2> QED BY <1>11, <1>13, <2>1, <2>3
<1>14. asked = {} => invokeCount' = count
  BY <1>5, <1>6
<1> HIDE DEF asked, next, open
<1>15. waiting \subseteq transactions' /\ transactions' \subseteq waiting \cup asked
       /\ (destructing => transactions' = waiting)
  BY <1>8
<1>16. destructing \/ invokeCount' # 0 \/ Open(res, answered) = {}
  BY <1>13 DEF open
<1> QED BY <1>4, <1>6, <1>7, <1>9, <1>10, <1>12, <1>14, <1>15, <1>16 DEF Asks

\* The requests that are out, as sets to be counted
LEMMA OutFinite ==
    ASSUME TypeOK
    PROVE  /\ IsFiniteSet(Out) /\ Cardinality(Out) \in Nat
           /\ IsFiniteSet(Out \cap short) /\ Cardinality(Out \cap short) \in Nat
           /\ Cardinality(Out) = 0 <=> Out = {}
<1>1. Out \in SUBSET Nodes /\ Out \cap short \in SUBSET Nodes
  BY DEF TypeOK, Out
<1> QED BY <1>1, NodesFinite, FS_EmptySet

\* New requests are counted on top of those that stay out.
LEMMA CountNew ==
    ASSUME NEW S \in SUBSET Nodes, NEW asked \in SUBSET Nodes, S \cap asked = {}
    PROVE  Cardinality(S \cup asked) = Cardinality(S) + Cardinality(asked)
<1>1. IsFiniteSet(S) /\ IsFiniteSet(asked) /\ Cardinality(S) \in Nat /\ Cardinality(asked) \in Nat
  BY NodesFinite
<1>2. Cardinality(S \cap asked) = 0
  BY FS_EmptySet
<1>3. Cardinality(S \cup asked) =
        Cardinality(S) + Cardinality(asked) - Cardinality(S \cap asked)
  BY <1>1, FS_Union
<1> QED BY <1>1, <1>2, <1>3

\* A request ends in one report and others may be sent: the heart of every
\* handler that reports, whichever way the request ended.
LEMMA ReportIInv ==
    ASSUME IInv, NEW n \in Out,
           NEW res \in SUBSET Nodes, res # {}, NEW waiting \in SUBSET Nodes,
           ~done,
           waiting = transactions \ {n},
           reported' = reported \cup {n}, short' = short, kind' = kind,
           alive' \in {alive, alive \cup {n}},
           branchFactor' \in Nat \ {0},
           destructing \/ branchFactor' = Restored(n),
           GoesOn(res, alive', invokeCount - 1, waiting),
           running' = running, calls' = calls \ {n}
    PROVE  IInv'
<1>1. n \in Nodes /\ n \in queried /\ n \notin reported
  BY DEF IInv, TypeOK, Out
<1>2. alive' \in SUBSET Nodes /\ alive' \subseteq reported'
  BY <1>1 DEF IInv, TypeOK
<1>3. invokeCount \in Nat /\ invokeCount = Cardinality(Out) /\ invokeCount - 1 \in Nat
  BY OutFinite DEF IInv, TypeOK, InvokeCountExact
<1>4. AddRequests(res, alive', invokeCount - 1, waiting)
  BY DEF GoesOn
<1>5a. PICK count \in Nat : count = invokeCount - 1
  BY <1>3
<1>5b. PICK asked \in SUBSET (res \ queried) : Asks(asked, res, alive', count, waiting)
  <2>1. TypeOK /\ alive' \in SUBSET Nodes
    BY <1>2 DEF IInv
  <2>2. AddRequests(res, alive', count, waiting)
    BY <1>4, <1>5a
  <2> QED BY <1>5a, <2>1, <2>2, AddRequestsEffect
<1>5. /\ queried' = queried \cup asked
      /\ invokeCount' = count + Cardinality(asked)
      /\ invokeCount' \in Nat
      /\ waiting \subseteq transactions' /\ transactions' \subseteq waiting \cup asked
      /\ destructing => transactions' = waiting
      /\ destructing \/ invokeCount' <= branchFactor' \/ invokeCount' = count
      /\ destructing \/ invokeCount' # 0 \/ Open(res, alive') = {}
      /\ sentAt' \in [Nodes -> Nat] /\ now' \in Nat
  BY <1>5b DEF Asks
<1>6. asked \in SUBSET Nodes /\ asked \cap queried = {} /\ asked \cap Out = {} /\ asked \cap short = {}
  BY DEF IInv, TypeOK, Out
<1>7. Out' = (Out \ {n}) \cup asked
  BY <1>1, <1>5, <1>6 DEF Out, IInv, TypeOK
<1>8. Out \in SUBSET Nodes
  BY DEF IInv, TypeOK, Out
<1>9. destructing' = destructing
  BY DEF destructing
<1>10. results' \in SUBSET Nodes /\ done' \in BOOLEAN /\ answer' \in SUBSET Nodes
  BY DEF GoesOn, IInv, TypeOK
<1>11. TypeOK'
  <2>1. queried' \subseteq Nodes /\ reported' \subseteq queried' /\ short' \subseteq queried'
    BY <1>1, <1>5, <1>6 DEF IInv, TypeOK
  <2>2. transactions' \subseteq queried' /\ calls' \subseteq queried'
    BY <1>5 DEF IInv, TypeOK
  <2> QED BY <1>2, <1>5, <1>10, <2>1, <2>2 DEF IInv, TypeOK
<1>12. InvokeCountExact'
  <2>1. Cardinality(Out \ {n}) = Cardinality(Out) - 1 /\ (Out \ {n}) \in SUBSET Nodes
    BY <1>8, OutFinite, FS_RemoveElement DEF IInv
  <2>2. Cardinality(Out') = Cardinality(Out \ {n}) + Cardinality(asked)
    BY <1>6, <1>7, <2>1, CountNew
  <2> QED BY <1>3, <1>5a, <1>5, <2>1, <2>2 DEF InvokeCountExact
<1>13. BranchFactorExact'
  <2> SUFFICES ASSUME ~destructing PROVE branchFactor' = Branch + Cardinality(Out' \cap short')
    BY <1>9 DEF BranchFactorExact
  <2>1. Cardinality(Out' \cap short') = Cardinality((Out \cap short) \ {n})
    <3>1. Out' \cap short' = (Out \cap short) \ {n}
      BY <1>6, <1>7
    <3> QED BY <3>1, Zenon
  <2>2. Cardinality((Out \cap short) \ {n}) =
          IF n \in Out \cap short THEN Cardinality(Out \cap short) - 1
          ELSE Cardinality(Out \cap short)
    BY OutFinite, FS_RemoveElement DEF IInv
  <2>3. branchFactor = Branch + Cardinality(Out \cap short)
    BY DEF IInv, BranchFactorExact
  <2>4. branchFactor' = IF n \in short THEN branchFactor - 1 ELSE branchFactor
    BY DEF Restored
  <2>5. Cardinality(Out \cap short) \in Nat
    BY OutFinite DEF IInv
  <2> QED BY <2>1, <2>2, <2>3, <2>4, <2>5, BranchAssumption
<1>14. InvokeBound'
  <2> SUFFICES ASSUME ~destructing PROVE invokeCount' <= branchFactor'
    BY <1>9 DEF InvokeBound
  <2>1. invokeCount <= branchFactor /\ branchFactor \in Nat
    BY DEF IInv, InvokeBound, TypeOK
  <2>2. branchFactor' \in {branchFactor, branchFactor - 1}
    BY DEF Restored
  <2> QED BY <1>3, <1>5a, <1>5, <2>1, <2>2
<1>15. invokeCount' = 0 <=> Out' = {}
  BY <1>11, <1>12, OutFinite, NodesFinite, FS_EmptySet DEF TypeOK, InvokeCountExact, Out
<1>16. CASE invokeCount' = 0
  <2>1. done' = TRUE /\ answer' = res /\ results' = {}
    BY <1>16 DEF GoesOn, Over
  <2>2. Out' = {} /\ asked = {} /\ Out \ {n} = {}
    BY <1>7, <1>15, <1>16
  <2>3. transactions' = {} /\ calls' = {}
    BY <1>5, <2>2 DEF IInv, Held
  <2>4. NothingAfterDone'
    BY <2>1, <2>2, <2>3 DEF NothingAfterDone
  <2>5. SearchComplete'
    <3> SUFFICES ASSUME ~destructing, NEW m \in res \ queried
                 PROVE  Closer(res \cap alive', m) >= NumTargets
      BY <1>5, <1>9, <2>1, <2>2 DEF SearchComplete
    <3>1. Open(res, alive') = {}
      BY <1>5, <1>16
    <3>2. Closer(res \cap alive', m) \in Nat
      BY CloserGrows
    <3>3. ~ (Closer(res \cap alive', m) < NumTargets)
      BY <3>1 DEF Open
    <3> QED BY <3>2, <3>3, NumTargetsAssumption
  <2>6. Held'
    <3>1. running # "starting"
      BY <1>1 DEF IInv, Held
    <3> QED BY <2>2, <2>3, <3>1 DEF Held
  <2> QED BY <1>11, <1>12, <1>13, <1>14, <2>4, <2>5, <2>6 DEF IInv
<1>17. CASE invokeCount' # 0
  <2>1. done' = FALSE /\ results' = res
    BY <1>17 DEF GoesOn, Over, IInv, TypeOK
  <2>2. NothingAfterDone' /\ SearchComplete'
    BY <2>1 DEF NothingAfterDone, SearchComplete
  <2>3. Held'
    <3>1. running # "starting"
      BY <1>1 DEF IInv, Held
    <3>2. transactions' \subseteq Out' /\ calls' \subseteq Out'
      BY <1>5, <1>7 DEF IInv, Held
    <3>3. running = "timeouts" => calls' \cap transactions' = {}
      BY <1>5, <1>6 DEF IInv, Held
    <3>4. running = "shorts" => calls' \subseteq transactions' \ short
      BY <1>5 DEF IInv, Held
    <3>5. running = "destructing" => transactions' = {}
      BY <1>5 DEF IInv, Held, destructing
    <3>6. running = "idle" => calls' = {}
      BY DEF IInv, Held
    <3> QED BY <2>1, <3>1, <3>2, <3>3, <3>4, <3>5, <3>6 DEF Held
  <2> QED BY <1>11, <1>12, <1>13, <1>14, <2>2, <2>3 DEF IInv
<1> QED BY <1>16, <1>17

----------------------------------------------------------------------------

LEMMA InitIInv == Init => IInv
<1> SUFFICES ASSUME Init PROVE IInv
  OBVIOUS
<1>1. Out = {} /\ Out \cap short = {}
  BY DEF Init, Out
<1>2. TypeOK
  BY BranchAssumption DEF Init, TypeOK
<1>3. Cardinality(Out) = 0 /\ Cardinality(Out \cap short) = 0
  BY <1>1, FS_EmptySet
<1>4. InvokeCountExact /\ BranchFactorExact /\ InvokeBound
  BY <1>3, BranchAssumption DEF Init, InvokeCountExact, BranchFactorExact, InvokeBound
<1>5. Held /\ NothingAfterDone /\ SearchComplete
  BY <1>1 DEF Init, Held, NothingAfterDone, SearchComplete
<1> QED BY <1>2, <1>4, <1>5 DEF IInv

LEMMA StartIInv ==
    ASSUME IInv, Start
    PROVE  IInv'
<1>1. PICK known \in SUBSET Nodes :
        AddRequests(Cut(known), {}, 0, {}) /\ results' = Cut(known)
  BY DEF Start
<1>2. Cut(known) \in SUBSET Nodes /\ 0 \in Nat /\ {} \in SUBSET Nodes
  BY DEF Cut
<1>3. TypeOK /\ branchFactor' \in Nat \ {0} /\ branchFactor' = branchFactor
  BY DEF IInv, TypeOK, Start
<1>4. PICK asked \in SUBSET (Cut(known) \ queried) : Asks(asked, Cut(known), {}, 0, {})
  BY <1>1, <1>2, <1>3, AddRequestsEffect
<1>5. queried = {} /\ reported = {} /\ done = FALSE /\ calls = {} /\ short = {} /\ ~destructing
  BY DEF IInv, Held, TypeOK, Start, destructing
<1>6. Out = {} /\ Out' = asked /\ queried' = asked /\ asked \in SUBSET Nodes
      /\ Out \cap short = {} /\ Out' \cap short' = {}
  BY <1>2, <1>4, <1>5 DEF Out, Asks, Start
<1>7. TypeOK'
  BY <1>2, <1>3, <1>4, <1>5, <1>6, <1>1 DEF Asks, TypeOK, Start
<1>8. Cardinality(Out' \cap short') = 0 /\ Cardinality(Out \cap short) = 0
  BY <1>6, FS_EmptySet
<1>9. InvokeCountExact'
  <2>1. invokeCount' = 0 + Cardinality(asked) /\ Cardinality(asked) \in Nat
    BY <1>4, <1>6, NodesFinite DEF Asks
  <2> QED BY <1>6, <2>1 DEF InvokeCountExact
<1>10. BranchFactorExact' /\ InvokeBound'
  <2>1. branchFactor = Branch + Cardinality(Out \cap short)
    BY <1>5 DEF IInv, BranchFactorExact
  <2>2. branchFactor' = Branch + Cardinality(Out' \cap short')
    BY <1>3, <1>8, <2>1
  <2>3. invokeCount' <= branchFactor' \/ invokeCount' = 0
    BY <1>4, <1>5 DEF Asks
  <2>4. invokeCount' <= branchFactor'
    BY <1>3, <2>3
  <2> QED BY <2>2, <2>4 DEF BranchFactorExact, InvokeBound
<1>11. Held' /\ NothingAfterDone' /\ SearchComplete'
  BY <1>1, <1>4, <1>5, <1>6 DEF Start, Asks, Held, NothingAfterDone, SearchComplete
<1> QED BY <1>7, <1>9, <1>10, <1>11 DEF IInv

\* A short timeout that is taken back was counted in the branch factor.
LEMMA RestoredPositive ==
    ASSUME IInv, NEW n \in Out, ~destructing
    PROVE  Restored(n) \in Nat \ {0}
<1>1. branchFactor = Branch + Cardinality(Out \cap short)
  BY DEF IInv, BranchFactorExact
<1>2. n \in short => Cardinality(Out \cap short) # 0
  BY OutFinite, FS_EmptySet DEF IInv
<1>3. branchFactor \in Nat \ {0} /\ (n \in short => branchFactor >= 2)
  BY <1>1, <1>2, OutFinite, BranchAssumption DEF IInv, TypeOK
<1> QED BY <1>3 DEF Restored

LEMMA ReplyIInv ==
    ASSUME IInv, NEW n \in Nodes, Reply(n)
    PROVE  IInv'
<1>1. n \in Out /\ calls = {} /\ results # {} /\ ~done /\ ~destructing
  BY DEF IInv, Held, Reply, NothingAfterDone, destructing
<1>2. PICK named \in SUBSET Nodes :
        Finished(n, Cut(results \cup named), transactions \ {n})
  BY DEF Reply
<1>3. results \cup named \in SUBSET Nodes /\ results \cup named # {}
  BY <1>1 DEF IInv, TypeOK
<1>4. Cut(results \cup named) \in SUBSET Nodes /\ Cut(results \cup named) # {}
  BY <1>3, CutNonempty DEF Cut
<1>5. transactions \ {n} \in SUBSET Nodes
  BY DEF IInv, TypeOK
<1>6. Restored(n) \in Nat \ {0}
  BY <1>1, RestoredPositive
<1>7. /\ reported' = reported \cup {n} /\ short' = short /\ kind' = kind
      /\ alive' = alive \cup {n} /\ branchFactor' = Restored(n)
      /\ GoesOn(Cut(results \cup named), alive', invokeCount - 1, transactions \ {n})
      /\ running' = running /\ calls' = calls \ {n}
  BY <1>1, <1>2 DEF Finished, Reports, Reply
<1> QED BY <1>1, <1>4, <1>5, <1>6, <1>7, ReportIInv

\* failed(): the early return for an empty m_results is never taken.
LEMMA FailedIInv ==
    ASSUME IInv, NEW n \in Out, NEW b \in Nat \ {0}, NEW waiting \in SUBSET Nodes,
           Failed(n, b, waiting), waiting = transactions \ {n},
           destructing \/ b = Restored(n),
           running' = running, calls' = calls \ {n}
    PROVE  IInv'
<1>1. results \in SUBSET Nodes /\ results # {} /\ ~done
  BY DEF IInv, TypeOK, Held, NothingAfterDone
<1>2. /\ reported' = reported \cup {n} /\ short' = short /\ kind' = kind
      /\ alive' = alive /\ branchFactor' = b
      /\ GoesOn(results, alive, OneLess, waiting)
  BY <1>1 DEF Failed, Reports
<1>3. GoesOn(results, alive', invokeCount - 1, waiting)
  BY <1>2 DEF OneLess
<1> QED BY <1>1, <1>2, <1>3, ReportIInv

LEMMA UnreachableIInv ==
    ASSUME IInv, NEW n \in Nodes, Unreachable(n)
    PROVE  IInv'
<1>1. n \in Out /\ calls = {} /\ ~destructing
  BY DEF IInv, Held, Unreachable, destructing
<1>2. Restored(n) \in Nat \ {0} /\ transactions \ {n} \in SUBSET Nodes
  BY <1>1, RestoredPositive DEF IInv, TypeOK
<1>3. Failed(n, Restored(n), transactions \ {n}) /\ running' = running /\ calls' = calls \ {n}
  BY <1>1 DEF Unreachable
<1> QED BY <1>1, <1>2, <1>3, FailedIInv

LEMMA TimeoutIInv ==
    ASSUME IInv, NEW n \in Nodes, Timeout(n)
    PROVE  IInv'
<1>1. n \in Out /\ n \notin transactions /\ ~destructing
  BY DEF IInv, Held, Timeout, Call, destructing
<1>2. Restored(n) \in Nat \ {0}
  BY <1>1, RestoredPositive
<1>3. transactions \in SUBSET Nodes /\ transactions = transactions \ {n}
  BY <1>1 DEF IInv, TypeOK
<1>4. Failed(n, Restored(n), transactions) /\ running' = running /\ calls' = calls \ {n}
  BY DEF Timeout
<1> QED BY <1>1, <1>2, <1>3, <1>4, FailedIInv

LEMMA AbortIInv ==
    ASSUME IInv, NEW n \in Nodes, Abort(n)
    PROVE  IInv'
<1>1. n \in Out /\ destructing
  BY DEF IInv, Held, Abort, Call, destructing
<1>2. transactions = {}
  BY <1>1 DEF IInv, Held, destructing
<1>3. Lowered(Restored(n)) \in Nat \ {0}
  BY DEF Lowered, Restored, IInv, TypeOK
<1>4. transactions \in SUBSET Nodes /\ transactions = transactions \ {n}
  BY <1>2
<1>5. Failed(n, Lowered(Restored(n)), transactions) /\ running' = running /\ calls' = calls \ {n}
  BY DEF Abort
<1> QED BY <1>1, <1>3, <1>4, <1>5, FailedIInv

LEMMA ShortTimeoutIInv ==
    ASSUME IInv, NEW n \in Nodes, ShortTimeout(n)
    PROVE  IInv'
<1>1. /\ n \in Out /\ n \in transactions /\ n \notin short /\ ~destructing
      /\ results # {} /\ ~done /\ running = "shorts"
  BY DEF IInv, Held, ShortTimeout, Call, NothingAfterDone, destructing
<1>2. /\ branchFactor' = branchFactor + 1 /\ short' = short \cup {n}
      /\ GoesOn(results, alive, invokeCount, transactions)
      /\ kind' = kind /\ alive' = alive /\ reported' = reported
      /\ calls' = calls \ {n} /\ running' = running
  BY <1>1 DEF ShortTimeout
<1>3. /\ TypeOK /\ results \in SUBSET Nodes /\ alive \in SUBSET Nodes /\ invokeCount \in Nat
      /\ transactions \in SUBSET Nodes /\ branchFactor' \in Nat \ {0}
  BY <1>2 DEF IInv, TypeOK
<1>4. AddRequests(results, alive, invokeCount, transactions)
  BY <1>2 DEF GoesOn
<1>5. PICK asked \in SUBSET (results \ queried) :
        Asks(asked, results, alive, invokeCount, transactions)
  <2>1. PICK count \in Nat : count = invokeCount
    BY <1>3
  <2>2. \E asked \in SUBSET (results \ queried) :
          Asks(asked, results, alive, count, transactions)
    BY <1>3, <1>4, <2>1, AddRequestsEffect
  <2> QED BY <2>1, <2>2
<1>6. asked \in SUBSET Nodes /\ asked \cap queried = {} /\ asked \cap Out = {}
      /\ asked \cap short = {}
  BY DEF IInv, TypeOK, Out
<1>7. Out' = Out \cup asked /\ Out' \cap short' = (Out \cap short) \cup {n}
  BY <1>1, <1>2, <1>5, <1>6 DEF Out, IInv, TypeOK, Asks
<1>8. destructing' = destructing
  BY <1>2 DEF destructing
<1>9. invokeCount' # 0 /\ invokeCount = Cardinality(Out) /\ Cardinality(Out) # 0
  <2>1. invokeCount = Cardinality(Out) /\ Cardinality(Out) \in Nat \ {0}
    BY <1>1, OutFinite DEF IInv, InvokeCountExact
  <2>2. invokeCount' = invokeCount + Cardinality(asked) /\ Cardinality(asked) \in Nat
    BY <1>5, <1>6, NodesFinite DEF Asks
  <2> QED BY <2>1, <2>2
<1>10. results' = results /\ done' = done /\ answer' = answer
  BY <1>2, <1>9 DEF GoesOn, Over
<1>11. TypeOK'
  BY <1>1, <1>2, <1>3, <1>5, <1>6, <1>10 DEF Asks, TypeOK
<1>12. InvokeCountExact'
  <2>1. Cardinality(Out \cup asked) = Cardinality(Out) + Cardinality(asked)
    <3>1. Out \in SUBSET Nodes
      BY DEF IInv, TypeOK, Out
    <3> QED BY <1>6, <3>1, CountNew
  <2> QED BY <1>5, <1>7, <1>9, <2>1 DEF InvokeCountExact, Asks
<1>13. BranchFactorExact'
  <2>1. Cardinality((Out \cap short) \cup {n}) = Cardinality(Out \cap short) + 1
    BY <1>1, OutFinite, FS_AddElement DEF IInv
  <2>2. Cardinality(Out' \cap short') = Cardinality((Out \cap short) \cup {n})
    BY <1>7, Zenon
  <2>3. branchFactor = Branch + Cardinality(Out \cap short) /\ Cardinality(Out \cap short) \in Nat
    BY <1>1, OutFinite DEF IInv, BranchFactorExact
  <2>4. branchFactor' = Branch + Cardinality(Out' \cap short')
    BY <1>2, <2>1, <2>2, <2>3, BranchAssumption
  <2> QED BY <2>4 DEF BranchFactorExact
<1>14. InvokeBound'
  <2>1. invokeCount <= branchFactor /\ branchFactor \in Nat
    BY <1>1 DEF IInv, InvokeBound, TypeOK
  <2>2. invokeCount' <= branchFactor' \/ invokeCount' = invokeCount
    BY <1>1, <1>5 DEF Asks
  <2>3. invokeCount' <= branchFactor'
    BY <1>2, <1>3, <2>1, <2>2
  <2> QED BY <2>3 DEF InvokeBound
<1>15. Held'
  BY <1>1, <1>2, <1>5, <1>7, <1>10 DEF IInv, Held, Asks
<1>16. NothingAfterDone' /\ SearchComplete'
  BY <1>1, <1>10 DEF NothingAfterDone, SearchComplete
<1> QED BY <1>11, <1>12, <1>13, <1>14, <1>15, <1>16 DEF IInv

\* The other steps send and report nothing.
LEMMA QuietIInv ==
    ASSUME IInv, UNCHANGED <<search, counters, sentAt, now>>,
           transactions' \subseteq transactions, calls' \subseteq Out,
           running' \in {"idle", "timeouts", "shorts", "destructing"},
           destructing => destructing',
           running' = "idle" => calls' = {},
           running' = "timeouts" => calls' \cap transactions' = {},
           running' = "shorts" => calls' \subseteq transactions' \ short,
           running' = "destructing" => transactions' = {}
    PROVE  IInv'
<1> USE DEF search, counters
<1>1. Out' = Out /\ short' = short /\ invokeCount' = invokeCount /\ branchFactor' = branchFactor
  BY DEF Out
<1>2. TypeOK'
  BY DEF IInv, TypeOK, Out
<1>3. Held'
  BY <1>1 DEF IInv, Held
<1>4. InvokeCountExact'
  BY <1>1 DEF IInv, InvokeCountExact
<1>5. BranchFactorExact' /\ InvokeBound'
  BY <1>1 DEF IInv, BranchFactorExact, InvokeBound
<1>6. NothingAfterDone'
  BY <1>1 DEF IInv, NothingAfterDone
<1>7. SearchComplete'
  BY DEF IInv, SearchComplete
<1> QED BY <1>2, <1>3, <1>4, <1>5, <1>6, <1>7 DEF IInv

LEMMA NextIInv == IInv /\ [Next]_vars => IInv'
<1> SUFFICES ASSUME IInv, [Next]_vars PROVE IInv'
  OBVIOUS
<1>1. CASE Start
  BY <1>1, StartIInv
<1>2. ASSUME NEW n \in Nodes, Reply(n) PROVE IInv'
  BY <1>2, ReplyIInv
<1>3. ASSUME NEW n \in Nodes, MalformedReply(n) PROVE IInv'
  BY <1>3, QuietIInv DEF MalformedReply, IInv, Held, destructing
<1>4. ASSUME NEW n \in Nodes, Unreachable(n) PROVE IInv'
  BY <1>4, UnreachableIInv
<1>5. CASE Tick
  BY <1>5, QuietIInv DEF Tick, IInv, Held, destructing
<1>6. ASSUME NEW n \in Nodes, Timeout(n) PROVE IInv'
  BY <1>6, TimeoutIInv
<1>7. ASSUME NEW n \in Nodes, ShortTimeout(n) PROVE IInv'
  BY <1>7, ShortTimeoutIInv
<1>8. CASE ShortScan
  BY <1>8, QuietIInv DEF ShortScan, IInv, Held, destructing
<1>9. CASE TickEnds
  BY <1>9, QuietIInv DEF TickEnds, IInv, Held, destructing
<1>10. CASE Destruct
  BY <1>10, QuietIInv DEF Destruct, IInv, Held, destructing
<1>11. ASSUME NEW n \in Nodes, Abort(n) PROVE IInv'
  BY <1>11, AbortIInv
<1>12. CASE UNCHANGED vars
  BY <1>12, QuietIInv DEF vars, manager, search, counters, IInv, TypeOK, Held, Out, InvokeCountExact,
     BranchFactorExact, InvokeBound, NothingAfterDone, SearchComplete, destructing
<1> QED BY <1>1, <1>2, <1>3, <1>4, <1>5, <1>6, <1>7, <1>8, <1>9, <1>10, <1>11, <1>12
        DEF Next, Network, Ticking

\* The invariant holds in every behaviour.
THEOREM Inductive == Spec => []IInv
  BY InitIInv, NextIInv, PTL DEF Spec

----------------------------------------------------------------------------

\* Every variable of a search and of the request table keeps its type.
THEOREM TypeCorrect == Spec => []TypeOK
<1>1. IInv => TypeOK
  BY DEF IInv
<1> QED BY <1>1, Inductive, PTL

\* m_invoke_count is the number of requests sent and not reported, for every set of
\* nodes and whatever order replies and timeouts come in (finished(), failed()).
THEOREM InvokeCountHolds == Spec => []InvokeCountExact
<1>1. IInv => InvokeCountExact
  BY DEF IInv
<1> QED BY <1>1, Inductive, PTL

\* m_branch_factor is raised exactly by the requests that had a short timeout.
THEOREM BranchFactorHolds == Spec => []BranchFactorExact
<1>1. IInv => BranchFactorExact
  BY DEF IInv
<1> QED BY <1>1, Inductive, PTL

\* No more than the branch factor are out that have not had their short timeout: the
\* two counters differ by what has.
THEOREM BoundedConcurrencyHolds == Spec => []BoundedConcurrency
<1>1. ASSUME IInv PROVE BoundedConcurrency
  <2> SUFFICES ASSUME ~destructing PROVE Cardinality(Out \ short) <= Branch
    BY DEF BoundedConcurrency
  <2>1. Out \ short \in SUBSET Nodes /\ Out \cap short \in SUBSET Nodes
    BY <1>1 DEF IInv, TypeOK, Out
  <2>2. Cardinality((Out \ short) \cup (Out \cap short)) =
          Cardinality(Out \ short) + Cardinality(Out \cap short)
    BY <2>1, CountNew
  <2>3. Cardinality(Out) = Cardinality((Out \ short) \cup (Out \cap short))
    <3>1. Out = (Out \ short) \cup (Out \cap short)
      OBVIOUS
    <3> QED BY <3>1, Zenon
  <2>4. Cardinality(Out \ short) \in Nat /\ Cardinality(Out \cap short) \in Nat
    BY <2>1, NodesFinite
  <2>5. /\ Cardinality(Out) <= branchFactor
        /\ branchFactor = Branch + Cardinality(Out \cap short)
    BY <1>1 DEF IInv, InvokeCountExact, BranchFactorExact, InvokeBound
  <2> QED BY <2>2, <2>3, <2>4, <2>5, BranchAssumption
<1> QED BY <1>1, Inductive, PTL

\* Nothing is answered, timed out or asked after m_nodes_callback.
THEOREM NothingAfterDoneHolds == Spec => []NothingAfterDone
<1>1. IInv => NothingAfterDone
  BY DEF IInv
<1> QED BY <1>1, Inductive, PTL

\* add_requests() leaves out nobody who is closer than the NumTargets-th node that
\* answered, however results are cut and the branch factor moves.
THEOREM SearchCompleteHolds == Spec => []SearchComplete
<1>1. IInv => SearchComplete
  BY DEF IInv
<1> QED BY <1>1, Inductive, PTL

=============================================================================
