------------------------ MODULE PieceDownload_proofs ------------------------
(***************************************************************************)
(* Theorems about PieceDownload, for every number of blocks, every set of   *)
(* peers and every bound on bad blocks.  With any number of disk faults the *)
(* counters of the picker are bounded by its blocks and no block is asked   *)
(* twice of one peer, nor awaited in upload mode; without them the counters *)
(* are exact, a complete piece has its hash check under way, and a piece we *)
(* have is good on the disk.                                                *)
(***************************************************************************)
EXTENDS PieceDownload, FiniteSetTheorems, SequenceTheorems, TLAPS

BlockStates == {"none", "requested", "writing", "finished"}
Pickers ==
    [have : BOOLEAN, downloading : BOOLEAN, full : BOOLEAN,
     state : [Blocks -> BlockStates],
     num_peers : [Blocks -> Nat], peer : [Blocks -> Peers \cup {NoPeer}],
     requested : Nat, writing : Nat, finished : Nat]

Count(f, v) == Cardinality({b \in Blocks : f[b] = v})

\* What holds of the picker whatever the disk does.
Counted(pk) ==
    /\ pk \in Pickers
    /\ pk.writing = Count(pk.state, "writing")
    /\ pk.finished = Count(pk.state, "finished")
    /\ pk.requested >= Count(pk.state, "requested")
    /\ ~pk.downloading => \A b \in Blocks : pk.state[b] = "none"
    /\ pk.have => ~pk.downloading

\* What holds of it as long as no write fails.
Exact(pk) ==
    /\ pk.requested = Count(pk.state, "requested")
    /\ pk.downloading /\ pk.full => \A b \in Blocks : pk.state[b] # "none"

Arrived(pk, b) == pk.state[b] \in {"writing", "finished"}

\* What a step that moves no block to or from the disk does to the picker.
Moves(pk, qk) ==
    /\ Counted(qk)
    /\ Exact(pk) => Exact(qk)
    /\ qk.have = pk.have
    /\ \A b \in Blocks : Arrived(pk, b) \/ Arrived(qk, b) =>
           qk.state[b] = pk.state[b] /\ qk.peer[b] = pk.peer[b]

----------------------------------------------------------------------------
(* Counting blocks                                                         *)

\* Every set of blocks and every set of peers is finite.
LEMMA Finite ==
    /\ IsFiniteSet(Blocks) /\ Cardinality(Blocks) = NumBlocks
    /\ \A S \in SUBSET Blocks : IsFiniteSet(S) /\ Cardinality(S) \in Nat
    /\ \A S \in SUBSET Peers : IsFiniteSet(S) /\ Cardinality(S) \in Nat
<1>1. IsFiniteSet(Blocks) /\ Cardinality(Blocks) = NumBlocks
  BY FS_Interval, PieceAssumption DEF Blocks
<1> QED BY <1>1, FS_Subset, FS_CardinalityType, PieceAssumption

\* Setting the state of one block changes the count of two states by one.
LEMMA CountSet ==
    ASSUME NEW f \in [Blocks -> BlockStates], NEW b \in Blocks, NEW s \in BlockStates,
           NEW v \in BlockStates
    PROVE  /\ Count(f, v) \in Nat
           /\ Count([f EXCEPT ![b] = s], v) =
                IF f[b] = s THEN Count(f, v)
                ELSE IF v = s THEN Count(f, v) + 1
                ELSE IF v = f[b] THEN Count(f, v) - 1 ELSE Count(f, v)
           /\ v = f[b] => Count(f, v) > 0
<1> DEFINE S == {c \in Blocks : f[c] = v}
           g == [f EXCEPT ![b] = s]
           T == {c \in Blocks : g[c] = v}
<1>1. IsFiniteSet(S) /\ Cardinality(S) \in Nat
  BY Finite
<1>2. Count(f, v) = Cardinality(S) /\ Count(g, v) = Cardinality(T)
  BY DEF Count
<1>3. CASE f[b] = s
  <2>1. g = f
    BY <1>3
  <2>2. v = f[b] => Cardinality(S) > 0
    <3>1. v = f[b] => b \in S
      OBVIOUS
    <3>2. v = f[b] => Cardinality(S) # 0
      BY <3>1, <1>1, FS_EmptySet
    <3> QED BY <3>2, <1>1
  <2> QED BY <1>1, <1>2, <2>1, <2>2, <1>3
<1>4. CASE f[b] # s /\ v = s
  <2>1. T = S \cup {b} /\ b \notin S
    BY <1>4
  <2>2. Cardinality(T) = Cardinality(S) + 1
    BY <2>1, <1>1, FS_AddElement
  <2> QED BY <1>1, <1>2, <2>2, <1>4
<1>5. CASE f[b] # s /\ v # s /\ v = f[b]
  <2>1. T = S \ {b} /\ b \in S
    BY <1>5
  <2>2. Cardinality(T) = Cardinality(S) - 1
    BY <2>1, <1>1, FS_RemoveElement
  <2>3. Cardinality(S) # 0
    BY <2>1, <1>1, FS_EmptySet
  <2> QED BY <1>1, <1>2, <2>2, <2>3, <1>5
<1>6. CASE f[b] # s /\ v # s /\ v # f[b]
  <2>1. T = S
    BY <1>6
  <2> QED BY <1>1, <1>2, <2>1, <1>6
<1> QED BY <1>3, <1>4, <1>5, <1>6

\* Freeing a set of requested blocks lowers the count of those by its size.
LEMMA CountFreed ==
    ASSUME NEW f \in [Blocks -> BlockStates], NEW G \in SUBSET Blocks,
           \A b \in G : f[b] = "requested"
    PROVE  LET g == [b \in Blocks |-> IF b \in G THEN "none" ELSE f[b]] IN
           /\ Cardinality(G) \in Nat
           /\ Count(g, "requested") = Count(f, "requested") - Cardinality(G)
           /\ Count(g, "requested") \in Nat /\ Count(f, "requested") \in Nat
           /\ Count(g, "writing") = Count(f, "writing")
           /\ Count(g, "finished") = Count(f, "finished")
<1> DEFINE g == [b \in Blocks |-> IF b \in G THEN "none" ELSE f[b]]
           S == {c \in Blocks : f[c] = "requested"}
           T == {c \in Blocks : g[c] = "requested"}
<1>1. IsFiniteSet(T) /\ Cardinality(T) \in Nat /\ Cardinality(S) \in Nat
  BY Finite
<1>2. IsFiniteSet(G) /\ Cardinality(G) \in Nat
  BY Finite
<1>3. S = T \cup G /\ T \cap G = {}
  OBVIOUS
<1>4. Cardinality(S) = Cardinality(T) + Cardinality(G)
  <2>1. Cardinality(S) = Cardinality(T) + Cardinality(G) - Cardinality({})
    BY <1>1, <1>2, <1>3, FS_Union
  <2> QED BY <2>1, <1>1, <1>2, FS_EmptySet
<1>5. {c \in Blocks : g[c] = "writing"} = {c \in Blocks : f[c] = "writing"}
  OBVIOUS
<1>6. {c \in Blocks : g[c] = "finished"} = {c \in Blocks : f[c] = "finished"}
  OBVIOUS
<1> HIDE DEF g
<1>7. Count(g, "writing") = Count(f, "writing") /\ Count(g, "finished") = Count(f, "finished")
  BY <1>5, <1>6, Zenon DEF Count
<1>8. Count(g, "requested") = Cardinality(T) /\ Count(f, "requested") = Cardinality(S)
  BY DEF Count
<1>9. Count(g, "requested") = Count(f, "requested") - Cardinality(G)
  BY <1>1, <1>2, <1>4, <1>8
<1>10. Count(g, "requested") \in Nat /\ Count(f, "requested") \in Nat
  BY <1>1, <1>8
<1> USE DEF g
<1> QED BY <1>2, <1>7, <1>9, <1>10

\* The counts are of disjoint sets that make up the blocks.
LEMMA CountAll ==
    ASSUME NEW f \in [Blocks -> BlockStates]
    PROVE  /\ \A v \in BlockStates : Count(f, v) \in Nat /\ (Count(f, v) = 0 <=> \A b \in Blocks : f[b] # v)
           /\ Count(f, "finished") = NumBlocks <=> \A b \in Blocks : f[b] = "finished"
           /\ Count(f, "writing") + Count(f, "finished") >= NumBlocks
                <=> \A b \in Blocks : f[b] \in {"writing", "finished"}
           /\ Count(f, "requested") + Count(f, "writing") + Count(f, "finished") = NumBlocks
                <=> \A b \in Blocks : f[b] # "none"
<1> DEFINE C(v) == {b \in Blocks : f[b] = v}
           A == C("writing") \cup C("finished")
           R == A \cup C("requested")
<1>1. \A v \in BlockStates : IsFiniteSet(C(v)) /\ Cardinality(C(v)) \in Nat
        /\ Count(f, v) = Cardinality(C(v))
  BY Finite DEF Count
<1>2. \A v \in BlockStates : Cardinality(C(v)) = 0 <=> C(v) = {}
  BY <1>1, FS_EmptySet
<1>3. /\ Cardinality(A) = Cardinality(C("writing")) + Cardinality(C("finished"))
      /\ IsFiniteSet(A) /\ Cardinality(A) \in Nat
  <2>1. C("writing") \cap C("finished") = {}
    OBVIOUS
  <2>2. Cardinality(A) = Cardinality(C("writing")) + Cardinality(C("finished")) - Cardinality({})
    BY <1>1, <2>1, FS_Union DEF BlockStates
  <2>3. IsFiniteSet(A) /\ Cardinality(A) \in Nat
    BY Finite
  <2> QED BY <2>2, <2>3, <1>1, FS_EmptySet DEF BlockStates
<1>4. /\ Cardinality(R) = Cardinality(A) + Cardinality(C("requested"))
      /\ IsFiniteSet(R) /\ Cardinality(R) \in Nat
  <2>1. A \cap C("requested") = {}
    OBVIOUS
  <2>2. Cardinality(R) = Cardinality(A) + Cardinality(C("requested")) - Cardinality({})
    BY <1>1, <1>3, <2>1, FS_Union DEF BlockStates
  <2>3. IsFiniteSet(R) /\ Cardinality(R) \in Nat
    BY Finite
  <2> QED BY <2>2, <2>3, <1>1, <1>3, FS_EmptySet DEF BlockStates
<1>5. ASSUME NEW S \in SUBSET Blocks
      PROVE  /\ Cardinality(S) <= NumBlocks
             /\ Cardinality(S) = NumBlocks <=> S = Blocks
  BY Finite, FS_Subset
<1>6. Cardinality(C("finished")) = NumBlocks <=> C("finished") = Blocks
  <2>1. C("finished") \in SUBSET Blocks
    OBVIOUS
  <2> HIDE DEF C
  <2> QED BY <1>5, <2>1
<1>7. Cardinality(A) <= NumBlocks /\ (Cardinality(A) = NumBlocks <=> A = Blocks)
  <2>1. A \in SUBSET Blocks
    OBVIOUS
  <2> HIDE DEF A
  <2> QED BY <1>5, <2>1
<1>8. Cardinality(R) <= NumBlocks /\ (Cardinality(R) = NumBlocks <=> R = Blocks)
  <2>1. R \in SUBSET Blocks
    OBVIOUS
  <2> HIDE DEF R
  <2> QED BY <1>5, <2>1
<1>9. /\ C("finished") = Blocks <=> \A b \in Blocks : f[b] = "finished"
      /\ A = Blocks <=> \A b \in Blocks : f[b] \in {"writing", "finished"}
      /\ R = Blocks <=> \A b \in Blocks : f[b] # "none"
      /\ \A v \in BlockStates : C(v) = {} <=> \A b \in Blocks : f[b] # v
  BY DEF BlockStates
<1> HIDE DEF A, R, C
<1>10. \A v \in BlockStates : Count(f, v) \in Nat /\ (Count(f, v) = 0 <=> \A b \in Blocks : f[b] # v)
  BY <1>1, <1>2, <1>9
<1>11. Count(f, "finished") = NumBlocks <=> \A b \in Blocks : f[b] = "finished"
  BY <1>1, <1>6, <1>9 DEF BlockStates
<1>12. Count(f, "writing") + Count(f, "finished") >= NumBlocks
         <=> \A b \in Blocks : f[b] \in {"writing", "finished"}
  <2>1. Cardinality(A) >= NumBlocks <=> Cardinality(A) = NumBlocks
    BY <1>3, <1>7, PieceAssumption
  <2>2. Count(f, "writing") + Count(f, "finished") = Cardinality(A)
    BY <1>1, <1>3 DEF BlockStates
  <2> QED BY <2>1, <2>2, <1>7, <1>9
<1>13. Count(f, "requested") + Count(f, "writing") + Count(f, "finished") = NumBlocks
         <=> \A b \in Blocks : f[b] # "none"
  <2>1. Count(f, "requested") + Count(f, "writing") + Count(f, "finished") = Cardinality(R)
    BY <1>1, <1>3, <1>4 DEF BlockStates
  <2> QED BY <2>1, <1>8, <1>9
<1> QED BY <1>10, <1>11, <1>12, <1>13

----------------------------------------------------------------------------
(* The operations of the picker                                            *)

\* update_full touches nothing else, and tells whether a block is free.
LEMMA FullUpdated ==
    ASSUME NEW pk \in Pickers
    PROVE  LET q == UpdateFull(pk) IN
           /\ q \in Pickers
           /\ q.have = pk.have /\ q.downloading = pk.downloading
           /\ q.state = pk.state /\ q.num_peers = pk.num_peers /\ q.peer = pk.peer
           /\ q.requested = pk.requested /\ q.writing = pk.writing /\ q.finished = pk.finished
           /\ Counted(pk) => Counted(q)
           /\ Counted(pk) /\ pk.requested = Count(pk.state, "requested") => Exact(q)
<1> DEFINE q == UpdateFull(pk)
<1>1. /\ q \in Pickers
      /\ q.have = pk.have /\ q.downloading = pk.downloading
      /\ q.state = pk.state /\ q.num_peers = pk.num_peers /\ q.peer = pk.peer
      /\ q.requested = pk.requested /\ q.writing = pk.writing /\ q.finished = pk.finished
      /\ q.full <=> pk.requested + pk.writing + pk.finished = NumBlocks
  BY DEF UpdateFull, Pickers, Sum
<1> HIDE DEF q
<1>2. Counted(pk) => Counted(q)
  BY <1>1 DEF Counted
<1>3. ASSUME Counted(pk), pk.requested = Count(pk.state, "requested")
      PROVE  Exact(q)
  <2>1. pk.state \in [Blocks -> BlockStates]
    BY DEF Pickers
  <2> QED BY <1>1, <1>3, <2>1, CountAll DEF Exact, Counted
<1> USE DEF q
<1> QED BY <1>1, <1>2, <1>3

\* An erased piece is counted, whatever it was before.
LEMMA ErasedCounted ==
    ASSUME NEW pk \in Pickers
    PROVE  LET q == Erased(pk) IN
           /\ Counted(q) /\ Exact(q)
           /\ q.have = pk.have /\ ~q.downloading
           /\ q.requested = 0 /\ q.writing = 0 /\ q.finished = 0
           /\ q.state = [b \in Blocks |-> "none"]
           /\ q.num_peers = [b \in Blocks |-> 0] /\ q.peer = [b \in Blocks |-> NoPeer]
<1> DEFINE q == Erased(pk)
<1>1. /\ q \in Pickers
      /\ q.have = pk.have /\ q.downloading = FALSE
      /\ q.requested = 0 /\ q.writing = 0 /\ q.finished = 0
      /\ q.state = [b \in Blocks |-> "none"]
      /\ q.num_peers = [b \in Blocks |-> 0] /\ q.peer = [b \in Blocks |-> NoPeer]
  BY DEF Erased, Pickers, BlockStates
<1> HIDE DEF q
<1>2. \A v \in BlockStates \ {"none"} : Count(q.state, v) = 0
  <2>1. q.state \in [Blocks -> BlockStates]
    BY <1>1 DEF Pickers
  <2> QED BY <1>1, <2>1, CountAll
<1>3. Counted(q) /\ Exact(q)
  BY <1>1, <1>2 DEF Counted, Exact, BlockStates
<1> USE DEF q
<1> QED BY <1>1, <1>3

\* mark_as_downloading: the block is requested once more, unless it has arrived.
LEMMA MarkDownloadingMoves ==
    ASSUME NEW pk, Counted(pk), ~pk.have, NEW b \in Blocks, NEW p \in Peers
    PROVE  LET q == MarkDownloading(pk, b, p) IN
           /\ Moves(pk, q)
           /\ \A c \in Blocks : ~Arrived(pk, c) =>
                /\ q.state[c] = IF c = b THEN "requested" ELSE pk.state[c]
                /\ pk.downloading =>
                     q.num_peers[c] = IF c = b THEN pk.num_peers[c] + 1 ELSE pk.num_peers[c]
                /\ ~pk.downloading => q.num_peers[c] = IF c = b THEN 1 ELSE 0
<1> DEFINE q == MarkDownloading(pk, b, p)
<1>0. pk \in Pickers /\ pk.state \in [Blocks -> BlockStates] /\ pk.num_peers \in [Blocks -> Nat]
  BY DEF Counted, Pickers
<1>1. CASE ~pk.downloading
  <2> DEFINE e == Erased(pk)
             m == [e EXCEPT !.downloading = TRUE, !.state[b] = "requested",
                            !.peer[b] = p, !.num_peers[b] = 1, !.requested = 1]
  <2>1. q = UpdateFull(m)
    BY <1>1 DEF MarkDownloading
  <2>2. /\ Counted(e) /\ e \in Pickers /\ e.have = pk.have
        /\ e.requested = 0 /\ e.writing = 0 /\ e.finished = 0
        /\ e.state = [c \in Blocks |-> "none"] /\ e.num_peers = [c \in Blocks |-> 0]
    BY <1>0, ErasedCounted DEF Counted
  <2> HIDE DEF e
  <2>3. /\ m \in Pickers /\ m.have = pk.have /\ m.downloading = TRUE
        /\ m.state = [e.state EXCEPT ![b] = "requested"]
        /\ m.num_peers = [e.num_peers EXCEPT ![b] = 1]
        /\ m.requested = 1 /\ m.writing = 0 /\ m.finished = 0
    BY <2>2 DEF Pickers, BlockStates
  <2> HIDE DEF m
  <2>4. /\ Count(m.state, "requested") = 1
        /\ Count(m.state, "writing") = 0 /\ Count(m.state, "finished") = 0
    <3>1. \A v \in BlockStates \ {"none"} : Count(e.state, v) = 0
      <4>1. e.state \in [Blocks -> BlockStates]
        BY <2>2 DEF Pickers
      <4> QED BY <2>2, <4>1, CountAll
    <3>2. "requested" \in BlockStates /\ "writing" \in BlockStates /\ "finished" \in BlockStates
      BY DEF BlockStates
    <3>3. e.state \in [Blocks -> BlockStates]
      BY <2>2 DEF Pickers
    <3>4. \A v \in BlockStates : Count([e.state EXCEPT ![b] = "requested"], v) =
             IF e.state[b] = "requested" THEN Count(e.state, v)
             ELSE IF v = "requested" THEN Count(e.state, v) + 1
             ELSE IF v = e.state[b] THEN Count(e.state, v) - 1 ELSE Count(e.state, v)
      BY <3>2, <3>3, CountSet
    <3>5. e.state[b] = "none"
      BY <2>2
    <3> QED BY <2>3, <3>1, <3>2, <3>4, <3>5
  <2>5. Counted(m) /\ m.requested = Count(m.state, "requested")
    BY <2>3, <2>4 DEF Counted
  <2>6. /\ Counted(q) /\ Exact(q) /\ q.have = pk.have
        /\ q.state = m.state /\ q.num_peers = m.num_peers
    BY <2>1, <2>3, <2>5, FullUpdated
  <2> HIDE DEF q
  <2>7. \A c \in Blocks : pk.state[c] = "none" /\ q.state[c] = IF c = b THEN "requested" ELSE "none"
    BY <1>1, <2>6, <2>3, <2>2 DEF Counted
  <2>8. Moves(pk, q)
    BY <2>6, <2>7 DEF Moves, Arrived
  <2>9. \A c \in Blocks : q.num_peers[c] = IF c = b THEN 1 ELSE 0
    BY <2>6, <2>3, <2>2
  <2> QED BY <1>1, <2>7, <2>8, <2>9 DEF q
<1>2. CASE pk.downloading /\ Arrived(pk, b)
  <2>1. q = pk
    BY <1>2 DEF MarkDownloading, Arrived
  <2>2. Moves(pk, pk)
    BY DEF Moves
  <2> QED BY <1>2, <2>1, <2>2
<1>3. CASE pk.downloading /\ ~Arrived(pk, b)
  <2> DEFINE more == [pk EXCEPT !.peer[b] = p, !.num_peers[b] = @ + 1]
             m == IF IsRequested(pk, b) THEN more
                  ELSE [more EXCEPT !.state[b] = "requested", !.requested = @ + 1]
  <2>1. q = IF IsRequested(pk, b) THEN m ELSE UpdateFull(m)
    BY <1>3 DEF MarkDownloading, Arrived
  <2>2. /\ m \in Pickers /\ m.have = pk.have /\ m.downloading = pk.downloading /\ m.full = pk.full
        /\ m.peer = [pk.peer EXCEPT ![b] = p]
        /\ m.num_peers = [pk.num_peers EXCEPT ![b] = pk.num_peers[b] + 1]
        /\ m.state = [pk.state EXCEPT ![b] = "requested"]
        /\ m.requested = IF IsRequested(pk, b) THEN pk.requested ELSE pk.requested + 1
        /\ m.writing = pk.writing /\ m.finished = pk.finished
    <3>1. pk.state[b] = "requested" => [pk.state EXCEPT ![b] = "requested"] = pk.state
      BY <1>0
    <3>2. /\ more \in Pickers /\ more.have = pk.have /\ more.downloading = pk.downloading
          /\ more.full = pk.full /\ more.peer = [pk.peer EXCEPT ![b] = p]
          /\ more.num_peers = [pk.num_peers EXCEPT ![b] = pk.num_peers[b] + 1]
          /\ more.state = pk.state /\ more.requested = pk.requested
          /\ more.writing = pk.writing /\ more.finished = pk.finished
      <4>1. pk.num_peers[b] + 1 \in Nat
        BY <1>0
      <4> QED BY <1>0, <4>1 DEF Pickers
    <3> HIDE DEF more
    <3>3. CASE IsRequested(pk, b)
      <4>1. m = more
        BY <3>3
      <4> HIDE DEF m
      <4> QED BY <3>1, <3>2, <3>3, <4>1 DEF IsRequested
    <3>4. CASE ~IsRequested(pk, b)
      <4>1. m = [more EXCEPT !.state[b] = "requested", !.requested = @ + 1]
        BY <3>4
      <4> HIDE DEF m
      <4>2. /\ m.have = more.have /\ m.downloading = more.downloading
            /\ m.full = more.full /\ m.peer = more.peer /\ m.num_peers = more.num_peers
            /\ m.writing = more.writing /\ m.finished = more.finished
            /\ m.state = [more.state EXCEPT ![b] = "requested"]
            /\ m.requested = more.requested + 1
        BY <3>2, <4>1 DEF Pickers
      <4>3. more.requested + 1 \in Nat
        BY <3>2 DEF Pickers
      <4>4. m \in Pickers
        BY <3>2, <4>1, <4>3 DEF Pickers, BlockStates
      <4> QED BY <3>2, <3>4, <4>2, <4>4
    <3> QED BY <3>3, <3>4
  <2> HIDE DEF m
  <2>3. Counted(m) /\ (pk.requested = Count(pk.state, "requested") => m.requested = Count(m.state, "requested"))
    <3>1. "requested" \in BlockStates /\ "writing" \in BlockStates /\ "finished" \in BlockStates
      BY DEF BlockStates
    <3>2. /\ Count(m.state, "requested") =
               IF IsRequested(pk, b) THEN Count(pk.state, "requested") ELSE Count(pk.state, "requested") + 1
          /\ Count(m.state, "writing") = Count(pk.state, "writing")
          /\ Count(m.state, "finished") = Count(pk.state, "finished")
          /\ Count(pk.state, "requested") \in Nat
      BY <1>0, <1>3, <2>2, <3>1, CountSet DEF IsRequested, Arrived
    <3>3. pk.requested \in Nat
      BY <1>0 DEF Pickers
    <3> QED BY <1>0, <1>3, <2>2, <3>2, <3>3 DEF Counted
  <2>4. /\ Counted(q) /\ q.have = pk.have /\ (Exact(pk) => Exact(q))
        /\ q.state = m.state /\ q.num_peers = m.num_peers /\ q.peer = m.peer
    <3>1. CASE IsRequested(pk, b)
      <4>1. m.state = pk.state
        BY <3>1, <2>2, <1>0 DEF IsRequested
      <4> QED BY <2>1, <2>2, <2>3, <3>1, <4>1 DEF Exact
    <3>2. CASE ~IsRequested(pk, b)
      BY <2>1, <2>2, <2>3, <3>2, FullUpdated DEF Exact
    <3> QED BY <3>1, <3>2
  <2> HIDE DEF q
  <2>5. Moves(pk, q)
    BY <2>4, <2>2, <1>0, <1>3 DEF Moves, Arrived, Pickers, Counted
  <2>6. \A c \in Blocks :
          /\ q.state[c] = IF c = b THEN "requested" ELSE pk.state[c]
          /\ q.num_peers[c] = IF c = b THEN pk.num_peers[c] + 1 ELSE pk.num_peers[c]
    BY <1>0, <2>4, <2>2
  <2> QED BY <1>3, <2>5, <2>6 DEF q
<1> QED BY <1>1, <1>2, <1>3

\* mark_as_writing, for a block that has not arrived.
LEMMA MarkWritingCounted ==
    ASSUME NEW pk, Counted(pk), ~pk.have, NEW b \in Blocks, ~Arrived(pk, b), NEW p \in Peers
    PROVE  LET q == MarkWriting(pk, b, p) IN
           /\ Counted(q) /\ (Exact(pk) => Exact(q)) /\ q.have = pk.have
           /\ \A c \in Blocks : q.state[c] = IF c = b THEN "writing" ELSE pk.state[c]
           /\ \A c \in Blocks : Arrived(pk, c) => q.peer[c] = pk.peer[c]
           /\ q.peer[b] = p
           /\ \A c \in Blocks \ {b} :
                q.num_peers[c] = IF pk.downloading THEN pk.num_peers[c] ELSE 0
<1> DEFINE q == MarkWriting(pk, b, p)
<1>0. /\ pk \in Pickers /\ pk.state \in [Blocks -> BlockStates]
      /\ pk.requested \in Nat /\ pk.writing \in Nat
  BY DEF Counted, Pickers
<1>1. "requested" \in BlockStates /\ "writing" \in BlockStates /\ "finished" \in BlockStates
  BY DEF BlockStates
<1>2. CASE ~pk.downloading
  <2> DEFINE e == Erased(pk)
             m == [e EXCEPT !.downloading = TRUE, !.state[b] = "writing",
                            !.peer[b] = p, !.writing = 1]
  <2>1. q = UpdateFull(m)
    BY <1>2 DEF MarkWriting
  <2>2. /\ Counted(e) /\ e \in Pickers /\ e.have = pk.have
        /\ e.requested = 0 /\ e.writing = 0 /\ e.finished = 0
        /\ e.state = [c \in Blocks |-> "none"] /\ e.num_peers = [c \in Blocks |-> 0]
    BY <1>0, ErasedCounted DEF Counted
  <2> HIDE DEF e
  <2>3. /\ m \in Pickers /\ m.have = pk.have /\ m.downloading = TRUE
        /\ m.state = [e.state EXCEPT ![b] = "writing"]
        /\ m.num_peers = e.num_peers /\ m.peer = [e.peer EXCEPT ![b] = p]
        /\ m.requested = 0 /\ m.writing = 1 /\ m.finished = 0
    BY <2>2 DEF Pickers, BlockStates
  <2> HIDE DEF m
  <2>4. e.state \in [Blocks -> BlockStates] /\ e.peer \in [Blocks -> Peers \cup {NoPeer}]
    BY <2>2 DEF Pickers
  <2>5. /\ Count(m.state, "requested") = 0
        /\ Count(m.state, "writing") = 1 /\ Count(m.state, "finished") = 0
    <3>1. \A v \in BlockStates \ {"none"} : Count(e.state, v) = 0
      BY <2>2, <2>4, CountAll
    <3>2. \A v \in BlockStates : Count([e.state EXCEPT ![b] = "writing"], v) =
             IF e.state[b] = "writing" THEN Count(e.state, v)
             ELSE IF v = "writing" THEN Count(e.state, v) + 1
             ELSE IF v = e.state[b] THEN Count(e.state, v) - 1 ELSE Count(e.state, v)
      BY <1>1, <2>4, CountSet
    <3>3. e.state[b] = "none"
      BY <2>2
    <3> QED BY <1>1, <2>3, <3>1, <3>2, <3>3
  <2>6. Counted(m) /\ m.requested = Count(m.state, "requested")
    BY <2>3, <2>5 DEF Counted
  <2>7. /\ Counted(q) /\ Exact(q) /\ q.have = pk.have
        /\ q.state = m.state /\ q.num_peers = m.num_peers /\ q.peer = m.peer
    BY <2>1, <2>3, <2>6, FullUpdated
  <2> HIDE DEF q
  <2>8. \A c \in Blocks : pk.state[c] = "none" /\ ~Arrived(pk, c)
    BY <1>2 DEF Counted, Arrived
  <2>9. /\ \A c \in Blocks : q.state[c] = IF c = b THEN "writing" ELSE pk.state[c]
        /\ q.peer[b] = p
        /\ \A c \in Blocks \ {b} : q.num_peers[c] = 0
    BY <2>2, <2>3, <2>4, <2>7, <2>8
  <2> QED BY <1>2, <2>7, <2>8, <2>9 DEF q
<1>3. CASE pk.downloading
  <2> DEFINE met == [pk EXCEPT !.peer[b] = p, !.requested = StillRequested(pk, b)]
  <2>1. q = [met EXCEPT !.state[b] = "writing", !.writing = @ + 1, !.num_peers[b] = 0]
    BY <1>3 DEF MarkWriting, Arrived
  <2>2. /\ Count([pk.state EXCEPT ![b] = "writing"], "writing") = Count(pk.state, "writing") + 1
        /\ Count([pk.state EXCEPT ![b] = "writing"], "finished") = Count(pk.state, "finished")
        /\ Count([pk.state EXCEPT ![b] = "writing"], "requested") =
             IF IsRequested(pk, b) THEN Count(pk.state, "requested") - 1
             ELSE Count(pk.state, "requested")
        /\ IsRequested(pk, b) => Count(pk.state, "requested") > 0
        /\ Count(pk.state, "requested") \in Nat
    BY <1>0, <1>1, CountSet DEF IsRequested, Arrived
  <2>3. /\ StillRequested(pk, b) \in Nat
        /\ StillRequested(pk, b) >= Count([pk.state EXCEPT ![b] = "writing"], "requested")
        /\ pk.requested = Count(pk.state, "requested") =>
             StillRequested(pk, b) = Count([pk.state EXCEPT ![b] = "writing"], "requested")
    BY <1>0, <2>2 DEF StillRequested, Counted
  <2>4. /\ met \in Pickers /\ met.have = pk.have /\ met.downloading = pk.downloading
        /\ met.full = pk.full /\ met.state = pk.state /\ met.num_peers = pk.num_peers
        /\ met.peer = [pk.peer EXCEPT ![b] = p]
        /\ met.requested = StillRequested(pk, b)
        /\ met.writing = pk.writing /\ met.finished = pk.finished
    BY <1>0, <2>3 DEF Pickers
  <2> HIDE DEF met, q
  <2>5. met.writing + 1 \in Nat
    BY <1>0, <2>4
  <2>6. /\ q.have = met.have /\ q.downloading = met.downloading /\ q.full = met.full
        /\ q.state = [met.state EXCEPT ![b] = "writing"]
        /\ q.num_peers = [met.num_peers EXCEPT ![b] = 0]
        /\ q.peer = met.peer /\ q.requested = met.requested
        /\ q.writing = met.writing + 1 /\ q.finished = met.finished
    BY <2>1, <2>4 DEF Pickers
  <2>7. q \in Pickers
    BY <2>1, <2>4, <2>5 DEF Pickers, BlockStates
  <2>8. Counted(q)
    BY <1>0, <1>3, <2>2, <2>3, <2>4, <2>6, <2>7 DEF Counted
  <2>9. \A c \in Blocks : q.state[c] = IF c = b THEN "writing" ELSE pk.state[c]
    BY <1>0, <2>4, <2>6
  <2>10. Exact(pk) => Exact(q)
    BY <1>0, <2>3, <2>4, <2>6, <2>9 DEF Exact
  <2>11. /\ \A c \in Blocks : Arrived(pk, c) => q.peer[c] = pk.peer[c]
         /\ q.peer[b] = p
         /\ \A c \in Blocks \ {b} : q.num_peers[c] = pk.num_peers[c]
    <3>1. pk.peer \in [Blocks -> Peers \cup {NoPeer}] /\ pk.num_peers \in [Blocks -> Nat]
      BY <1>0 DEF Pickers
    <3> QED BY <2>4, <2>6, <3>1
  <2>12. q.have = pk.have
    BY <2>4, <2>6
  <2> QED BY <1>3, <2>8, <2>9, <2>10, <2>11, <2>12 DEF q
<1> QED BY <1>2, <1>3

\* mark_as_finished: exact for a block being written, and bounded for any other.
LEMMA MarkFinishedCounted ==
    ASSUME NEW pk, Counted(pk), NEW b \in Blocks, NEW p \in Peers \cup {NoPeer}
    PROVE  LET q == MarkFinished(pk, b, p) IN
           /\ Counted(q)
           /\ pk.state[b] = "writing" =>
                /\ Exact(pk) => Exact(q)
                /\ q.have = pk.have
                /\ \A c \in Blocks : q.state[c] = IF c = b THEN "finished" ELSE pk.state[c]
                /\ \A c \in Blocks : q.peer[c] = IF c = b THEN p ELSE pk.peer[c]
                /\ q.num_peers = pk.num_peers
<1> DEFINE q == MarkFinished(pk, b, p)
<1>0. /\ pk \in Pickers /\ pk.state \in [Blocks -> BlockStates]
      /\ pk.peer \in [Blocks -> Peers \cup {NoPeer}]
      /\ pk.requested \in Nat /\ pk.writing \in Nat /\ pk.finished \in Nat
  BY DEF Counted, Pickers
<1>1. "requested" \in BlockStates /\ "writing" \in BlockStates /\ "finished" \in BlockStates
  BY DEF BlockStates
<1>2. CASE ~pk.downloading
  <2>1. pk.state[b] = "none"
    BY <1>2 DEF Counted
  <2>2. CASE pk.have
    <3>1. q = pk
      BY <1>2, <2>2 DEF MarkFinished
    <3> HIDE DEF q
    <3>2. Counted(q) /\ pk.state[b] # "writing"
      BY <2>1, <3>1
    <3> QED BY <3>2 DEF q
  <2>3. CASE ~pk.have
    <3> DEFINE e == Erased(pk)
    <3>1. q = [e EXCEPT !.downloading = TRUE, !.state[b] = "finished", !.peer[b] = p, !.finished = 1]
      BY <1>2, <2>3 DEF MarkFinished
    <3>2. /\ e \in Pickers /\ e.have = pk.have
          /\ e.requested = 0 /\ e.writing = 0 /\ e.finished = 0
          /\ e.state = [c \in Blocks |-> "none"]
      BY <1>0, ErasedCounted DEF Counted
    <3> HIDE DEF e, q
    <3>3. /\ q \in Pickers /\ q.have = pk.have /\ q.downloading = TRUE
          /\ q.state = [e.state EXCEPT ![b] = "finished"]
          /\ q.requested = 0 /\ q.writing = 0 /\ q.finished = 1
      BY <3>1, <3>2 DEF Pickers, BlockStates
    <3>4. e.state \in [Blocks -> BlockStates]
      BY <3>2 DEF Pickers
    <3>5. /\ Count(q.state, "requested") = 0
          /\ Count(q.state, "writing") = 0 /\ Count(q.state, "finished") = 1
      <4>1. \A v \in BlockStates \ {"none"} : Count(e.state, v) = 0
        BY <3>2, <3>4, CountAll
      <4>2. \A v \in BlockStates : Count([e.state EXCEPT ![b] = "finished"], v) =
               IF e.state[b] = "finished" THEN Count(e.state, v)
               ELSE IF v = "finished" THEN Count(e.state, v) + 1
               ELSE IF v = e.state[b] THEN Count(e.state, v) - 1 ELSE Count(e.state, v)
        BY <1>1, <3>4, CountSet
      <4>3. e.state[b] = "none"
        BY <3>2
      <4> QED BY <1>1, <3>3, <4>1, <4>2, <4>3
    <3>6. Counted(q) /\ pk.state[b] # "writing"
      BY <2>1, <2>3, <3>3, <3>5 DEF Counted
    <3> QED BY <3>6 DEF q
  <2> QED BY <2>2, <2>3
<1>3. CASE pk.downloading /\ pk.state[b] = "finished"
  <2>1. q = pk
    BY <1>3 DEF MarkFinished
  <2> HIDE DEF q
  <2>2. Counted(q) /\ pk.state[b] # "writing"
    BY <1>3, <2>1
  <2> QED BY <2>2 DEF q
<1>4. CASE pk.downloading /\ pk.state[b] # "finished"
  <2> DEFINE st == [pk.state EXCEPT ![b] = "finished"]
  <2>1. q = [pk EXCEPT !.state[b] = "finished", !.peer[b] = p, !.finished = @ + 1,
                       !.writing = StillWriting(pk, b)]
    BY <1>4 DEF MarkFinished
  <2>2. /\ Count(st, "writing") = IF pk.state[b] = "writing" THEN Count(pk.state, "writing") - 1
                                  ELSE Count(pk.state, "writing")
        /\ Count(st, "finished") = Count(pk.state, "finished") + 1
        /\ Count(st, "requested") <= Count(pk.state, "requested")
        /\ pk.state[b] = "writing" => Count(st, "requested") = Count(pk.state, "requested")
        /\ pk.state[b] = "writing" => Count(pk.state, "writing") > 0
        /\ Count(st, "requested") \in Nat /\ Count(pk.state, "requested") \in Nat
        /\ Count(pk.state, "writing") \in Nat
    <3>1. \A v \in BlockStates : Count(st, v) =
             IF v = "finished" THEN Count(pk.state, v) + 1
             ELSE IF v = pk.state[b] THEN Count(pk.state, v) - 1 ELSE Count(pk.state, v)
      BY <1>0, <1>1, <1>4, CountSet
    <3>2. \A v \in BlockStates : /\ Count(pk.state, v) \in Nat
                                 /\ v = pk.state[b] => Count(pk.state, v) > 0
      BY <1>0, <1>1, CountSet
    <3> HIDE DEF st
    <3> QED BY <1>1, <3>1, <3>2
  <2>3. StillWriting(pk, b) \in Nat /\ StillWriting(pk, b) = Count(st, "writing")
    BY <1>0, <2>2 DEF StillWriting, Counted
  <2> HIDE DEF q
  <2>4. /\ q.have = pk.have /\ q.downloading = pk.downloading /\ q.full = pk.full
        /\ q.state = st /\ q.num_peers = pk.num_peers /\ q.peer = [pk.peer EXCEPT ![b] = p]
        /\ q.requested = pk.requested
        /\ q.writing = StillWriting(pk, b) /\ q.finished = pk.finished + 1
    BY <1>0, <2>1 DEF Pickers
  <2>5. q \in Pickers
    <3>1. pk.finished + 1 \in Nat
      BY <1>0
    <3> QED BY <1>0, <2>1, <2>3, <3>1 DEF Pickers, BlockStates
  <2>6. st \in [Blocks -> BlockStates] /\ \A c \in Blocks : st[c] = IF c = b THEN "finished" ELSE pk.state[c]
    BY <1>0, <1>1
  <2> HIDE DEF st
  <2>7. Counted(q)
    BY <1>0, <1>4, <2>2, <2>3, <2>4, <2>5 DEF Counted
  <2>8. ASSUME pk.state[b] = "writing"
        PROVE  /\ Exact(pk) => Exact(q)
               /\ q.have = pk.have
               /\ \A c \in Blocks : q.state[c] = IF c = b THEN "finished" ELSE pk.state[c]
               /\ \A c \in Blocks : q.peer[c] = IF c = b THEN p ELSE pk.peer[c]
               /\ q.num_peers = pk.num_peers
    BY <1>0, <2>2, <2>4, <2>6, <2>8 DEF Exact
  <2> QED BY <2>7, <2>8 DEF q
<1> QED BY <1>2, <1>3, <1>4

\* clear_peer: only who sent the blocks is forgotten.
LEMMA ClearPeerCounted ==
    ASSUME NEW pk, Counted(pk), NEW p \in Peers
    PROVE  LET q == ClearPeer(pk, p) IN
           /\ Counted(q) /\ (Exact(pk) => Exact(q))
           /\ q.have = pk.have /\ q.state = pk.state /\ q.num_peers = pk.num_peers
           /\ \A b \in Blocks : q.peer[b] \in {pk.peer[b], NoPeer}
<1> DEFINE f == [b \in Blocks |-> IF pk.peer[b] = p THEN NoPeer ELSE pk.peer[b]]
           q == ClearPeer(pk, p)
<1>1. pk \in Pickers /\ pk.peer \in [Blocks -> Peers \cup {NoPeer}]
  BY DEF Counted, Pickers
<1>2. q = [pk EXCEPT !.peer = f]
  BY DEF ClearPeer
<1>3. f \in [Blocks -> Peers \cup {NoPeer}] /\ \A b \in Blocks : f[b] \in {pk.peer[b], NoPeer}
  BY <1>1
<1> HIDE DEF f, q
<1>4. /\ q \in Pickers /\ q.peer = f
      /\ q.have = pk.have /\ q.downloading = pk.downloading /\ q.full = pk.full
      /\ q.state = pk.state /\ q.num_peers = pk.num_peers
      /\ q.requested = pk.requested /\ q.writing = pk.writing /\ q.finished = pk.finished
  BY <1>1, <1>2, <1>3 DEF Pickers
<1>5. Counted(q) /\ (Exact(pk) => Exact(q))
  BY <1>4 DEF Counted, Exact
<1> QED BY <1>3, <1>4, <1>5 DEF q

\* write_failed: the block is free again.
LEMMA WriteFailedCounted ==
    ASSUME NEW pk, Counted(pk), NEW b \in Blocks
    PROVE  Counted(WriteFailed(pk, b))
<1> DEFINE q == WriteFailed(pk, b)
           st == [pk.state EXCEPT ![b] = "none"]
           m == [pk EXCEPT !.state[b] = "none", !.peer[b] = NoPeer, !.writing = StillWriting(pk, b)]
           free == UpdateFull(m)
<1>0. /\ pk \in Pickers /\ pk.state \in [Blocks -> BlockStates]
      /\ pk.requested \in Nat /\ pk.writing \in Nat /\ pk.finished \in Nat
  BY DEF Counted, Pickers
<1>1. "requested" \in BlockStates /\ "writing" \in BlockStates /\ "finished" \in BlockStates
        /\ "none" \in BlockStates
  BY DEF BlockStates
<1>2. CASE ~pk.downloading \/ pk.state[b] = "finished"
  BY <1>2 DEF WriteFailed
<1>3. CASE pk.downloading /\ pk.state[b] # "finished"
  <2>1. q = IF Sum(free) = 0 THEN Erased(free) ELSE free
    BY <1>3 DEF WriteFailed
  <2>2. /\ Count(st, "writing") = IF pk.state[b] = "writing" THEN Count(pk.state, "writing") - 1
                                  ELSE Count(pk.state, "writing")
        /\ Count(st, "finished") = Count(pk.state, "finished")
        /\ Count(st, "requested") <= Count(pk.state, "requested")
        /\ pk.state[b] = "writing" => Count(pk.state, "writing") > 0
        /\ Count(st, "requested") \in Nat /\ Count(pk.state, "requested") \in Nat
        /\ Count(pk.state, "writing") \in Nat
    <3>1. \A v \in BlockStates : Count(st, v) =
             IF pk.state[b] = "none" THEN Count(pk.state, v)
             ELSE IF v = "none" THEN Count(pk.state, v) + 1
             ELSE IF v = pk.state[b] THEN Count(pk.state, v) - 1 ELSE Count(pk.state, v)
      BY <1>0, <1>1, CountSet
    <3>2. \A v \in BlockStates : /\ Count(pk.state, v) \in Nat
                                 /\ v = pk.state[b] => Count(pk.state, v) > 0
      BY <1>0, <1>1, CountSet
    <3> HIDE DEF st
    <3> QED BY <1>1, <1>3, <3>1, <3>2
  <2>3. StillWriting(pk, b) \in Nat /\ StillWriting(pk, b) = Count(st, "writing")
    BY <1>0, <2>2 DEF StillWriting, Counted
  <2>4. /\ m.have = pk.have /\ m.downloading = pk.downloading /\ m.state = st
        /\ m.requested = pk.requested
        /\ m.writing = StillWriting(pk, b) /\ m.finished = pk.finished
    BY <1>0 DEF Pickers
  <2>5. m \in Pickers
    BY <1>0, <2>3 DEF Pickers, BlockStates
  <2> HIDE DEF m, st
  <2>6. Counted(m)
    BY <1>0, <1>3, <2>2, <2>3, <2>4, <2>5 DEF Counted
  <2>7. Counted(free) /\ free \in Pickers
    BY <2>5, <2>6, FullUpdated
  <2> HIDE DEF free, q
  <2>8. Counted(Erased(free))
    BY <2>7, ErasedCounted
  <2>9. Counted(q)
    BY <2>1, <2>7, <2>8
  <2> QED BY <2>9 DEF q
<1> QED BY <1>2, <1>3

\* The peers of the pairs X that give up block b.
GivingUp(X, b) == {p \in Peers : <<p, b>> \in X}

\* abort_download: a requested block that loses its last peer is free again.
LEMMA AbortMoves ==
    ASSUME NEW pk, Counted(pk), NEW X \in SUBSET (Peers \X Blocks)
    PROVE  LET q == Abort(pk, X) IN
           /\ Moves(pk, q)
           /\ \A c \in Blocks : pk.state[c] = "none" =>
                q.state[c] = "none" /\ q.num_peers[c] \in {pk.num_peers[c], 0}
           /\ \A c \in Blocks : pk.state[c] = "requested" /\ GivingUp(X, c) = {} =>
                q.state[c] = "requested" /\ q.num_peers[c] = pk.num_peers[c]
           /\ \A c \in Blocks : pk.state[c] = "requested" /\ GivingUp(X, c) # {} =>
                LET left == pk.num_peers[c] - Cardinality(GivingUp(X, c)) IN
                IF left <= 0 THEN q.state[c] = "none" /\ q.num_peers[c] = 0
                             ELSE q.state[c] = "requested" /\ q.num_peers[c] = left
<1> DEFINE By(b) == {p \in Peers : <<p, b>> \in X}
           Left(b) == pk.num_peers[b] - Cardinality(By(b))
           hit == {b \in Blocks : By(b) # {} /\ IsRequested(pk, b)}
           gone == {b \in hit : Left(b) <= 0}
           st == [b \in Blocks |-> IF b \in gone THEN "none" ELSE pk.state[b]]
           np == [b \in Blocks |-> IF b \in gone THEN 0
                                   ELSE IF b \in hit THEN Left(b) ELSE pk.num_peers[b]]
           pe == [b \in Blocks |-> IF b \in gone \/ (b \in hit /\ pk.peer[b] \in By(b))
                                   THEN NoPeer ELSE pk.peer[b]]
           met == [pk EXCEPT !.num_peers = np, !.peer = pe, !.state = st,
                             !.requested = @ - Cardinality(gone)]
           q == Abort(pk, X)
<1>0. /\ pk \in Pickers /\ pk.state \in [Blocks -> BlockStates]
      /\ pk.num_peers \in [Blocks -> Nat] /\ pk.peer \in [Blocks -> Peers \cup {NoPeer}]
      /\ pk.requested \in Nat /\ pk.writing \in Nat /\ pk.finished \in Nat
  BY DEF Counted, Pickers
<1>1. q = IF gone = {} THEN met
          ELSE IF Sum(met) = 0 THEN Erased(UpdateFull(met)) ELSE UpdateFull(met)
  BY DEF Abort
<1>2. \A b \in Blocks : By(b) = GivingUp(X, b) /\ Cardinality(By(b)) \in Nat /\ Left(b) \in Int
  <2>1. \A b \in Blocks : By(b) \in SUBSET Peers
    OBVIOUS
  <2>2. \A b \in Blocks : Cardinality(By(b)) \in Nat
    BY <2>1, Finite
  <2> QED BY <1>0, <2>2 DEF GivingUp
<1> HIDE DEF By
<1>3. gone \in SUBSET Blocks /\ \A b \in gone : pk.state[b] = "requested"
  BY DEF IsRequested
<1>4. st \in [Blocks -> BlockStates] /\ np \in [Blocks -> Nat] /\ pe \in [Blocks -> Peers \cup {NoPeer}]
  <2>1. \A b \in hit \ gone : Left(b) \in Nat
    BY <1>2
  <2> HIDE DEF Left
  <2> QED BY <1>0, <2>1 DEF BlockStates
<1>5. \A c \in Blocks :
        /\ st[c] = IF c \in gone THEN "none" ELSE pk.state[c]
        /\ np[c] = IF c \in gone THEN 0 ELSE IF c \in hit THEN Left(c) ELSE pk.num_peers[c]
        /\ c \notin hit => pe[c] = pk.peer[c]
  OBVIOUS
<1>6. /\ Cardinality(gone) \in Nat
      /\ Count(st, "requested") = Count(pk.state, "requested") - Cardinality(gone)
      /\ Count(st, "requested") \in Nat /\ Count(pk.state, "requested") \in Nat
      /\ Count(st, "writing") = Count(pk.state, "writing")
      /\ Count(st, "finished") = Count(pk.state, "finished")
  <2> HIDE DEF gone
  <2> QED BY <1>0, <1>3, CountFreed
<1>7. hit \in SUBSET Blocks /\ \A b \in hit : pk.state[b] = "requested" /\ ~Arrived(pk, b)
  BY DEF IsRequested, Arrived
<1>8. \A c \in Blocks : c \in hit <=> pk.state[c] = "requested" /\ GivingUp(X, c) # {}
  BY <1>2 DEF IsRequested
<1>9. \A c \in hit : c \in gone <=> Left(c) <= 0
  OBVIOUS
<1> HIDE DEF st, np, pe, gone, hit
<1>10. pk.requested - Cardinality(gone) \in Nat
  BY <1>0, <1>6 DEF Counted
<1>11. /\ met.have = pk.have /\ met.downloading = pk.downloading /\ met.full = pk.full
       /\ met.state = st /\ met.num_peers = np /\ met.peer = pe
       /\ met.requested = pk.requested - Cardinality(gone)
       /\ met.writing = pk.writing /\ met.finished = pk.finished
  BY <1>0 DEF Pickers
<1>12. met \in Pickers
  BY <1>0, <1>4, <1>10 DEF Pickers
<1> HIDE DEF met
<1>13. Counted(met)
  <2>1. met.requested >= Count(met.state, "requested")
    BY <1>0, <1>6, <1>11 DEF Counted
  <2>2. ~met.downloading => \A b \in Blocks : met.state[b] = "none"
    BY <1>5, <1>11 DEF Counted
  <2> QED BY <1>6, <1>11, <1>12, <2>1, <2>2 DEF Counted
<1>14. Exact(pk) => met.requested = Count(met.state, "requested")
  BY <1>0, <1>6, <1>11 DEF Exact
<1>15. CASE gone = {}
  <2>1. Exact(pk) => Exact(met)
    BY <1>5, <1>11, <1>14, <1>15 DEF Exact
  <2>2. Moves(pk, met)
    BY <1>5, <1>7, <1>11, <1>13, <1>15, <2>1 DEF Moves, Arrived
  <2>3. \A c \in Blocks : /\ met.state[c] = pk.state[c]
                          /\ met.num_peers[c] = IF c \in hit THEN Left(c) ELSE pk.num_peers[c]
    BY <1>5, <1>11, <1>15
  <2>4. q = met
    BY <1>1, <1>15
  <2> HIDE DEF Left, q
  <2>5. \A c \in hit : ~(Left(c) <= 0)
    BY <1>9, <1>15
  <2> USE DEF Left
  <2> QED BY <1>2, <1>8, <2>2, <2>3, <2>4, <2>5 DEF q
<1>16. CASE gone # {} /\ Sum(met) # 0
  <2> DEFINE u == UpdateFull(met)
  <2>1. q = u
    BY <1>1, <1>16
  <2>2. /\ Counted(u) /\ (Exact(pk) => Exact(u)) /\ u.have = met.have
        /\ u.state = met.state /\ u.num_peers = met.num_peers /\ u.peer = met.peer
    BY <1>12, <1>13, <1>14, FullUpdated
  <2> HIDE DEF u, q
  <2>3. \A c \in Blocks : c \notin hit => c \notin gone
    BY DEF gone
  <2>4. Moves(pk, u)
    BY <1>5, <1>7, <1>11, <2>2, <2>3 DEF Moves, Arrived
  <2>5. \A c \in Blocks : /\ u.state[c] = IF c \in gone THEN "none" ELSE pk.state[c]
                          /\ u.num_peers[c] = IF c \in gone THEN 0
                                ELSE IF c \in hit THEN Left(c) ELSE pk.num_peers[c]
    BY <1>5, <1>11, <2>2
  <2> QED BY <1>2, <1>8, <1>9, <2>1, <2>3, <2>4, <2>5 DEF q
<1>17. CASE gone # {} /\ Sum(met) = 0
  <2> DEFINE u == UpdateFull(met)
             e == Erased(u)
  <2>1. q = e
    BY <1>1, <1>17
  <2>2. u \in Pickers /\ u.have = met.have
    BY <1>12, FullUpdated
  <2> HIDE DEF u
  <2>3. /\ Counted(e) /\ Exact(e) /\ e.have = u.have
        /\ e.state = [b \in Blocks |-> "none"] /\ e.num_peers = [b \in Blocks |-> 0]
    BY <2>2, ErasedCounted
  <2> HIDE DEF e, q
  <2>4. \A c \in Blocks : met.state[c] = "none"
    <3>1. met.requested = 0 /\ met.writing = 0 /\ met.finished = 0
      BY <1>12, <1>17 DEF Sum, Pickers
    <3>2. /\ Count(met.state, "requested") = 0
          /\ Count(met.state, "writing") = 0 /\ Count(met.state, "finished") = 0
      BY <1>6, <1>11, <1>13, <3>1 DEF Counted
    <3>3. met.state \in [Blocks -> BlockStates]
      BY <1>4, <1>11
    <3> QED BY <3>2, <3>3, CountAll DEF BlockStates
  <2>5. \A c \in Blocks : e.state[c] = "none" /\ e.num_peers[c] = 0
    BY <2>3
  <2>6. \A c \in Blocks : c \in gone \/ pk.state[c] = "none"
    BY <1>5, <1>11, <2>4
  <2>7. gone \subseteq hit
    BY DEF gone
  <2>8. \A c \in Blocks : ~Arrived(pk, c) /\ ~Arrived(e, c)
    BY <1>7, <2>5, <2>6, <2>7 DEF Arrived
  <2>9. Moves(pk, e)
    BY <1>11, <2>2, <2>3, <2>8 DEF Moves
  <2>10. \A c \in hit : c \in gone /\ Left(c) <= 0
    BY <1>7, <1>9, <2>6
  <2> QED BY <1>2, <1>7, <1>8, <2>1, <2>5, <2>6, <2>7, <2>9, <2>10 DEF q
<1> QED BY <1>15, <1>16, <1>17

----------------------------------------------------------------------------
(* The queues                                                              *)

Marks == {"no", "live", "timed_out", "not_wanted"}
Handlers ==
    [picker : Pickers, rq : [Peers -> SUBSET Blocks],
     dq : [Peers -> [Blocks -> Marks]], cancelled : SUBSET (Peers \X Blocks)]

OnceIn(s) == \A p \in Peers, b \in Blocks : ~(b \in s.rq[p] /\ s.dq[p][b] # "no")

\* What a handler finds.
Ready(s) == s \in Handlers /\ Counted(s.picker) /\ OnceIn(s)

\* num_peers is the number of peers that ask for the block.
Numbered(s) ==
    ~s.picker.have => \A b \in Blocks : ~Arrived(s.picker, b) =>
        /\ s.picker.num_peers[b] = Cardinality(Asking(s, Peers, b))
        /\ s.picker.state[b] = "requested" <=> Asking(s, Peers, b) # {}

\* What a step of the peers P leaves behind: only they may ask for more.
Leads(s, t, P) ==
    /\ t \in Handlers /\ OnceIn(t)
    /\ Moves(s.picker, t.picker)
    /\ Numbered(s) => Numbered(t)
    /\ \A p \in Peers \ P : Asked(s, p) = {} => Asked(t, p) = {}

\* From s to t the peers give up the blocks X, and nothing else is asked or given up.
Gives(s, t, X) ==
    \A p \in Peers, b \in Blocks :
        /\ <<p, b>> \in X => b \in Asked(s, p)
        /\ b \in Asked(t, p) <=> b \in Asked(s, p) /\ <<p, b>> \notin X

\* Steps of the picker can be chained.
LEMMA MovesChain ==
    ASSUME NEW pk, NEW qk, NEW rk, Moves(pk, qk), Moves(qk, rk)
    PROVE  Moves(pk, rk)
<1>1. ASSUME NEW b \in Blocks, Arrived(pk, b) \/ Arrived(rk, b)
      PROVE  rk.state[b] = pk.state[b] /\ rk.peer[b] = pk.peer[b]
  <2>1. Arrived(qk, b)
    BY <1>1 DEF Moves, Arrived
  <2> QED BY <2>1 DEF Moves
<1>2. Counted(rk) /\ (Exact(pk) => Exact(rk)) /\ rk.have = pk.have
  BY DEF Moves
<1> QED BY <1>1, <1>2 DEF Moves

\* A step is ready for the next one, and steps can be chained.
LEMMA LeadsChain ==
    ASSUME NEW s, NEW t, NEW P, Ready(s), Leads(s, t, P)
    PROVE  /\ Ready(t)
           /\ \A u, Q : Leads(t, u, Q) => Leads(s, u, P \cup Q)
           /\ \A Q : P \subseteq Q => Leads(s, t, Q)
<1>1. Ready(t)
  BY DEF Ready, Leads, Moves
<1>2. ASSUME NEW u, NEW Q, Leads(t, u, Q)
      PROVE  Leads(s, u, P \cup Q)
  <2>1. Moves(s.picker, u.picker)
    BY <1>2, MovesChain DEF Leads
  <2>2. \A p \in Peers \ (P \cup Q) : Asked(s, p) = {} => Asked(u, p) = {}
    BY <1>2 DEF Leads
  <2> QED BY <1>2, <2>1, <2>2 DEF Leads
<1>3. ASSUME NEW Q, P \subseteq Q
      PROVE  Leads(s, t, Q)
  BY <1>3 DEF Leads
<1> QED BY <1>1, <1>2, <1>3

\* Nothing happens.
LEMMA LeadsNowhere ==
    ASSUME NEW s, Ready(s)
    PROVE  Leads(s, s, {})
BY DEF Leads, Ready, Moves

\* Giving up what is asked for, and aborting it in the picker, keeps the count.
LEMMA GivesLeads ==
    ASSUME NEW s, NEW t \in Handlers, NEW X \in SUBSET (Peers \X Blocks),
           Ready(s), OnceIn(t), Gives(s, t, X), t.picker = Abort(s.picker, X)
    PROVE  Leads(s, t, {})
<1> DEFINE pk == s.picker
           qk == t.picker
<1>0. /\ Counted(pk) /\ pk.num_peers \in [Blocks -> Nat] /\ pk.state \in [Blocks -> BlockStates]
  BY DEF Ready, Counted, Pickers
<1>1. /\ Moves(pk, qk)
      /\ \A c \in Blocks : pk.state[c] = "none" =>
           qk.state[c] = "none" /\ qk.num_peers[c] \in {pk.num_peers[c], 0}
      /\ \A c \in Blocks : pk.state[c] = "requested" /\ GivingUp(X, c) = {} =>
           qk.state[c] = "requested" /\ qk.num_peers[c] = pk.num_peers[c]
      /\ \A c \in Blocks : pk.state[c] = "requested" /\ GivingUp(X, c) # {} =>
           LET left == pk.num_peers[c] - Cardinality(GivingUp(X, c)) IN
           IF left <= 0 THEN qk.state[c] = "none" /\ qk.num_peers[c] = 0
                        ELSE qk.state[c] = "requested" /\ qk.num_peers[c] = left
  BY <1>0, AbortMoves
<1> HIDE DEF pk, qk
<1>2. ASSUME Numbered(s), ~pk.have, NEW c \in Blocks, ~Arrived(qk, c)
      PROVE  /\ qk.num_peers[c] = Cardinality(Asking(t, Peers, c))
             /\ qk.state[c] = "requested" <=> Asking(t, Peers, c) # {}
  <2> DEFINE A == Asking(s, Peers, c)
             G == GivingUp(X, c)
             B == Asking(t, Peers, c)
  <2>1. ~Arrived(pk, c)
    BY <1>1, <1>2 DEF Moves, Arrived
  <2>2. pk.num_peers[c] = Cardinality(A) /\ (pk.state[c] = "requested" <=> A # {})
    BY <1>2, <2>1 DEF Numbered, pk
  <2>3. /\ G \subseteq A /\ B = A \ G
        /\ A \in SUBSET Peers /\ G \in SUBSET Peers /\ B \in SUBSET Peers
    BY DEF Gives, GivingUp, Asking
  <2>4. /\ IsFiniteSet(A) /\ IsFiniteSet(G) /\ IsFiniteSet(B)
        /\ Cardinality(A) \in Nat /\ Cardinality(G) \in Nat /\ Cardinality(B) \in Nat
    <3> HIDE DEF A, B, G
    <3> QED BY <2>3, Finite
  <2>5. Cardinality(A) = Cardinality(B) + Cardinality(G)
    <3> HIDE DEF A, B, G
    <3>1. A = B \cup G /\ B \cap G = {}
      BY <2>3
    <3>2. Cardinality(A) = Cardinality(B) + Cardinality(G) - Cardinality({})
      BY <2>4, <3>1, FS_Union
    <3> QED BY <2>4, <3>2, FS_EmptySet
  <2>6. Cardinality(B) = 0 <=> B = {}
    <3> HIDE DEF B
    <3> QED BY <2>4, FS_EmptySet
  <2>7. pk.state[c] \in {"none", "requested"}
    BY <1>0, <2>1 DEF pk, Arrived, BlockStates
  <2> HIDE DEF A, B, G
  <2>8. CASE pk.state[c] = "none"
    <3>1. A = {} /\ B = {}
      BY <2>2, <2>3, <2>8
    <3>2. pk.num_peers[c] = 0
      BY <2>2, <2>4, <2>5, <2>6, <2>3, <3>1, FS_EmptySet
    <3>3. qk.num_peers[c] = Cardinality(B) /\ (qk.state[c] = "requested" <=> B # {})
      BY <1>1, <2>6, <2>8, <3>1, <3>2
    <3> QED BY <3>3 DEF B
  <2>9. CASE pk.state[c] = "requested" /\ G = {}
    <3>1. B = A
      BY <2>3, <2>9
    <3>2. qk.num_peers[c] = Cardinality(B) /\ (qk.state[c] = "requested" <=> B # {})
      BY <1>1, <2>2, <2>9, <3>1 DEF G
    <3> QED BY <3>2 DEF B
  <2>10. CASE pk.state[c] = "requested" /\ G # {}
    <3>1. pk.num_peers[c] - Cardinality(G) = Cardinality(B)
      BY <2>2, <2>4, <2>5
    <3>2. IF Cardinality(B) <= 0 THEN qk.state[c] = "none" /\ qk.num_peers[c] = 0
                                 ELSE qk.state[c] = "requested" /\ qk.num_peers[c] = Cardinality(B)
      BY <1>1, <2>10, <3>1 DEF G
    <3>3. qk.num_peers[c] = Cardinality(B) /\ (qk.state[c] = "requested" <=> B # {})
      BY <2>4, <2>6, <3>2
    <3> QED BY <3>3 DEF B
  <2> QED BY <2>7, <2>8, <2>9, <2>10
<1>3. Numbered(s) => Numbered(t)
  <2>1. qk.have = pk.have
    BY <1>1 DEF Moves
  <2> QED BY <1>2, <2>1 DEF Numbered, pk, qk
<1>4. \A p \in Peers : Asked(s, p) = {} => Asked(t, p) = {}
  <2>1. \A p \in Peers : Asked(t, p) \subseteq Blocks
    BY DEF Asked, Handlers
  <2> QED BY <2>1 DEF Gives
<1> QED BY <1>1, <1>3, <1>4 DEF Leads, pk, qk

\* A handler that asks for the same blocks and leaves the picker alone.
LEMMA LeadsSame ==
    ASSUME NEW s, NEW t \in Handlers, Ready(s), OnceIn(t), t.picker = s.picker,
           \A p \in Peers : Asked(t, p) = Asked(s, p)
    PROVE  Leads(s, t, {})
<1>1. \A b \in Blocks : Asking(t, Peers, b) = Asking(s, Peers, b)
  BY DEF Asking
<1>2. Moves(s.picker, t.picker)
  BY DEF Moves, Ready
<1>3. Numbered(s) => Numbered(t)
  BY <1>1 DEF Numbered
<1> QED BY <1>2, <1>3 DEF Leads

\* The parts of what a handler works on.
LEMMA Parts ==
    ASSUME NEW s \in Handlers
    PROVE  /\ s.picker \in Pickers /\ s.rq \in [Peers -> SUBSET Blocks]
           /\ s.dq \in [Peers -> [Blocks -> Marks]] /\ s.cancelled \in SUBSET (Peers \X Blocks)
           /\ \A pk \in Pickers : LET t == [s EXCEPT !.picker = pk] IN
                /\ t \in Handlers /\ t.picker = pk
                /\ t.rq = s.rq /\ t.dq = s.dq /\ t.cancelled = s.cancelled
           /\ \A q \in [Peers -> SUBSET Blocks] : LET t == [s EXCEPT !.rq = q] IN
                /\ t \in Handlers /\ t.rq = q
                /\ t.picker = s.picker /\ t.dq = s.dq /\ t.cancelled = s.cancelled
           /\ \A q \in [Peers -> [Blocks -> Marks]] : LET t == [s EXCEPT !.dq = q] IN
                /\ t \in Handlers /\ t.dq = q
                /\ t.picker = s.picker /\ t.rq = s.rq /\ t.cancelled = s.cancelled
BY DEF Handlers

\* What it means to leave a request queue.
LEMMA UnqueuedParts ==
    ASSUME NEW s \in Handlers, NEW X \in SUBSET (Peers \X Blocks)
    PROVE  LET t == Unqueued(s, X) IN
           /\ t \in Handlers
           /\ t.picker = s.picker /\ t.dq = s.dq /\ t.cancelled = s.cancelled
           /\ \A p \in Peers, b \in Blocks : b \in t.rq[p] <=> b \in s.rq[p] /\ <<p, b>> \notin X
<1> DEFINE r == [p \in Peers |-> {b \in s.rq[p] : <<p, b>> \notin X}]
<1>1. r \in [Peers -> SUBSET Blocks]
  BY Parts
<1>2. \A p \in Peers, b \in Blocks : b \in r[p] <=> b \in s.rq[p] /\ <<p, b>> \notin X
  OBVIOUS
<1>3. Unqueued(s, X) = [s EXCEPT !.rq = r]
  BY DEF Unqueued
<1> HIDE DEF r
<1> QED BY <1>1, <1>2, <1>3, Parts

\* What it means to leave a download queue.
LEMMA DequeuedParts ==
    ASSUME NEW s \in Handlers, NEW X \in SUBSET (Peers \X Blocks)
    PROVE  LET t == Dequeued(s, X) IN
           /\ t \in Handlers /\ t.picker = s.picker /\ t.rq = s.rq
           /\ \A p \in Peers, b \in Blocks :
                t.dq[p][b] = IF <<p, b>> \in X THEN "no" ELSE s.dq[p][b]
           /\ Live(s, X) \in SUBSET (Peers \X Blocks)
           /\ \A p \in Peers, b \in Blocks :
                <<p, b>> \in Live(s, X) <=> <<p, b>> \in X /\ s.dq[p][b] = "live"
<1> DEFINE d == [p \in Peers |-> [b \in Blocks |-> IF <<p, b>> \in X THEN "no" ELSE s.dq[p][b]]]
<1>1. d \in [Peers -> [Blocks -> Marks]]
  BY Parts DEF Marks
<1>2. \A p \in Peers, b \in Blocks : d[p][b] = IF <<p, b>> \in X THEN "no" ELSE s.dq[p][b]
  OBVIOUS
<1>3. Dequeued(s, X) = [s EXCEPT !.dq = d, !.cancelled = s.cancelled \ X]
  BY DEF Dequeued
<1> HIDE DEF d
<1>4. /\ Dequeued(s, X) \in Handlers /\ Dequeued(s, X).picker = s.picker
      /\ Dequeued(s, X).rq = s.rq /\ Dequeued(s, X).dq = d
  BY <1>1, <1>3 DEF Handlers
<1>5. Live(s, X) \in SUBSET (Peers \X Blocks)
  BY DEF Live
<1>6. \A p \in Peers, b \in Blocks :
         <<p, b>> \in Live(s, X) <=> <<p, b>> \in X /\ s.dq[p][b] = "live"
  BY DEF Live
<1> QED BY <1>2, <1>4, <1>5, <1>6

\* Requests that were not sent are withdrawn.
LEMMA UnqueuedLeads ==
    ASSUME NEW s, Ready(s), NEW X \in SUBSET (Peers \X Blocks),
           \A p \in Peers, b \in Blocks : <<p, b>> \in X => b \in s.rq[p]
    PROVE  LET t == [Unqueued(s, X) EXCEPT !.picker = Abort(@, X)] IN
           /\ Leads(s, t, {})
           /\ t.picker = Abort(s.picker, X) /\ t.dq = s.dq /\ t.cancelled = s.cancelled
           /\ \A p \in Peers, b \in Blocks : b \in t.rq[p] <=> b \in s.rq[p] /\ <<p, b>> \notin X
<1> DEFINE u == Unqueued(s, X)
           t == [u EXCEPT !.picker = Abort(u.picker, X)]
<1>1. /\ u \in Handlers /\ u.picker = s.picker /\ u.dq = s.dq /\ u.cancelled = s.cancelled
      /\ \A p \in Peers, b \in Blocks : b \in u.rq[p] <=> b \in s.rq[p] /\ <<p, b>> \notin X
  BY UnqueuedParts DEF Ready
<1>2. Abort(s.picker, X) \in Pickers
  BY AbortMoves DEF Ready, Moves, Counted
<1> HIDE DEF u
<1>3. /\ t \in Handlers /\ t.picker = Abort(s.picker, X) /\ t.rq = u.rq
      /\ t.dq = s.dq /\ t.cancelled = s.cancelled
  BY <1>1, <1>2, Parts
<1> HIDE DEF t
<1>4. OnceIn(t)
  BY <1>1, <1>3 DEF OnceIn, Ready
<1>5. Gives(s, t, X)
  BY <1>1, <1>3 DEF Gives, Asked, Ready, OnceIn
<1>6. Leads(s, t, {})
  BY <1>3, <1>4, <1>5, GivesLeads
<1> USE DEF t
<1> QED BY <1>1, <1>3, <1>6 DEF u

\* cancel_all_requests, clear_request_queue: nothing unsent is left of S.
LEMMA WithdrawnLeads ==
    ASSUME NEW s, Ready(s), NEW S \in SUBSET Peers
    PROVE  LET t == Withdrawn(s, S) IN
           /\ Leads(s, t, {})
           /\ t.dq = s.dq /\ t.cancelled = s.cancelled
           /\ \A p \in Peers : t.rq[p] = IF p \in S THEN {} ELSE s.rq[p]
<1> DEFINE X == {x \in S \X Blocks : x[2] \in s.rq[x[1]]}
           t == Withdrawn(s, S)
<1>1. X \in SUBSET (Peers \X Blocks)
  OBVIOUS
<1>2. \A p \in Peers, b \in Blocks : <<p, b>> \in X <=> p \in S /\ b \in s.rq[p]
  OBVIOUS
<1>3. t = [Unqueued(s, X) EXCEPT !.picker = Abort(@, X)]
  BY DEF Withdrawn
<1> HIDE DEF X, t
<1>4. /\ Leads(s, t, {}) /\ t.dq = s.dq /\ t.cancelled = s.cancelled
      /\ \A p \in Peers, b \in Blocks : b \in t.rq[p] <=> b \in s.rq[p] /\ <<p, b>> \notin X
  BY <1>1, <1>2, <1>3, UnqueuedLeads
<1>5. \A p \in Peers : t.rq[p] \in SUBSET Blocks /\ s.rq[p] \in SUBSET Blocks
  BY <1>4, Parts DEF Leads, Ready
<1>6. ASSUME NEW p \in Peers
      PROVE  t.rq[p] = IF p \in S THEN {} ELSE s.rq[p]
  BY <1>2, <1>4, <1>5
<1> USE DEF t
<1> QED BY <1>4, <1>6

\* Entries leave the download queues, and the live ones are aborted.
LEMMA DroppedLeads ==
    ASSUME NEW s, Ready(s), NEW X \in SUBSET (Peers \X Blocks)
    PROVE  LET t == [Dequeued(s, X) EXCEPT !.picker = Abort(@, Live(s, X))] IN
           /\ Leads(s, t, {})
           /\ t.rq = s.rq
           /\ \A p \in Peers, b \in Blocks :
                t.dq[p][b] = IF <<p, b>> \in X THEN "no" ELSE s.dq[p][b]
<1> DEFINE u == Dequeued(s, X)
           L == Live(s, X)
           t == [u EXCEPT !.picker = Abort(u.picker, L)]
<1>1. /\ u \in Handlers /\ u.picker = s.picker /\ u.rq = s.rq
      /\ \A p \in Peers, b \in Blocks : u.dq[p][b] = IF <<p, b>> \in X THEN "no" ELSE s.dq[p][b]
      /\ L \in SUBSET (Peers \X Blocks)
      /\ \A p \in Peers, b \in Blocks : <<p, b>> \in L <=> <<p, b>> \in X /\ s.dq[p][b] = "live"
  BY DequeuedParts DEF Ready
<1>2. Abort(s.picker, L) \in Pickers
  BY <1>1, AbortMoves DEF Ready, Moves, Counted
<1> HIDE DEF u, L
<1>3. t \in Handlers /\ t.picker = Abort(s.picker, L) /\ t.rq = s.rq /\ t.dq = u.dq
  BY <1>1, <1>2, Parts
<1> HIDE DEF t
<1>4. \A p \in Peers, b \in Blocks : t.dq[p][b] = IF <<p, b>> \in X THEN "no" ELSE s.dq[p][b]
  <2>1. t.dq = u.dq
    BY <1>3
  <2>2. \A p \in Peers, b \in Blocks : u.dq[p][b] = IF <<p, b>> \in X THEN "no" ELSE s.dq[p][b]
    BY <1>1
  <2> QED BY <2>1, <2>2, Zenon
<1>5. \A p \in Peers, b \in Blocks : ~(b \in s.rq[p] /\ s.dq[p][b] # "no")
  BY DEF Ready, OnceIn
<1>7. OnceIn(t)
  BY <1>3, <1>4, <1>5 DEF OnceIn
<1>8. ASSUME NEW p \in Peers, NEW b \in Blocks
      PROVE  /\ <<p, b>> \in L => b \in Asked(s, p)
             /\ b \in Asked(t, p) <=> b \in Asked(s, p) /\ <<p, b>> \notin L
  <2>1. b \in Asked(s, p) <=> b \in s.rq[p] \/ s.dq[p][b] = "live"
    BY DEF Asked
  <2>2. b \in Asked(t, p) <=> b \in s.rq[p] \/ t.dq[p][b] = "live"
    BY <1>3 DEF Asked
  <2> QED BY <1>1, <1>4, <1>5, <2>1, <2>2
<1>9. Gives(s, t, L)
  BY <1>8 DEF Gives
<1>6. Leads(s, t, {})
  BY <1>1, <1>3, <1>7, <1>9, GivesLeads
<1> USE DEF t
<1> QED BY <1>3, <1>4, <1>6 DEF u, L

\* disconnect: the peers C have nothing in their queues.
LEMMA DisconnectedLeads ==
    ASSUME NEW s, Ready(s), NEW C \in SUBSET Peers
    PROVE  LET t == Disconnected(s, C) IN
           /\ Leads(s, t, {})
           /\ \A p \in C : Asked(t, p) = {}
           /\ \A p \in Peers \ C : Asked(t, p) = Asked(s, p)
<1> DEFINE u == Withdrawn(s, C)
           X == C \X Blocks
           t == Disconnected(s, C)
<1>1. /\ Leads(s, u, {}) /\ u.dq = s.dq
      /\ \A p \in Peers : u.rq[p] = IF p \in C THEN {} ELSE s.rq[p]
  BY WithdrawnLeads
<1>2. Ready(u)
  BY <1>1, LeadsChain
<1>3. t = [Dequeued(u, X) EXCEPT !.picker = Abort(@, Live(u, X))]
  BY DEF Disconnected
<1>4. X \in SUBSET (Peers \X Blocks)
  OBVIOUS
<1> HIDE DEF u, t
<1>5. /\ Leads(u, t, {}) /\ t.rq = u.rq
      /\ \A p \in Peers, b \in Blocks : t.dq[p][b] = IF <<p, b>> \in X THEN "no" ELSE u.dq[p][b]
  <2> HIDE DEF X
  <2> QED BY <1>2, <1>3, <1>4, DroppedLeads
<1>6. Leads(s, t, {})
  <2>1. Leads(s, t, {} \cup {})
    BY <1>1, <1>5, LeadsChain
  <2> QED BY <2>1
<1>7. ASSUME NEW p \in C
      PROVE  Asked(t, p) = {}
  <2>1. p \in Peers /\ t.rq[p] = {} /\ \A b \in Blocks : t.dq[p][b] = "no"
    BY <1>1, <1>5
  <2> QED BY <2>1 DEF Asked
<1>8. ASSUME NEW p \in Peers \ C
      PROVE  Asked(t, p) = Asked(s, p)
  <2>1. t.rq[p] = s.rq[p] /\ \A b \in Blocks : t.dq[p][b] = s.dq[p][b]
    BY <1>1, <1>5
  <2> QED BY <2>1 DEF Asked
<1> USE DEF t
<1> QED BY <1>6, <1>7, <1>8

\* incoming_reject_request: on parole the request goes back to the request queue.
LEMMA RejectedLeads ==
    ASSUME NEW s, Ready(s), NEW X \in SUBSET (Peers \X Blocks), NEW P
    PROVE  Leads(s, Rejected(s, X, P), {})
<1> DEFINE L == Live(s, X)
           K == {x \in L : x[1] \in P}
           u == Dequeued(s, X)
           r == [p \in Peers |-> s.rq[p] \cup {b \in Blocks : <<p, b>> \in K}]
           t == Rejected(s, X, P)
<1>1. /\ u \in Handlers /\ u.picker = s.picker /\ u.rq = s.rq
      /\ \A p \in Peers, b \in Blocks : u.dq[p][b] = IF <<p, b>> \in X THEN "no" ELSE s.dq[p][b]
      /\ L \in SUBSET (Peers \X Blocks)
      /\ \A p \in Peers, b \in Blocks : <<p, b>> \in L <=> <<p, b>> \in X /\ s.dq[p][b] = "live"
  BY DequeuedParts DEF Ready
<1> HIDE DEF L, u
<1>2. K \in SUBSET L
  OBVIOUS
<1> HIDE DEF K
<1>3. L \ K \in SUBSET (Peers \X Blocks)
  BY <1>1
<1>4. Abort(s.picker, L \ K) \in Pickers
  BY <1>3, AbortMoves DEF Ready, Moves, Counted
<1>5. r \in [Peers -> SUBSET Blocks] /\ \A p \in Peers, b \in Blocks : b \in r[p] <=> b \in s.rq[p] \/ <<p, b>> \in K
  BY Parts DEF Ready
<1>6. t = [u EXCEPT !.picker = Abort(s.picker, L \ K), !.rq = r]
  <2>1. t = [u EXCEPT !.picker = Abort(u.picker, L \ K),
                      !.rq = [p \in Peers |-> u.rq[p] \cup {b \in Blocks : <<p, b>> \in K}]]
    BY DEF Rejected, L, K, u
  <2> QED BY <1>1, <2>1
<1> HIDE DEF r, t
<1>7. /\ t \in Handlers /\ t.picker = Abort(s.picker, L \ K) /\ t.rq = r /\ t.dq = u.dq
  <2> DEFINE v == [u EXCEPT !.picker = Abort(s.picker, L \ K)]
  <2>1. /\ v \in Handlers /\ v.picker = Abort(s.picker, L \ K) /\ v.dq = u.dq
    BY <1>1, <1>4, Parts
  <2>2. t = [v EXCEPT !.rq = r]
    BY <1>6
  <2> HIDE DEF v
  <2> QED BY <1>5, <2>1, <2>2, Parts
<1>8. \A p \in Peers, b \in Blocks : t.dq[p][b] = IF <<p, b>> \in X THEN "no" ELSE s.dq[p][b]
  <2>1. t.dq = u.dq
    BY <1>7
  <2>2. \A p \in Peers, b \in Blocks : u.dq[p][b] = IF <<p, b>> \in X THEN "no" ELSE s.dq[p][b]
    BY <1>1
  <2> QED BY <2>1, <2>2, Zenon
<1>9. \A p \in Peers, b \in Blocks : b \in t.rq[p] <=> b \in s.rq[p] \/ <<p, b>> \in K
  BY <1>5, <1>7
<1>10. \A p \in Peers, b \in Blocks : ~(b \in s.rq[p] /\ s.dq[p][b] # "no")
  BY DEF Ready, OnceIn
<1>11. ASSUME NEW p \in Peers, NEW b \in Blocks
       PROVE  /\ <<p, b>> \in L => <<p, b>> \in X /\ s.dq[p][b] = "live"
              /\ <<p, b>> \in K => <<p, b>> \in L
              /\ <<p, b>> \in X /\ s.dq[p][b] = "live" => <<p, b>> \in L
  BY <1>1, <1>2
<1>12. OnceIn(t)
  <2>1. ASSUME NEW p \in Peers, NEW b \in Blocks, b \in t.rq[p]
        PROVE  t.dq[p][b] = "no"
    <3>1. b \in s.rq[p] \/ <<p, b>> \in K
      BY <1>9, <2>1
    <3>2. t.dq[p][b] = IF <<p, b>> \in X THEN "no" ELSE s.dq[p][b]
      BY <1>8, Zenon
    <3>3. b \in s.rq[p] => s.dq[p][b] = "no"
      BY <1>10, Zenon
    <3>4. <<p, b>> \in K => <<p, b>> \in X
      BY <1>11, Zenon
    <3> QED BY <3>1, <3>2, <3>3, <3>4, Zenon
  <2> QED BY <2>1, Zenon DEF OnceIn
<1>13. ASSUME NEW p \in Peers, NEW b \in Blocks
       PROVE  /\ <<p, b>> \in L \ K => b \in Asked(s, p)
              /\ b \in Asked(t, p) <=> b \in Asked(s, p) /\ <<p, b>> \notin L \ K
  <2>1. b \in Asked(s, p) <=> b \in s.rq[p] \/ s.dq[p][b] = "live"
    BY DEF Asked
  <2>2. b \in Asked(t, p) <=> b \in t.rq[p] \/ t.dq[p][b] = "live"
    BY DEF Asked
  <2> QED BY <1>8, <1>9, <1>10, <1>11, <2>1, <2>2
<1>14. Gives(s, t, L \ K)
  BY <1>13 DEF Gives
<1> QED BY <1>3, <1>7, <1>12, <1>14, GivesLeads DEF t

\* write_cancel.
LEMMA CancelledLeads ==
    ASSUME NEW s, Ready(s), NEW X \in SUBSET (Peers \X Blocks), NEW P
    PROVE  Leads(s, Cancelled(s, X, P), {})
<1> DEFINE slow == {x \in X : x[1] \notin Fast}
           u == [s EXCEPT !.cancelled = s.cancelled \cup (X \ slow)]
           t == Cancelled(s, X, P)
<1>1. t = Rejected(u, slow, P)
  BY DEF Cancelled
<1>2. slow \in SUBSET (Peers \X Blocks) /\ X \ slow \in SUBSET (Peers \X Blocks)
  OBVIOUS
<1> HIDE DEF slow, t
<1>3. /\ u \in Handlers /\ u.picker = s.picker /\ u.rq = s.rq /\ u.dq = s.dq
  BY <1>2 DEF Ready, Handlers
<1> HIDE DEF u
<1>4. OnceIn(u) /\ \A p \in Peers : Asked(u, p) = Asked(s, p)
  BY <1>3 DEF Ready, OnceIn, Asked
<1>5. Leads(s, u, {})
  BY <1>3, <1>4, LeadsSame
<1>6. Ready(u)
  BY <1>5, LeadsChain
<1>7. Leads(u, t, {})
  BY <1>1, <1>2, <1>6, RejectedLeads
<1>8. Leads(s, t, {} \cup {})
  BY <1>5, <1>7, LeadsChain
<1> QED BY <1>8 DEF t

\* cancel_all_requests.
LEMMA CancelledAllLeads ==
    ASSUME NEW s, Ready(s), NEW C \in SUBSET Peers, NEW P
    PROVE  Leads(s, CancelledAll(s, C, P), {})
<1> DEFINE u == Withdrawn(s, C)
           X == {x \in C \X Blocks : u.dq[x[1]][x[2]] # "no" /\ receiving[x[1]] # x[2]}
           t == CancelledAll(s, C, P)
<1>1. Leads(s, u, {})
  BY WithdrawnLeads
<1>2. Ready(u)
  BY <1>1, LeadsChain
<1>3. t = Cancelled(u, X, P)
  BY DEF CancelledAll
<1>4. X \in SUBSET (Peers \X Blocks)
  OBVIOUS
<1> HIDE DEF u, X, t
<1>5. Leads(u, t, {})
  BY <1>2, <1>3, <1>4, CancelledLeads
<1>6. Leads(s, t, {} \cup {})
  BY <1>1, <1>5, LeadsChain
<1> QED BY <1>6 DEF t

\* cancel_block.
LEMMA CancelledBlockLeads ==
    ASSUME NEW s, Ready(s), conn \subseteq Peers, NEW b \in Blocks
    PROVE  Leads(s, CancelledBlock(s, b), {})
<1> DEFINE unsent == {p \in conn : s.dq[p][b] = "no" /\ b \in s.rq[p]} \X {b}
           sent == {p \in conn : s.dq[p][b] # "no"} \X {b}
           u == [Unqueued(s, unsent) EXCEPT !.picker = Abort(@, unsent)]
           t == CancelledBlock(s, b)
<1>1. t = IF ~IsRequested(s.picker, b) THEN s ELSE Cancelled(u, sent, parole)
  BY DEF CancelledBlock
<1>2. /\ unsent \in SUBSET (Peers \X Blocks) /\ sent \in SUBSET (Peers \X Blocks)
      /\ \A p \in Peers, c \in Blocks : <<p, c>> \in unsent => c \in s.rq[p]
  OBVIOUS
<1>3. Leads(s, u, {})
  <2> HIDE DEF unsent
  <2> QED BY <1>2, UnqueuedLeads
<1> HIDE DEF unsent, sent, u, t
<1>4. Ready(u)
  BY <1>3, LeadsChain
<1>5. Leads(u, Cancelled(u, sent, parole), {})
  BY <1>2, <1>4, CancelledLeads
<1>6. Leads(s, Cancelled(u, sent, parole), {} \cup {})
  BY <1>3, <1>5, LeadsChain
<1>7. Leads(s, s, {})
  BY LeadsNowhere
<1>8. Leads(s, t, {})
  BY <1>1, <1>6, <1>7
<1> QED BY <1>8 DEF t

\* add_request, for a block nobody has delivered and p has in neither queue.
LEMMA RequestedLeads ==
    ASSUME NEW s, Ready(s), NEW p \in Peers, NEW b \in Blocks,
           ~s.picker.have, ~Arrived(s.picker, b), b \notin s.rq[p], s.dq[p][b] = "no"
    PROVE  Leads(s, Requested(s, p, b), {p})
<1> DEFINE pk == s.picker
           qk == MarkDownloading(pk, b, p)
           r == [s.rq EXCEPT ![p] = @ \cup {b}]
           t == Requested(s, p, b)
<1>0. /\ Counted(pk) /\ pk.num_peers \in [Blocks -> Nat] /\ s.rq \in [Peers -> SUBSET Blocks]
  BY Parts DEF Ready, Counted, Pickers
<1>1. /\ Moves(pk, qk)
      /\ \A c \in Blocks : ~Arrived(pk, c) =>
           /\ qk.state[c] = IF c = b THEN "requested" ELSE pk.state[c]
           /\ pk.downloading =>
                qk.num_peers[c] = IF c = b THEN pk.num_peers[c] + 1 ELSE pk.num_peers[c]
           /\ ~pk.downloading => qk.num_peers[c] = IF c = b THEN 1 ELSE 0
  BY <1>0, MarkDownloadingMoves
<1>2. r \in [Peers -> SUBSET Blocks]
      /\ \A q \in Peers, c \in Blocks : c \in r[q] <=> c \in s.rq[q] \/ (q = p /\ c = b)
  BY <1>0
<1>3. t = [s EXCEPT !.picker = qk, !.rq = r]
  BY DEF Requested, Ready, Handlers
<1> HIDE DEF pk, qk, r, t
<1>4. t \in Handlers /\ t.picker = qk /\ t.rq = r /\ t.dq = s.dq
  <2>1. qk \in Pickers
    BY <1>1 DEF Moves, Counted
  <2> DEFINE v == [s EXCEPT !.picker = qk]
  <2>2. v \in Handlers /\ v.picker = qk /\ v.dq = s.dq
    BY <2>1, Parts DEF Ready
  <2>3. t = [v EXCEPT !.rq = r]
    BY <1>3
  <2> HIDE DEF v
  <2> QED BY <1>2, <2>2, <2>3, Parts
<1>5. OnceIn(t)
  BY <1>2, <1>4 DEF OnceIn, Ready
<1>6. ASSUME NEW q \in Peers, NEW c \in Blocks
      PROVE  c \in Asked(t, q) <=> c \in Asked(s, q) \/ (q = p /\ c = b)
  <2>1. c \in Asked(s, q) <=> c \in s.rq[q] \/ s.dq[q][c] = "live"
    BY DEF Asked
  <2>2. c \in Asked(t, q) <=> c \in t.rq[q] \/ t.dq[q][c] = "live"
    BY DEF Asked
  <2> QED BY <1>2, <1>4, <2>1, <2>2
<1>7. b \notin Asked(s, p)
  BY DEF Asked
<1>8. ASSUME Numbered(s), ~qk.have, NEW c \in Blocks, ~Arrived(qk, c)
      PROVE  /\ qk.num_peers[c] = Cardinality(Asking(t, Peers, c))
             /\ qk.state[c] = "requested" <=> Asking(t, Peers, c) # {}
  <2> DEFINE A == Asking(s, Peers, c)
             B == Asking(t, Peers, c)
  <2>1. ~Arrived(pk, c) /\ ~pk.have
    BY <1>1, <1>8 DEF Moves, Arrived
  <2>2. pk.num_peers[c] = Cardinality(A) /\ (pk.state[c] = "requested" <=> A # {})
    BY <1>8, <2>1 DEF Numbered, pk
  <2>3. /\ A \in SUBSET Peers /\ B \in SUBSET Peers
        /\ c # b => B = A
        /\ c = b => B = A \cup {p} /\ p \notin A
    BY <1>6, <1>7 DEF Asking
  <2> HIDE DEF A, B
  <2>4. IsFiniteSet(A) /\ Cardinality(A) \in Nat
    BY <2>3, Finite
  <2>5. ~pk.downloading => A = {} /\ Cardinality(A) = 0
    <3>1. ~pk.downloading => pk.state[c] = "none"
      BY <1>0 DEF Counted
    <3> QED BY <2>2, <3>1, FS_EmptySet
  <2>6. CASE c # b
    <3>1. qk.num_peers[c] = Cardinality(B) /\ (qk.state[c] = "requested" <=> B # {})
      BY <1>1, <2>1, <2>2, <2>3, <2>5, <2>6
    <3> QED BY <3>1 DEF B
  <2>7. CASE c = b
    <3>1. Cardinality(B) = Cardinality(A) + 1 /\ B # {}
      BY <2>3, <2>4, <2>7, FS_AddElement
    <3>2. qk.num_peers[c] = Cardinality(B) /\ (qk.state[c] = "requested" <=> B # {})
      BY <1>1, <2>1, <2>2, <2>4, <2>5, <2>7, <3>1
    <3> QED BY <3>2 DEF B
  <2> QED BY <2>6, <2>7
<1>9. Numbered(s) => Numbered(t)
  BY <1>4, <1>8 DEF Numbered
<1>10. \A q \in Peers \ {p} : Asked(s, q) = {} => Asked(t, q) = {}
  <2>1. \A q \in Peers : Asked(t, q) \subseteq Blocks
    BY <1>4, Parts DEF Asked
  <2> QED BY <1>6, <2>1
<1>11. Leads(s, t, {p})
  BY <1>1, <1>4, <1>5, <1>9, <1>10 DEF Leads, pk
<1> QED BY <1>11 DEF t

\* restore_piece: every block still asked for by C is requested, and nothing has arrived.
LEMMA RestoredReady ==
    ASSUME NEW s, Ready(s), ~s.picker.have, NEW C \in SUBSET Peers, NEW last \in Downloaders(s, C)
    PROVE  LET t == Restored(s, C, last) IN
           /\ Ready(t) /\ Exact(t.picker) /\ ~t.picker.have
           /\ t.rq = s.rq /\ t.dq = s.dq
           /\ \A b \in Blocks : ~Arrived(t.picker, b)
           /\ (\A p \in Peers \ C : Asked(s, p) = {}) => Numbered(t)
<1> DEFINE clean == Erased(s.picker)
           again == {b \in Blocks : Asking(s, C, b) # {}}
           st == [b \in Blocks |-> IF b \in again THEN "requested" ELSE "none"]
           np == [b \in Blocks |-> Cardinality(Asking(s, C, b))]
           m == [clean EXCEPT !.downloading = TRUE, !.state = st, !.num_peers = np,
                              !.peer = last, !.requested = Cardinality(again)]
           pk == IF again = {} THEN clean ELSE UpdateFull(m)
           t == Restored(s, C, last)
<1>1. t = [s EXCEPT !.picker = pk]
  BY DEF Restored
<1>2. /\ Counted(clean) /\ clean \in Pickers /\ Exact(clean) /\ clean.have = FALSE
      /\ clean.requested = 0 /\ clean.writing = 0 /\ clean.finished = 0
      /\ clean.state = [b \in Blocks |-> "none"] /\ clean.num_peers = [b \in Blocks |-> 0]
  <2>1. s.picker \in Pickers
    BY DEF Ready, Counted
  <2>2. /\ Counted(clean) /\ Exact(clean) /\ clean.have = s.picker.have
        /\ clean.requested = 0 /\ clean.writing = 0 /\ clean.finished = 0
        /\ clean.state = [b \in Blocks |-> "none"] /\ clean.num_peers = [b \in Blocks |-> 0]
    BY <2>1, ErasedCounted
  <2>3. clean \in Pickers
    BY <2>2 DEF Counted
  <2> HIDE DEF clean
  <2>4. clean.have = FALSE
    BY <2>2, <2>3 DEF Pickers
  <2> QED BY <2>2, <2>3, <2>4
<1>3. ASSUME NEW b \in Blocks
      PROVE  /\ Asking(s, C, b) \in SUBSET Peers
             /\ Cardinality(Asking(s, C, b)) \in Nat
             /\ Cardinality(Asking(s, C, b)) = 0 <=> Asking(s, C, b) = {}
  <2>1. Asking(s, C, b) \in SUBSET Peers
    BY DEF Asking
  <2>2. IsFiniteSet(Asking(s, C, b)) /\ Cardinality(Asking(s, C, b)) \in Nat
    BY <2>1, Finite
  <2> QED BY <2>1, <2>2, FS_EmptySet
<1>4. st \in [Blocks -> BlockStates] /\ np \in [Blocks -> Nat]
  BY <1>3 DEF BlockStates
<1>5. /\ Cardinality(again) \in Nat /\ Count(st, "requested") = Cardinality(again)
      /\ Count(st, "writing") = 0 /\ Count(st, "finished") = 0
  <2>1. again \in SUBSET Blocks
    OBVIOUS
  <2>2. {b \in Blocks : st[b] = "requested"} = again
    BY <2>1
  <2>3. {b \in Blocks : st[b] = "writing"} = {} /\ {b \in Blocks : st[b] = "finished"} = {}
    OBVIOUS
  <2> HIDE DEF again, st
  <2>4. Cardinality(again) \in Nat
    BY <2>1, Finite
  <2>5. Count(st, "requested") = Cardinality(again)
    BY <2>2, Zenon DEF Count
  <2>6. Count(st, "writing") = Cardinality({}) /\ Count(st, "finished") = Cardinality({})
    BY <2>3, Zenon DEF Count
  <2> QED BY <2>4, <2>5, <2>6, FS_EmptySet
<1>6. last \in [Blocks -> Peers \cup {NoPeer}]
  BY DEF Downloaders
<1>7. \A b \in Blocks : /\ st[b] = IF Asking(s, C, b) # {} THEN "requested" ELSE "none"
                        /\ np[b] = Cardinality(Asking(s, C, b))
  OBVIOUS
<1>8. again = {} => \A b \in Blocks : Asking(s, C, b) = {}
  OBVIOUS
<1> HIDE DEF clean, again, st, np
<1>9. /\ m \in Pickers /\ m.have = FALSE /\ m.downloading = TRUE
      /\ m.state = st /\ m.num_peers = np
      /\ m.requested = Cardinality(again) /\ m.writing = 0 /\ m.finished = 0
  BY <1>2, <1>4, <1>5, <1>6 DEF Pickers
<1> HIDE DEF m
<1>10. Counted(m) /\ m.requested = Count(m.state, "requested")
  BY <1>5, <1>9 DEF Counted
<1>11. /\ Counted(pk) /\ Exact(pk) /\ ~pk.have /\ pk \in Pickers
       /\ \A b \in Blocks : /\ pk.state[b] = IF Asking(s, C, b) # {} THEN "requested" ELSE "none"
                            /\ pk.num_peers[b] = Cardinality(Asking(s, C, b))
  <2>1. CASE again = {}
    <3>1. \A b \in Blocks : clean.state[b] = "none" /\ clean.num_peers[b] = 0
      BY <1>2
    <3>2. \A b \in Blocks : Asking(s, C, b) = {} /\ Cardinality(Asking(s, C, b)) = 0
      BY <1>3, <1>8, <2>1
    <3> QED BY <1>2, <2>1, <3>1, <3>2
  <2>2. CASE again # {}
    <3> DEFINE u == UpdateFull(m)
    <3>1. /\ Counted(u) /\ Exact(u) /\ u.have = FALSE
          /\ u.state = st /\ u.num_peers = np
      BY <1>9, <1>10, FullUpdated
    <3>2. pk = u
      BY <2>2
    <3> HIDE DEF u, pk
    <3>3. u \in Pickers
      BY <3>1 DEF Counted
    <3> QED BY <1>7, <3>1, <3>2, <3>3
  <2> QED BY <2>1, <2>2
<1> HIDE DEF pk, t
<1>12. t \in Handlers /\ t.picker = pk /\ t.rq = s.rq /\ t.dq = s.dq
  BY <1>1, <1>11, Parts DEF Ready
<1>13. Ready(t)
  BY <1>11, <1>12 DEF Ready, OnceIn
<1>14. \A b \in Blocks : ~Arrived(pk, b)
  BY <1>11 DEF Arrived
<1>15. ASSUME \A p \in Peers \ C : Asked(s, p) = {}
       PROVE  Numbered(t)
  <2>1. \A p \in Peers : Asked(t, p) = Asked(s, p)
    BY <1>12 DEF Asked
  <2>2. \A b \in Blocks : Asking(t, Peers, b) = Asking(s, C, b)
    BY <1>15, <2>1 DEF Asking
  <2> QED BY <1>11, <1>12, <2>2 DEF Numbered
<1>16. /\ Ready(t) /\ Exact(t.picker) /\ ~t.picker.have /\ t.rq = s.rq /\ t.dq = s.dq
       /\ \A b \in Blocks : ~Arrived(t.picker, b)
  BY <1>11, <1>12, <1>13, <1>14
<1> QED BY <1>15, <1>16 DEF t

\* What incoming_piece makes of a block that had not arrived.
Taken(s, p, b) == [Dequeued(s, {<<p, b>>}) EXCEPT !.picker = MarkWriting(@, b, p)]

\* The block is entered in the picker and its entry in the queue goes.
LEMMA TakenReady ==
    ASSUME NEW s, Ready(s), NEW p \in Peers, NEW b \in Blocks,
           ~s.picker.have, ~Arrived(s.picker, b)
    PROVE  LET t == Taken(s, p, b)
               pk == s.picker
               qk == t.picker
           IN  /\ Ready(t)
               /\ Exact(pk) => Exact(qk)
               /\ ~qk.have
               /\ Numbered(s) => Numbered(t)
               /\ \A c \in Blocks : qk.state[c] = IF c = b THEN "writing" ELSE pk.state[c]
               /\ \A c \in Blocks : Arrived(pk, c) => qk.peer[c] = pk.peer[c]
               /\ qk.peer[b] = p
               /\ \A q \in Peers : Asked(t, q) \subseteq Asked(s, q)
<1> DEFINE u == Dequeued(s, {<<p, b>>})
           pk == s.picker
           qk == MarkWriting(pk, b, p)
           t == Taken(s, p, b)
<1>1. /\ u \in Handlers /\ u.picker = s.picker /\ u.rq = s.rq
      /\ \A q \in Peers, c \in Blocks : u.dq[q][c] = IF q = p /\ c = b THEN "no" ELSE s.dq[q][c]
  <2> DEFINE X == {<<p, b>>}
  <2>1. X \in SUBSET (Peers \X Blocks)
    OBVIOUS
  <2>2. \A q \in Peers, c \in Blocks : <<q, c>> \in X <=> q = p /\ c = b
    OBVIOUS
  <2> HIDE DEF X
  <2>3. /\ Dequeued(s, X) \in Handlers /\ Dequeued(s, X).picker = s.picker
        /\ Dequeued(s, X).rq = s.rq
        /\ \A q \in Peers, c \in Blocks :
             Dequeued(s, X).dq[q][c] = IF <<q, c>> \in X THEN "no" ELSE s.dq[q][c]
    BY <2>1, DequeuedParts DEF Ready
  <2>4. u = Dequeued(s, X)
    BY DEF X
  <2> HIDE DEF u
  <2> QED BY <2>2, <2>3, <2>4
<1>2. Counted(pk) /\ ~pk.have /\ ~Arrived(pk, b)
  BY DEF Ready
<1> HIDE DEF pk
<1>3. /\ Counted(qk) /\ (Exact(pk) => Exact(qk)) /\ qk.have = pk.have
      /\ \A c \in Blocks : qk.state[c] = IF c = b THEN "writing" ELSE pk.state[c]
      /\ \A c \in Blocks : Arrived(pk, c) => qk.peer[c] = pk.peer[c]
      /\ qk.peer[b] = p
      /\ \A c \in Blocks \ {b} : qk.num_peers[c] = IF pk.downloading THEN pk.num_peers[c] ELSE 0
  BY <1>2, MarkWritingCounted
<1>4. t = [u EXCEPT !.picker = qk]
  BY <1>1 DEF Taken, pk
<1> HIDE DEF u, qk, t
<1>5. t \in Handlers /\ t.picker = qk /\ t.rq = s.rq /\ t.dq = u.dq
  BY <1>1, <1>3, <1>4, Parts DEF Counted
<1>6. \A q \in Peers, c \in Blocks : t.dq[q][c] = IF q = p /\ c = b THEN "no" ELSE s.dq[q][c]
  BY <1>1, <1>5
<1>7. OnceIn(t)
  BY <1>5, <1>6 DEF OnceIn, Ready
<1>8. Ready(t)
  BY <1>3, <1>5, <1>7 DEF Ready
<1>9. \A q \in Peers, c \in Blocks : c \in Asked(t, q) <=> c \in s.rq[q] \/ t.dq[q][c] = "live"
  <2>1. s.rq \in [Peers -> SUBSET Blocks]
    BY Parts DEF Ready
  <2> QED BY <1>5, <2>1 DEF Asked
<1>10. \A q \in Peers, c \in Blocks : c \in Asked(s, q) <=> c \in s.rq[q] \/ s.dq[q][c] = "live"
  BY DEF Asked
<1>11. \A q \in Peers : Asked(t, q) \subseteq Asked(s, q)
  <2>1. \A q \in Peers : Asked(t, q) \subseteq Blocks
    BY <1>5, Parts DEF Asked
  <2> QED BY <1>6, <1>9, <1>10, <2>1
<1>12. ASSUME Numbered(s), NEW c \in Blocks, ~Arrived(qk, c)
       PROVE  /\ qk.num_peers[c] = Cardinality(Asking(t, Peers, c))
              /\ qk.state[c] = "requested" <=> Asking(t, Peers, c) # {}
  <2>1. c # b
    BY <1>3, <1>12 DEF Arrived
  <2>2. qk.state[c] = pk.state[c] /\ ~Arrived(pk, c)
    BY <1>3, <1>12, <2>1 DEF Arrived
  <2>3. Asking(t, Peers, c) = Asking(s, Peers, c)
    BY <1>6, <1>9, <1>10, <2>1 DEF Asking
  <2>4. /\ pk.num_peers[c] = Cardinality(Asking(s, Peers, c))
        /\ pk.state[c] = "requested" <=> Asking(s, Peers, c) # {}
    BY <1>2, <1>12, <2>2 DEF Numbered, pk
  <2>5. ~pk.downloading => Cardinality(Asking(s, Peers, c)) = 0
    <3>1. ~pk.downloading => pk.state[c] = "none"
      BY <1>2 DEF Counted
    <3> QED BY <2>4, <3>1, FS_EmptySet
  <2> QED BY <1>3, <2>1, <2>2, <2>3, <2>4, <2>5
<1>13. Numbered(s) => Numbered(t)
  BY <1>5, <1>12 DEF Numbered
<1>14. ~qk.have
  BY <1>2, <1>3
<1> QED BY <1>3, <1>5, <1>8, <1>11, <1>13, <1>14 DEF t, pk

----------------------------------------------------------------------------
(* The handlers of the network thread                                      *)

\* What a handler works on is what it leaves behind.
LEMMA Lands ==
    /\ Here.picker = picker /\ Here.rq = rq /\ Here.dq = dq /\ Here.cancelled = cancelled
    /\ \A t \in Handlers : Becomes(t) => Here' = t
BY DEF Here, Becomes, Handlers

\* What the picker offers is free and in neither queue.
LEMMA OfferedFree ==
    ASSUME NEW s, Ready(s), NEW p \in Peers, NEW b \in Offered(s, p)
    PROVE  /\ b \in Blocks /\ ~s.picker.have /\ ~Arrived(s.picker, b)
           /\ b \notin s.rq[p] /\ s.dq[p][b] = "no"
BY DEF Offered, Free, Arrived

\* A block asked for is free, or has been asked of another peer before.
LEMMA RequestABlockLeads ==
    ASSUME Ready(Here), NEW p \in Peers, RequestABlock(p)
    PROVE  Leads(Here, Here', {p})
<1>1. PICK b \in Blocks :
        /\ \/ b \in Offered(Here, p)
           \/ /\ rq[p] = {} /\ Entries(Here, p) = {} /\ IsRequested(picker, b)
        /\ Becomes(Requested(Here, p, b))
  BY DEF RequestABlock
<1>2. /\ ~Here.picker.have /\ ~Arrived(Here.picker, b)
      /\ b \notin Here.rq[p] /\ Here.dq[p][b] = "no"
  <2>1. CASE b \in Offered(Here, p)
    BY <2>1, OfferedFree
  <2>2. CASE rq[p] = {} /\ Entries(Here, p) = {} /\ IsRequested(picker, b)
    <3>1. Here.rq[p] = {} /\ Here.dq[p][b] = "no" /\ Here.picker.state[b] = "requested"
      BY <2>2, Lands DEF Entries, IsRequested
    <3>2. Counted(Here.picker)
      BY DEF Ready
    <3> QED BY <3>1, <3>2 DEF Counted, Arrived
  <2> QED BY <1>1, <2>1, <2>2
<1>3. Leads(Here, Requested(Here, p, b), {p})
  BY <1>2, RequestedLeads
<1> QED BY <1>1, <1>3, Lands DEF Leads

\* A request that is sent is still one request, and one that is not is aborted.
LEMMA SendBlockRequestLeads ==
    ASSUME Ready(Here), NEW p \in Peers, SendBlockRequest(p)
    PROVE  Leads(Here, Here', {p})
<1>1. rq \in [Peers -> SUBSET Blocks] /\ dq \in [Peers -> [Blocks -> Marks]]
  BY Lands, Parts DEF Ready
<1>2. PICK b \in rq[p] :
        LET s == Unqueued(Here, {<<p, b>>}) IN
        Becomes(IF IsDownloaded(picker, b)
                THEN [s EXCEPT !.picker = Abort(@, {<<p, b>>})]
                ELSE [s EXCEPT !.dq[p][b] = "live"])
  BY DEF SendBlockRequest
<1> DEFINE X == {<<p, b>>}
           s == Unqueued(Here, X)
<1>3. b \in Blocks
  BY <1>1
<1>4. X \in SUBSET (Peers \X Blocks)
  BY <1>3
<1>5. \A q \in Peers, c \in Blocks : <<q, c>> \in X <=> q = p /\ c = b
  OBVIOUS
<1>6. CASE IsDownloaded(picker, b)
  <2> DEFINE t == [s EXCEPT !.picker = Abort(@, X)]
  <2>1. Becomes(t)
    BY <1>2, <1>6
  <2>2. \A q \in Peers, c \in Blocks : <<q, c>> \in X => c \in Here.rq[q]
    BY <1>2, <1>5, Lands
  <2> HIDE DEF X
  <2>3. Leads(Here, t, {})
    BY <1>4, <2>2, UnqueuedLeads
  <2> HIDE DEF t
  <2>4. Leads(Here, t, {p})
    BY <2>3, LeadsChain
  <2> QED BY <2>1, <2>4, Lands DEF Leads
<1>7. CASE ~IsDownloaded(picker, b)
  <2> DEFINE t == [s EXCEPT !.dq[p][b] = "live"]
             d == [s.dq EXCEPT ![p][b] = "live"]
  <2>1. Becomes(t)
    BY <1>2, <1>7
  <2>2. /\ s \in Handlers /\ s.picker = picker /\ s.dq = dq
        /\ \A q \in Peers, c \in Blocks : c \in s.rq[q] <=> c \in rq[q] /\ <<q, c>> \notin X
    <3> HIDE DEF X
    <3> QED BY <1>4, UnqueuedParts, Lands DEF Ready
  <2> HIDE DEF X, s
  <2>3. t = [s EXCEPT !.dq = d]
    BY <2>2 DEF Handlers
  <2>4. /\ d \in [Peers -> [Blocks -> Marks]]
        /\ \A q \in Peers, c \in Blocks : d[q][c] = IF q = p /\ c = b THEN "live" ELSE dq[q][c]
    BY <1>1, <1>3, <2>2 DEF Marks
  <2> HIDE DEF t, d
  <2>5. t \in Handlers /\ t.dq = d /\ t.picker = picker /\ t.rq = s.rq
    BY <2>2, <2>3, <2>4, Parts
  <2>6. \A q \in Peers, c \in Blocks : ~(c \in rq[q] /\ dq[q][c] # "no")
    BY Lands DEF Ready, OnceIn
  <2>11. \A q \in Peers, c \in Blocks :
           /\ c \in t.rq[q] <=> c \in rq[q] /\ ~(q = p /\ c = b)
           /\ t.dq[q][c] = IF q = p /\ c = b THEN "live" ELSE dq[q][c]
    BY <1>5, <2>2, <2>4, <2>5
  <2>7. OnceIn(t)
    <3>1. ASSUME NEW q \in Peers, NEW c \in Blocks, c \in t.rq[q]
          PROVE  t.dq[q][c] = "no"
      BY <2>6, <2>11, <3>1
    <3> QED BY <3>1, Zenon DEF OnceIn
  <2>8. ASSUME NEW q \in Peers
        PROVE  Asked(t, q) = Asked(Here, q)
    <3>1. Asked(t, q) \subseteq Blocks /\ Asked(Here, q) \subseteq Blocks
      BY <1>1, <2>5, Lands, Parts DEF Asked
    <3>2. ASSUME NEW c \in Blocks
          PROVE  c \in Asked(t, q) <=> c \in Asked(Here, q)
      <4>1. c \in Asked(t, q) <=> c \in t.rq[q] \/ t.dq[q][c] = "live"
        BY DEF Asked
      <4>2. c \in Asked(Here, q) <=> c \in rq[q] \/ dq[q][c] = "live"
        BY Lands DEF Asked
      <4> QED BY <1>2, <2>11, <4>1, <4>2
    <3> QED BY <3>1, <3>2
  <2>9. Leads(Here, t, {})
    BY <2>5, <2>7, <2>8, LeadsSame, Lands
  <2>10. Leads(Here, t, {p})
    BY <2>9, LeadsChain
  <2> QED BY <2>1, <2>5, <2>10, Lands
<1> QED BY <1>6, <1>7

\* A block that starts to arrive was asked for, or counts as not wanted.
LEMMA StartReceiveLeads ==
    ASSUME Ready(Here), NEW p \in Peers, StartReceivePiece(p)
    PROVE  Leads(Here, Here', {p})
<1>1. rq \in [Peers -> SUBSET Blocks] /\ dq \in [Peers -> [Blocks -> Marks]]
  BY Lands, Parts DEF Ready
<1>2. PICK b \in Blocks :
        Becomes(IF dq[p][b] # "no" THEN Here
                ELSE [Unqueued(Here, {<<p, b>>}) EXCEPT
                         !.dq[p][b] = IF b \in rq[p] THEN "live" ELSE "not_wanted"])
  BY DEF StartReceivePiece
<1>3. CASE dq[p][b] # "no"
  <2>1. Leads(Here, Here, {p})
    BY LeadsNowhere, LeadsChain
  <2> QED BY <1>2, <1>3, <2>1, Lands DEF Ready
<1>4. CASE dq[p][b] = "no"
  <2> DEFINE X == {<<p, b>>}
             s == Unqueued(Here, X)
             v == IF b \in rq[p] THEN "live" ELSE "not_wanted"
             t == [s EXCEPT !.dq[p][b] = v]
             d == [s.dq EXCEPT ![p][b] = v]
  <2>1. Becomes(t)
    BY <1>2, <1>4
  <2>2. X \in SUBSET (Peers \X Blocks)
    OBVIOUS
  <2>3. \A q \in Peers, c \in Blocks : <<q, c>> \in X <=> q = p /\ c = b
    OBVIOUS
  <2>4. /\ s \in Handlers /\ s.picker = picker /\ s.dq = dq
        /\ \A q \in Peers, c \in Blocks : c \in s.rq[q] <=> c \in rq[q] /\ <<q, c>> \notin X
    <3> HIDE DEF X
    <3> QED BY <2>2, UnqueuedParts, Lands DEF Ready
  <2>5. v \in Marks /\ v # "no" /\ (v = "live" <=> b \in rq[p])
    BY DEF Marks
  <2> HIDE DEF X, s, v
  <2>6. t = [s EXCEPT !.dq = d]
    BY <2>4 DEF Handlers
  <2>7. /\ d \in [Peers -> [Blocks -> Marks]]
        /\ \A q \in Peers, c \in Blocks : d[q][c] = IF q = p /\ c = b THEN v ELSE dq[q][c]
    BY <1>1, <2>4, <2>5
  <2> HIDE DEF t, d
  <2>8. t \in Handlers /\ t.dq = d /\ t.picker = picker /\ t.rq = s.rq
    BY <2>4, <2>6, <2>7, Parts
  <2>9. \A q \in Peers, c \in Blocks : ~(c \in rq[q] /\ dq[q][c] # "no")
    BY Lands DEF Ready, OnceIn
  <2>14. \A q \in Peers, c \in Blocks :
           /\ c \in t.rq[q] <=> c \in rq[q] /\ ~(q = p /\ c = b)
           /\ t.dq[q][c] = IF q = p /\ c = b THEN v ELSE dq[q][c]
    BY <2>3, <2>4, <2>7, <2>8
  <2>10. OnceIn(t)
    <3>1. ASSUME NEW q \in Peers, NEW c \in Blocks, c \in t.rq[q]
          PROVE  t.dq[q][c] = "no"
      BY <2>9, <2>14, <3>1
    <3> QED BY <3>1, Zenon DEF OnceIn
  <2>11. ASSUME NEW q \in Peers
         PROVE  Asked(t, q) = Asked(Here, q)
    <3>1. Asked(t, q) \subseteq Blocks /\ Asked(Here, q) \subseteq Blocks
      BY <1>1, <2>8, Lands, Parts DEF Asked
    <3>2. ASSUME NEW c \in Blocks
          PROVE  c \in Asked(t, q) <=> c \in Asked(Here, q)
      <4>1. c \in Asked(t, q) <=> c \in t.rq[q] \/ t.dq[q][c] = "live"
        BY DEF Asked
      <4>2. c \in Asked(Here, q) <=> c \in rq[q] \/ dq[q][c] = "live"
        BY Lands DEF Asked
      <4> QED BY <1>4, <2>5, <2>14, <4>1, <4>2
    <3> QED BY <3>1, <3>2
  <2>12. Leads(Here, t, {})
    BY <2>8, <2>10, <2>11, LeadsSame, Lands
  <2>13. Leads(Here, t, {p})
    BY <2>12, LeadsChain
  <2> QED BY <2>1, <2>8, <2>13, Lands
<1> QED BY <1>3, <1>4

\* A rejected request is given up.
LEMMA IncomingRejectLeads ==
    ASSUME Ready(Here), NEW p \in Peers, IncomingReject(p)
    PROVE  Leads(Here, Here', {p})
<1>1. PICK b \in Entries(Here, p) : Becomes(Rejected(Here, {<<p, b>>}, parole))
  BY DEF IncomingReject
<1>2. {<<p, b>>} \in SUBSET (Peers \X Blocks)
  BY DEF Entries
<1>3. Leads(Here, Rejected(Here, {<<p, b>>}, parole), {})
  BY <1>2, RejectedLeads
<1>4. Leads(Here, Rejected(Here, {<<p, b>>}, parole), {p})
  BY <1>3, LeadsChain
<1> QED BY <1>1, <1>4, Lands DEF Leads

\* Of a peer that chokes, all that is asked for is given up or kept in its queue.
LEMMA IncomingChokeLeads ==
    ASSUME Ready(Here), NEW p \in Peers, IncomingChoke(p)
    PROVE  Leads(Here, Here', {p})
<1> DEFINE s == IF p \in parole THEN Here ELSE Withdrawn(Here, {p})
           X == {p} \X Entries(s, p)
           t == IF p \in Fast THEN s ELSE Rejected(s, X, parole)
<1>1. Becomes(t)
  BY DEF IncomingChoke
<1>2. Leads(Here, s, {})
  BY LeadsNowhere, WithdrawnLeads
<1>3. X \in SUBSET (Peers \X Blocks)
  BY DEF Entries
<1> HIDE DEF s, X
<1>4. Ready(s)
  BY <1>2, LeadsChain
<1>5. Leads(s, Rejected(s, X, parole), {})
  BY <1>3, <1>4, RejectedLeads
<1>6. Leads(Here, Rejected(s, X, parole), {} \cup {})
  BY <1>2, <1>5, LeadsChain
<1>7. Leads(Here, t, {})
  BY <1>2, <1>6
<1> HIDE DEF t
<1>8. Leads(Here, t, {p})
  BY <1>7, LeadsChain
<1> QED BY <1>1, <1>8, Lands DEF Leads

\* A request that is timed out is given up, though its entry stays.
LEMMA TimedOutLeads ==
    ASSUME NEW s, Ready(s), NEW p \in Peers, NEW b \in Blocks, s.dq[p][b] = "live"
    PROVE  Leads(s, [s EXCEPT !.dq[p][b] = "timed_out", !.picker = Abort(@, {<<p, b>>})], {})
<1> DEFINE X == {<<p, b>>}
           pk == Abort(s.picker, X)
           d == [s.dq EXCEPT ![p][b] = "timed_out"]
           t == [s EXCEPT !.dq[p][b] = "timed_out", !.picker = Abort(@, X)]
<1>1. X \in SUBSET (Peers \X Blocks)
  OBVIOUS
<1>2. \A q \in Peers, c \in Blocks : <<q, c>> \in X <=> q = p /\ c = b
  OBVIOUS
<1> HIDE DEF X
<1>3. pk \in Pickers
  BY <1>1, AbortMoves DEF Ready, Moves, Counted
<1>4. s \in Handlers /\ s.dq \in [Peers -> [Blocks -> Marks]] /\ s.rq \in [Peers -> SUBSET Blocks]
  BY Parts DEF Ready
<1>5. /\ d \in [Peers -> [Blocks -> Marks]]
      /\ \A q \in Peers, c \in Blocks : d[q][c] = IF q = p /\ c = b THEN "timed_out" ELSE s.dq[q][c]
  BY <1>4 DEF Marks
<1>6. t = [[s EXCEPT !.dq = d] EXCEPT !.picker = pk]
  BY <1>4 DEF Handlers
<1> HIDE DEF pk, d, t
<1>7. t \in Handlers /\ t.picker = pk /\ t.dq = d /\ t.rq = s.rq
  <2> DEFINE v == [s EXCEPT !.dq = d]
  <2>1. v \in Handlers /\ v.dq = d /\ v.rq = s.rq
    BY <1>4, <1>5, Parts
  <2>2. t = [v EXCEPT !.picker = pk]
    BY <1>6
  <2> HIDE DEF v
  <2> QED BY <1>3, <2>1, <2>2, Parts
<1>8. \A q \in Peers, c \in Blocks : ~(c \in s.rq[q] /\ s.dq[q][c] # "no")
  BY DEF Ready, OnceIn
<1>9. \A q \in Peers, c \in Blocks :
        t.dq[q][c] = IF q = p /\ c = b THEN "timed_out" ELSE s.dq[q][c]
  BY <1>5, <1>7
<1>10. OnceIn(t)
  BY <1>7, <1>8, <1>9 DEF OnceIn
<1>11. ASSUME NEW q \in Peers, NEW c \in Blocks
       PROVE  /\ <<q, c>> \in X => c \in Asked(s, q)
              /\ c \in Asked(t, q) <=> c \in Asked(s, q) /\ <<q, c>> \notin X
  <2>1. c \in Asked(t, q) <=> c \in s.rq[q] \/ t.dq[q][c] = "live"
    BY <1>7 DEF Asked
  <2>2. c \in Asked(s, q) <=> c \in s.rq[q] \/ s.dq[q][c] = "live"
    BY DEF Asked
  <2> QED BY <1>2, <1>8, <1>9, <2>1, <2>2
<1>12. Gives(s, t, X)
  BY <1>11 DEF Gives
<1>13. Leads(s, t, {})
  BY <1>1, <1>7, <1>10, <1>12, GivesLeads DEF pk
<1> QED BY <1>13 DEF t, X

\* A snubbed peer gives up what is not sent, and a block it keeps others from.
LEMMA SnubPeerLeads ==
    ASSUME Ready(Here), NEW p \in Peers, SnubPeer(p)
    PROVE  Leads(Here, Here', {p})
<1> DEFINE s == Withdrawn(Here, {p})
           T(pick) == IF pick = {} THEN s ELSE Requested(s, p, CHOOSE b \in pick : TRUE)
<1>1. PICK pick \in {{}} \cup {{b} : b \in IF uploadMode THEN {} ELSE Offered(s, p)} :
        LET t == T(pick)
            live == {b \in Blocks : t.dq[p][b] = "live"}
        IN  \/ Becomes(t)
            \/ \E b \in live : Becomes([t EXCEPT !.dq[p][b] = "timed_out",
                                                 !.picker = Abort(@, {<<p, b>>})])
  BY DEF SnubPeer
<1>2. Leads(Here, s, {})
  BY WithdrawnLeads
<1>3. Ready(s)
  BY <1>2, LeadsChain
<1> HIDE DEF s
<1> DEFINE t == T(pick)
<1>4. Leads(s, t, {p})
  <2>1. CASE pick = {}
    <3>1. Leads(s, s, {p})
      BY <1>3, LeadsNowhere, LeadsChain
    <3> QED BY <2>1, <3>1
  <2>2. CASE pick # {}
    <3>1. PICK b \in Offered(s, p) : pick = {b}
      BY <1>1, <2>2
    <3>2. (CHOOSE c \in pick : TRUE) = b
      BY <3>1
    <3>3. t = Requested(s, p, b)
      BY <2>2, <3>2
    <3>4. Leads(s, Requested(s, p, b), {p})
      BY <1>3, OfferedFree, RequestedLeads
    <3> HIDE DEF t
    <3> QED BY <3>3, <3>4
  <2> QED BY <2>1, <2>2
<1>5. \/ Becomes(t)
      \/ \E b \in Blocks : /\ t.dq[p][b] = "live"
                           /\ Becomes([t EXCEPT !.dq[p][b] = "timed_out",
                                                !.picker = Abort(@, {<<p, b>>})])
  BY <1>1
<1> HIDE DEF t
<1>6. Leads(Here, t, {} \cup {p})
  BY <1>2, <1>4, LeadsChain
<1>7. CASE Becomes(t)
  BY <1>6, <1>7, Lands DEF Leads
<1>8. CASE \E b \in Blocks : /\ t.dq[p][b] = "live"
                             /\ Becomes([t EXCEPT !.dq[p][b] = "timed_out",
                                                  !.picker = Abort(@, {<<p, b>>})])
  <2>1. PICK b \in Blocks : /\ t.dq[p][b] = "live"
                            /\ Becomes([t EXCEPT !.dq[p][b] = "timed_out",
                                                 !.picker = Abort(@, {<<p, b>>})])
    BY <1>8
  <2> DEFINE u == [t EXCEPT !.dq[p][b] = "timed_out", !.picker = Abort(@, {<<p, b>>})]
  <2>2. Ready(t)
    BY <1>6, LeadsChain
  <2>3. Leads(t, u, {})
    BY <2>1, <2>2, TimedOutLeads
  <2>4. Becomes(u)
    BY <2>1
  <2> HIDE DEF u
  <2>5. Leads(Here, u, ({} \cup {p}) \cup {})
    BY <1>6, <2>3, LeadsChain
  <2>6. Leads(Here, u, {p})
    BY <2>5
  <2> QED BY <2>4, <2>6, Lands DEF Leads
<1> QED BY <1>5, <1>7, <1>8

\* The handlers of a peer that only ask for blocks or give them up.
Queues(p) ==
    \/ RequestABlock(p) \/ SendBlockRequest(p) \/ StartReceivePiece(p)
    \/ IncomingReject(p) \/ IncomingChoke(p) \/ SnubPeer(p)

\* None of these handlers moves a block to or from the disk, and only p may ask for more.
LEMMA QueuesLead ==
    ASSUME Ready(Here), NEW p \in Peers, Queues(p)
    PROVE  /\ Leads(Here, Here', {p}) /\ p \in conn
           /\ UNCHANGED <<conn, banned, parole, uploadMode, net, storage, bad, faults>>
<1>1. Leads(Here, Here', {p})
  BY RequestABlockLeads, SendBlockRequestLeads, StartReceiveLeads, IncomingRejectLeads,
     IncomingChokeLeads, SnubPeerLeads DEF Queues
<1>2. p \in conn
  BY DEF Queues, RequestABlock, SendBlockRequest, StartReceivePiece, IncomingReject,
         IncomingChoke, SnubPeer, Idle
<1>3. UNCHANGED <<conn, banned, parole, uploadMode, net, storage, bad, faults>>
  BY DEF Queues, RequestABlock, SendBlockRequest, StartReceivePiece, IncomingReject,
         IncomingChoke, SnubPeer, Peerless
<1> QED BY <1>1, <1>2, <1>3

\* A peer that leaves asks for nothing.
LEMMA DisconnectLeads ==
    ASSUME Ready(Here), NEW p \in Peers, Disconnect(p)
    PROVE  Leads(Here, Here', {}) /\ Asked(Here', p) = {}
<1> DEFINE t == Disconnected(Here, {p})
<1>1. Becomes(t)
  BY DEF Disconnect
<1>2. Leads(Here, t, {}) /\ Asked(t, p) = {}
  BY DisconnectedLeads
<1> HIDE DEF t
<1> QED BY <1>1, <1>2, Lands DEF Leads

\* The picker takes a piece for finished when every block of it has arrived.
LEMMA FinishedArrived ==
    ASSUME NEW pk, Counted(pk)
    PROVE  IsPieceFinished(pk) <=> \A b \in Blocks : Arrived(pk, b)
<1>1. pk.state \in [Blocks -> BlockStates]
  BY DEF Counted, Pickers
<1>2. pk.writing + pk.finished >= NumBlocks <=> \A b \in Blocks : Arrived(pk, b)
  BY <1>1, CountAll DEF Counted, Arrived
<1>3. (\A b \in Blocks : Arrived(pk, b)) => pk.downloading
  <2>1. 0 \in Blocks
    BY PieceAssumption DEF Blocks
  <2> QED BY <2>1 DEF Counted, Arrived
<1>4. pk.finished \in Nat /\ pk.writing \in Nat
  BY DEF Counted, Pickers
<1> QED BY <1>2, <1>3, <1>4 DEF IsPieceFinished

\* A block that has arrived before only loses its entry.
LEMMA AgainLeads ==
    ASSUME NEW s, Ready(s), NEW p \in Peers, NEW b \in Blocks, IsDownloaded(s.picker, b)
    PROVE  Leads(s, Dequeued(s, {<<p, b>>}), {})
<1> DEFINE X == {<<p, b>>}
           t == Dequeued(s, X)
<1>1. X \in SUBSET (Peers \X Blocks)
  OBVIOUS
<1>2. \A q \in Peers, c \in Blocks : <<q, c>> \in X <=> q = p /\ c = b
  OBVIOUS
<1> HIDE DEF X
<1>3. /\ t \in Handlers /\ t.picker = s.picker /\ t.rq = s.rq
      /\ \A q \in Peers, c \in Blocks : t.dq[q][c] = IF <<q, c>> \in X THEN "no" ELSE s.dq[q][c]
  BY <1>1, DequeuedParts DEF Ready
<1> HIDE DEF t
<1>4. \A q \in Peers, c \in Blocks : t.dq[q][c] = IF q = p /\ c = b THEN "no" ELSE s.dq[q][c]
  BY <1>2, <1>3
<1>5. OnceIn(t)
  BY <1>3, <1>4 DEF OnceIn, Ready
<1>6. Moves(s.picker, t.picker)
  BY <1>3 DEF Moves, Ready
<1>7. ASSUME NEW q \in Peers, NEW c \in Blocks
      PROVE  /\ c \in Asked(t, q) => c \in Asked(s, q)
             /\ c # b => (c \in Asked(t, q) <=> c \in Asked(s, q))
  <2>1. c \in Asked(t, q) <=> c \in s.rq[q] \/ t.dq[q][c] = "live"
    BY <1>3 DEF Asked
  <2>2. c \in Asked(s, q) <=> c \in s.rq[q] \/ s.dq[q][c] = "live"
    BY DEF Asked
  <2> QED BY <1>4, <2>1, <2>2
<1>8. \A q \in Peers : Asked(s, q) = {} => Asked(t, q) = {}
  <2>1. \A q \in Peers : Asked(t, q) \subseteq Blocks
    BY <1>3, Parts DEF Asked
  <2> QED BY <1>7, <2>1
<1>9. Numbered(s) => Numbered(t)
  <2>1. s.picker.have \/ Arrived(s.picker, b)
    BY DEF IsDownloaded, Arrived
  <2>2. \A c \in Blocks : c # b => Asking(t, Peers, c) = Asking(s, Peers, c)
    BY <1>7 DEF Asking
  <2> QED BY <1>3, <2>1, <2>2 DEF Numbered
<1>10. Leads(s, t, {})
  BY <1>3, <1>5, <1>6, <1>8, <1>9 DEF Leads
<1> QED BY <1>10 DEF t, X

\* What incoming_piece does when it hands block b of peer p to the disk.
Delivers(p, b, good) ==
    /\ b \in Blocks /\ ~picker.have /\ ~Arrived(picker, b)
    /\ Ready(Here')
    /\ Exact(picker) => Exact(picker')
    /\ Numbered(Here) => Numbered(Here')
    /\ ~picker'.have
    /\ \A c \in Blocks : c = b => picker'.state[c] = "writing" /\ picker'.peer[c] = p
    /\ \A c \in Blocks : c # b /\ (Arrived(picker, c) \/ Arrived(picker', c)) =>
         picker'.state[c] = picker.state[c] /\ picker'.peer[c] = picker.peer[c]
    /\ \A q \in Peers : Asked(Here, q) = {} => Asked(Here', q) = {}
    /\ jobs' = Append(jobs, [kind |-> "write", block |-> b, good |-> good, by |-> p])
    /\ net' = IF \A c \in Blocks : Arrived(picker', c) THEN "verify" ELSE "idle"

\* A block that arrives is handed to the disk, or nothing but its entry is lost.
LEMMA IncomingPieceSteps ==
    ASSUME Ready(Here), conn \subseteq Peers, NEW p \in Peers, NEW good \in BOOLEAN,
           NEW skipped \in SUBSET Blocks, IncomingPiece(p, good, skipped)
    PROVE  \/ Leads(Here, Here', {}) /\ UNCHANGED <<net, jobs>>
           \/ Delivers(p, receiving[p], good)
<1> DEFINE b == receiving[p]
           X == {p} \X skipped
           s == [Dequeued(Here, X) EXCEPT !.picker = Abort(@, Live(Here, X))]
           taken == Taken(s, p, b)
           final == IF s.picker.num_peers[b] > 1 THEN CancelledBlock(taken, b) ELSE taken
<1>1. /\ b \in Blocks
      /\ \/ Becomes(Here) /\ UNCHANGED <<net, jobs>>
         \/ /\ IsDownloaded(s.picker, b)
            /\ Becomes(Dequeued(s, {<<p, b>>})) /\ UNCHANGED <<net, jobs>>
         \/ /\ ~IsDownloaded(s.picker, b)
            /\ jobs' = Append(jobs, [kind |-> "write", block |-> b, good |-> good, by |-> p])
            /\ Becomes(final)
            /\ net' = IF IsPieceFinished(final.picker) /\ ~IsPieceFinished(s.picker)
                      THEN "verify" ELSE "idle"
  BY DEF IncomingPiece, Taken
<1>2. X \in SUBSET (Peers \X Blocks)
  OBVIOUS
<1> HIDE DEF X, b
<1>3. Leads(Here, s, {})
  BY <1>2, DroppedLeads
<1>4. Ready(s)
  BY <1>3, LeadsChain
<1> HIDE DEF s
<1>5. CASE Becomes(Here) /\ UNCHANGED <<net, jobs>>
  BY <1>5, LeadsNowhere, Lands DEF Ready
<1>6. CASE /\ IsDownloaded(s.picker, b)
           /\ Becomes(Dequeued(s, {<<p, b>>})) /\ UNCHANGED <<net, jobs>>
  <2> DEFINE t == Dequeued(s, {<<p, b>>})
  <2>1. Leads(s, t, {})
    BY <1>1, <1>4, <1>6, AgainLeads
  <2>2. Becomes(t)
    BY <1>6
  <2> HIDE DEF t
  <2>3. Leads(Here, t, {} \cup {})
    BY <1>3, <2>1, LeadsChain
  <2>4. Leads(Here, t, {})
    BY <2>3
  <2>5. Leads(Here, Here', {})
    BY <2>2, <2>4, Lands DEF Leads
  <2> QED BY <1>6, <2>5
<1>7. CASE /\ ~IsDownloaded(s.picker, b)
           /\ jobs' = Append(jobs, [kind |-> "write", block |-> b, good |-> good, by |-> p])
           /\ Becomes(final)
           /\ net' = IF IsPieceFinished(final.picker) /\ ~IsPieceFinished(s.picker)
                     THEN "verify" ELSE "idle"
  <2>1. ~s.picker.have /\ ~Arrived(s.picker, b)
    BY <1>7 DEF IsDownloaded, Arrived
  <2>2. Moves(picker, s.picker)
    BY <1>3, Lands DEF Leads
  <2>3. ~picker.have /\ ~Arrived(picker, b)
    BY <1>1, <2>1, <2>2 DEF Moves, Arrived
  <2>4. /\ Ready(taken)
        /\ Exact(s.picker) => Exact(taken.picker)
        /\ ~taken.picker.have
        /\ Numbered(s) => Numbered(taken)
        /\ \A c \in Blocks : taken.picker.state[c] = IF c = b THEN "writing" ELSE s.picker.state[c]
        /\ \A c \in Blocks : Arrived(s.picker, c) => taken.picker.peer[c] = s.picker.peer[c]
        /\ taken.picker.peer[b] = p
        /\ \A q \in Peers : Asked(taken, q) \subseteq Asked(s, q)
    BY <1>1, <1>4, <2>1, TakenReady
  <2> HIDE DEF taken
  <2>5. Leads(taken, final, {})
    BY <1>1, <2>4, CancelledBlockLeads, LeadsNowhere
  <2>6. Becomes(final)
    BY <1>7
  <2> HIDE DEF final
  <2>7. Here' = final /\ picker' = final.picker /\ Ready(final)
    <3>1. Ready(final)
      BY <2>4, <2>5, LeadsChain
    <3> QED BY <2>6, <3>1, Lands DEF Ready, Becomes
  <2>8. Moves(taken.picker, picker')
    BY <2>5, <2>7 DEF Leads
  <2>9. Exact(picker) => Exact(picker')
    BY <2>2, <2>4, <2>8 DEF Moves
  <2>10. Numbered(Here) => Numbered(Here')
    BY <1>3, <2>4, <2>5, <2>7 DEF Leads
  <2>11. ~picker'.have
    BY <2>4, <2>8 DEF Moves
  <2>12. \A c \in Blocks : c = b => picker'.state[c] = "writing" /\ picker'.peer[c] = p
    BY <2>4, <2>8 DEF Moves, Arrived
  <2>13. ASSUME NEW c \in Blocks, c # b, Arrived(picker, c) \/ Arrived(picker', c)
         PROVE  picker'.state[c] = picker.state[c] /\ picker'.peer[c] = picker.peer[c]
    <3>1. Arrived(picker', c) => Arrived(taken.picker, c) /\ Arrived(s.picker, c) /\ Arrived(picker, c)
      BY <2>2, <2>4, <2>8, <2>13 DEF Moves, Arrived
    <3>2. Arrived(picker, c)
      BY <2>13, <3>1
    <3>3. s.picker.state[c] = picker.state[c] /\ s.picker.peer[c] = picker.peer[c] /\ Arrived(s.picker, c)
      BY <2>2, <3>2 DEF Moves, Arrived
    <3>4. /\ taken.picker.state[c] = picker.state[c] /\ taken.picker.peer[c] = picker.peer[c]
          /\ Arrived(taken.picker, c)
      BY <2>4, <2>13, <3>3 DEF Arrived
    <3> QED BY <2>8, <3>4 DEF Moves
  <2>14. ASSUME NEW q \in Peers, Asked(Here, q) = {}
         PROVE  Asked(Here', q) = {}
    <3>1. Asked(s, q) = {}
      BY <1>3, <2>14 DEF Leads
    <3>2. Asked(taken, q) = {}
      BY <2>4, <3>1
    <3> QED BY <2>5, <2>7, <3>2 DEF Leads
  <2>15. ~IsPieceFinished(s.picker) /\ (IsPieceFinished(final.picker) <=> \A c \in Blocks : Arrived(picker', c))
    BY <1>1, <1>4, <2>1, <2>7, FinishedArrived DEF Ready
  <2>16. net' = IF \A c \in Blocks : Arrived(picker', c) THEN "verify" ELSE "idle"
    BY <1>7, <2>15
  <2>17. Ready(Here')
    BY <2>7
  <2>18. jobs' = Append(jobs, [kind |-> "write", block |-> b, good |-> good, by |-> p])
    BY <1>7
  <2>19. Delivers(p, b, good)
    BY <1>1, <2>3, <2>9, <2>10, <2>11, <2>12, <2>13, <2>14, <2>16, <2>17, <2>18 DEF Delivers
  <2> QED BY <2>19 DEF b
<1> QED BY <1>1, <1>5, <1>6, <1>7

----------------------------------------------------------------------------
(* The pipeline to the disk and back                                       *)

WriteJobs == [kind : {"write"}, block : Blocks, good : BOOLEAN, by : Peers]
HashJobs == [kind : {"hash"}]
Senders == UNION {[S -> Peers] : S \in SUBSET Blocks}
WriteReports == [kind : {"write"}, ok : BOOLEAN, by : Senders, last : BOOLEAN]
HashReports == [kind : {"hash"}, ret : {"pass", "fail", "error"}, last : BOOLEAN]
Jobs == WriteJobs \cup HashJobs
Completions == WriteReports \cup HashReports

PipeType ==
    /\ jobs \in Seq(Jobs) /\ queued \in Seq(Completions) /\ posted \in Seq(Completions)
    /\ cache \in [Blocks -> Data \cup {NoData}] /\ disk \in [Blocks -> Data \cup {NoData}]
    /\ faults \in 0 .. MaxFaults

PeerType ==
    /\ receiving \in [Peers -> Blocks \cup {NoBlock}]
    /\ conn \subseteq Peers /\ banned \subseteq Peers /\ parole \subseteq Peers
    /\ uploadMode \in BOOLEAN /\ net \in {"idle", "batch", "verify"}
    /\ bad \in 0 .. MaxBad

\* A peer that is not connected asks for nothing.
Silent == \A p \in Peers \ conn : Asked(Here, p) = {}

\* How many writes outlived a connection is a number.
OrphanType == orphans \in [Peers -> [Blocks -> Nat]]

\* What holds whatever the disk does.
TInv == Ready(Here) /\ PipeType /\ PeerType /\ Silent /\ OrphanType

\* A report names the blocks it is about, and who sent them.
LEMMA ReportTyped ==
    ASSUME NEW c \in Completions, c.kind = "write"
    PROVE  /\ c \in WriteReports /\ DOMAIN c.by \subseteq Blocks /\ c.by \in [DOMAIN c.by -> Peers]
           /\ \A S \in SUBSET (DOMAIN c.by) : [c EXCEPT !.by = [b \in S |-> c.by[b]]] \in WriteReports
<1>1. c \in WriteReports
  BY DEF Completions, HashReports, WriteReports
<1>2. PICK S \in SUBSET Blocks : c.by \in [S -> Peers]
  BY <1>1 DEF WriteReports, Senders
<1>3. DOMAIN c.by = S
  BY <1>2
<1>4. ASSUME NEW T \in SUBSET (DOMAIN c.by)
      PROVE  [c EXCEPT !.by = [b \in T |-> c.by[b]]] \in WriteReports
  <2> DEFINE f == [b \in T |-> c.by[b]]
  <2>1. f \in [T -> Peers] /\ T \in SUBSET Blocks
    BY <1>2, <1>3
  <2>2. f \in Senders
    BY <2>1 DEF Senders
  <2> HIDE DEF f
  <2>3. [c EXCEPT !.by = f] \in WriteReports
    BY <1>1, <2>2 DEF WriteReports
  <2> QED BY <2>3 DEF f
<1> QED BY <1>1, <1>2, <1>3, <1>4

\* Where WriteReport leaves the posted completions.
LEMMA WriteReportTyped ==
    ASSUME PipeType, NEW b \in Blocks, NEW ok \in BOOLEAN, WriteReport(b, ok)
    PROVE  /\ posted \in Seq(Completions) /\ posted # <<>> /\ posted' \in Seq(Completions)
           /\ Head(posted) \in WriteReports /\ Head(posted).ok = ok
           /\ b \in DOMAIN Head(posted).by /\ Head(posted).by[b] \in Peers
           /\ net' \in {"idle", "batch"} /\ net # "verify"
           /\ UNCHANGED <<jobs, cache, disk, queued, bad, faults>>
           /\ \/ DOMAIN Head(posted).by = {b} /\ posted' = Tail(posted)
              \/ LET f == [c \in DOMAIN Head(posted).by \ {b} |-> Head(posted).by[c]] IN
                 /\ f \in Senders
                 /\ posted' = [posted EXCEPT ![1] = [@ EXCEPT !.by = f]]
<1> DEFINE h == Head(posted)
           by == h.by
           f == [c \in DOMAIN by \ {b} |-> by[c]]
           g == [h EXCEPT !.by = f]
<1>1. /\ posted # <<>> /\ h.kind = "write" /\ h.ok = ok /\ b \in DOMAIN by
      /\ net \in {"idle", "batch"}
      /\ UNCHANGED <<jobs, cache, disk, queued, bad, faults>>
      /\ IF DOMAIN by = {b}
         THEN posted' = Tail(posted) /\ net' = IF h.last THEN "idle" ELSE "batch"
         ELSE posted' = [posted EXCEPT ![1].by = f] /\ net' = "batch"
  BY DEF WriteReport, Completion, Handled
<1>2. h \in Completions /\ Tail(posted) \in Seq(Completions) /\ posted \in Seq(Completions)
  BY <1>1, HeadTailProperties DEF PipeType
<1>3. h \in WriteReports /\ by \in [DOMAIN by -> Peers]
  BY <1>1, <1>2, ReportTyped
<1>4. g \in WriteReports
  <2>1. DOMAIN by \ {b} \in SUBSET DOMAIN by
    OBVIOUS
  <2> QED BY <1>1, <1>2, <2>1, ReportTyped
<1>5. f \in Senders
  <2>1. DOMAIN by \ {b} \in SUBSET Blocks /\ f \in [DOMAIN by \ {b} -> Peers]
    BY <1>1, <1>2, <1>3, ReportTyped
  <2> HIDE DEF f
  <2> QED BY <2>1 DEF Senders
<1>6. CASE DOMAIN by = {b}
  BY <1>1, <1>2, <1>3, <1>6
<1>7. CASE DOMAIN by # {b}
  <2>1. h = posted[1] /\ 1 \in 1 .. Len(posted) /\ 1 \in DOMAIN posted
    BY <1>1, <1>2
  <2>2. posted' = [posted EXCEPT ![1] = [@ EXCEPT !.by = f]]
    BY <1>1, <1>7
  <2>3. posted' = [posted EXCEPT ![1] = g]
    BY <2>1, <2>2
  <2>4. g \in Completions
    BY <1>4 DEF Completions
  <2> HIDE DEF f, g, h, by
  <2>5. posted' \in Seq(Completions)
    BY <1>2, <2>1, <2>3, <2>4, ExceptSeq
  <2> USE DEF h, by, f
  <2> QED BY <1>1, <1>2, <1>3, <1>5, <1>7, <2>2, <2>5
<1> QED BY <1>6, <1>7

\* What one batch report says of a set of cached blocks.
LEMMA ReportOfCached ==
    ASSUME PipeType, NEW S \in SUBSET Blocks, \A b \in S : cache[b] # NoData, NEW ok \in BOOLEAN
    PROVE  /\ Report(S, ok) \in WriteReports /\ Report(S, ok) \in Completions
           /\ Report(S, ok).kind = "write" /\ Report(S, ok).ok = ok
           /\ DOMAIN Report(S, ok).by = S
           /\ \A b \in S : Report(S, ok).by[b] = cache[b].by
<1> DEFINE f == [b \in S |-> cache[b].by]
<1>1. \A b \in S : cache[b] \in Data
  BY DEF PipeType
<1>2. f \in [S -> Peers] /\ DOMAIN f = S /\ \A b \in S : f[b] = cache[b].by
  BY <1>1 DEF Data
<1>3. f \in Senders
  BY <1>2 DEF Senders
<1> HIDE DEF f
<1>4. Report(S, ok) = [kind |-> "write", ok |-> ok, by |-> f, last |-> FALSE]
  BY DEF Report, f
<1>5. Report(S, ok) \in WriteReports
  BY <1>3, <1>4 DEF WriteReports
<1> QED BY <1>2, <1>4, <1>5 DEF Completions

\* What FlushRange does to the cache and the file.
LEMMA FlushRangeTyped ==
    ASSUME PipeType, NEW S \in SUBSET Blocks, NEW ok \in BOOLEAN, NEW W, FlushRange(S, ok, W)
    PROVE  /\ disk' \in [Blocks -> Data \cup {NoData}] /\ cache' \in [Blocks -> Data \cup {NoData}]
           /\ faults' \in 0 .. MaxFaults
           /\ \A b \in Blocks : cache'[b] = IF b \in S THEN NoData ELSE cache[b]
           /\ \A b \in Blocks \ S : disk'[b] = disk[b]
           /\ faults' = 0 => /\ faults = 0 /\ ok
                             /\ \A b \in S : disk'[b] = cache[b]
<1>1. W \subseteq S /\ (ok <=> W = S) /\ faults' = (IF ok THEN faults ELSE faults + 1)
        /\ faults' <= MaxFaults
        /\ disk' = [b \in Blocks |-> IF b \in W THEN cache[b] ELSE disk[b]]
        /\ cache' = [b \in Blocks |-> IF b \in S THEN NoData ELSE cache[b]]
  BY DEF FlushRange
<1>2. faults \in Nat /\ MaxFaults \in Nat
  BY PieceAssumption DEF PipeType
<1>3. faults' \in 0 .. MaxFaults /\ (faults' = 0 => faults = 0 /\ ok)
  BY <1>1, <1>2
<1> QED BY <1>1, <1>3 DEF PipeType

\* The types of what goes to the disk and comes back.
LEMMA PipeTyped ==
    ASSUME TInv, Next
    PROVE  PipeType'
<1> USE DEF PipeType, TInv
<1>1. CASE \E p \in Peers : Peer(p)
  <2>1. PICK p \in Peers : Peer(p)
    BY <1>1
  <2>2. CASE Queues(p)
    BY <2>2, QueuesLead DEF storage
  <2>3. CASE Disconnect(p) \/ Connect(p) \/ ErasePeer(p)
    BY <2>3 DEF Disconnect, Connect, ErasePeer, storage
  <2>4. CASE \E good \in BOOLEAN, skipped \in SUBSET Blocks : IncomingPiece(p, good, skipped)
    <3>1. PICK good \in BOOLEAN, skipped \in SUBSET Blocks : IncomingPiece(p, good, skipped)
      BY <2>4
    <3>2. UNCHANGED <<cache, disk, queued, posted, faults>>
      BY <3>1 DEF IncomingPiece
    <3>3. \/ UNCHANGED jobs
          \/ /\ receiving[p] \in Blocks
             /\ jobs' = Append(jobs, [kind |-> "write", block |-> receiving[p], good |-> good, by |-> p])
      BY <3>1, IncomingPieceSteps DEF PeerType, Delivers
    <3>4. receiving[p] \in Blocks =>
            [kind |-> "write", block |-> receiving[p], good |-> good, by |-> p] \in Jobs
      BY DEF Jobs, WriteJobs
    <3>5. jobs' \in Seq(Jobs)
      BY <3>3, <3>4, AppendProperties
    <3> QED BY <3>2, <3>5
  <2> QED BY <2>1, <2>2, <2>3, <2>4 DEF Peer, Queues
<1>2. CASE LeaveUploadMode
  BY <1>2 DEF LeaveUploadMode, storage
<1>3. CASE AsyncVerifyPiece
  <2>1. [kind |-> "hash"] \in Jobs
    BY DEF Jobs, HashJobs
  <2>2. jobs' = Append(jobs, [kind |-> "hash"]) /\ UNCHANGED <<cache, disk, queued, posted, faults>>
    BY <1>3 DEF AsyncVerifyPiece
  <2>3. jobs' \in Seq(Jobs)
    BY <2>1, <2>2, AppendProperties
  <2> QED BY <2>2, <2>3
<1>4. CASE Complete
  <2>1. CASE WriteComplete
    <3>1. PICK b \in Blocks : WriteReport(b, TRUE)
      BY <2>1 DEF WriteComplete
    <3> QED BY <3>1, WriteReportTyped
  <2>2. CASE DiskErrorOnWrite
    <3>1. PICK b \in Blocks : WriteReport(b, FALSE)
      BY <2>2 DEF DiskErrorOnWrite
    <3> QED BY <3>1, WriteReportTyped
  <2>3. CASE Verdict
    <3>1. posted # <<>> /\ posted' = Tail(posted) /\ UNCHANGED <<jobs, cache, disk, queued, faults>>
      BY <2>3 DEF Verdict, Completion, Handled
    <3>2. posted' \in Seq(Completions)
      BY <3>1, HeadTailProperties
    <3> QED BY <3>1, <3>2
  <2> QED BY <1>4, <2>1, <2>2, <2>3 DEF Complete, StaleVerdict, PiecePassed, PieceFailed, DiskErrorOnHash
<1>5. CASE WriteJob
  <2> DEFINE j == Head(jobs)
  <2>1. /\ jobs # <<>> /\ j.kind = "write" /\ jobs' = Tail(jobs)
        /\ cache' = [cache EXCEPT ![j.block] = [good |-> j.good, by |-> j.by]]
        /\ queued' = IF j.block \in Cached THEN Append(queued, Report({j.block}, TRUE)) ELSE queued
        /\ UNCHANGED <<disk, posted, faults>>
    BY <1>5 DEF WriteJob
  <2>2. j \in Jobs /\ jobs' \in Seq(Jobs)
    BY <2>1, HeadTailProperties
  <2>3. j \in WriteJobs
    BY <2>1, <2>2 DEF Jobs, HashJobs, WriteJobs
  <2>4. cache' \in [Blocks -> Data \cup {NoData}]
    BY <2>1, <2>3 DEF WriteJobs, Data
  <2>5. queued' \in Seq(Completions)
    <3>1. CASE j.block \in Cached
      <4>1. {j.block} \in SUBSET Blocks /\ \A b \in {j.block} : cache[b] # NoData
        BY <3>1 DEF Cached
      <4>2. Report({j.block}, TRUE) \in Completions
        BY <4>1, ReportOfCached
      <4> QED BY <2>1, <3>1, <4>2, AppendProperties
    <3>2. CASE j.block \notin Cached
      BY <2>1, <3>2
    <3> QED BY <3>1, <3>2
  <2> QED BY <2>1, <2>2, <2>4, <2>5
<1>6. CASE HashJob
  <2>1. PICK ok \in BOOLEAN, readable \in BOOLEAN, W \in SUBSET Cached :
          /\ FlushRange(Cached, ok, W)
          /\ queued' = Verified(ok, IF ~readable THEN "error"
                                    ELSE IF HashMatches(disk') THEN "pass" ELSE "fail")
    BY <1>6 DEF HashJob
  <2>2. jobs # <<>> /\ jobs' = Tail(jobs) /\ UNCHANGED posted
    BY <1>6 DEF HashJob
  <2>3. jobs' \in Seq(Jobs)
    BY <2>2, HeadTailProperties
  <2>4. Cached \in SUBSET Blocks /\ \A b \in Cached : cache[b] # NoData
    BY DEF Cached
  <2>5. /\ disk' \in [Blocks -> Data \cup {NoData}] /\ cache' \in [Blocks -> Data \cup {NoData}]
        /\ faults' \in 0 .. MaxFaults
    BY <2>1, <2>4, FlushRangeTyped
  <2>6. ASSUME NEW ret \in {"pass", "fail", "error"}
        PROVE  Verified(ok, ret) \in Seq(Completions)
    <3> DEFINE hash == [kind |-> "hash", ret |-> ret, last |-> FALSE]
               q == IF Cached = {} THEN queued ELSE Append(queued, Report(Cached, ok))
    <3>1. Report(Cached, ok) \in Completions
      BY <2>4, ReportOfCached
    <3>2. hash \in Completions
      BY DEF Completions, HashReports
    <3>3. q \in Seq(Completions)
      BY <3>1, AppendProperties
    <3> HIDE DEF hash, q
    <3>4. Append(q, hash) \in Seq(Completions)
      BY <3>2, <3>3, AppendProperties
    <3> QED BY <3>4 DEF Verified, hash, q
  <2>7. queued' \in Seq(Completions)
    BY <2>1, <2>6
  <2> QED BY <2>2, <2>3, <2>5, <2>7
<1>7. CASE PostCompletions
  <2> DEFINE n == Len(queued)
             e == [queued[n] EXCEPT !.last = TRUE]
             q == [queued EXCEPT ![n].last = TRUE]
  <2>1. queued # <<>> /\ posted' = posted \o q /\ queued' = <<>> /\ UNCHANGED <<jobs, cache, disk, faults>>
    BY <1>7 DEF PostCompletions
  <2>2. n \in 1 .. Len(queued) /\ queued[n] \in Completions
    BY <2>1, EmptySeq, LenProperties, ElementOfSeq
  <2>3. e \in Completions
    <3> HIDE DEF n
    <3> QED BY <2>2 DEF Completions, WriteReports, HashReports
  <2>4. q = [queued EXCEPT ![n] = e]
    OBVIOUS
  <2> HIDE DEF n, e, q
  <2>5. q \in Seq(Completions)
    BY <2>2, <2>3, <2>4, ExceptSeq
  <2>6. posted' \in Seq(Completions)
    BY <2>1, <2>5, ConcatProperties
  <2>7. queued' \in Seq(Completions)
    BY <2>1, EmptySeq
  <2> QED BY <2>1, <2>6, <2>7
<1>8. CASE Flush
  <2>0. PICK i \in Blocks, j \in Blocks, ok \in BOOLEAN :
          /\ \E W \in SUBSET (Cached \cap (i .. j)) : FlushRange(Cached \cap (i .. j), ok, W)
          /\ queued' = Append(queued, Report(Cached \cap (i .. j), ok))
    BY <1>8 DEF Flush
  <2> DEFINE S == Cached \cap (i .. j)
  <2>1. PICK W : FlushRange(S, ok, W)
    BY <2>0
  <2>2. S \in SUBSET Blocks /\ \A b \in S : cache[b] # NoData
    BY DEF Cached
  <2>3. FlushRange(S, ok, W) /\ queued' = Append(queued, Report(S, ok))
    BY <2>0, <2>1
  <2> HIDE DEF S
  <2>4. /\ disk' \in [Blocks -> Data \cup {NoData}] /\ cache' \in [Blocks -> Data \cup {NoData}]
        /\ faults' \in 0 .. MaxFaults
    BY <2>2, <2>3, FlushRangeTyped
  <2>5. queued' \in Seq(Completions)
    BY <2>2, <2>3, ReportOfCached, AppendProperties
  <2>6. UNCHANGED <<jobs, posted>>
    BY <1>8 DEF Flush
  <2> QED BY <2>4, <2>5, <2>6
<1> QED BY <1>1, <1>2, <1>3, <1>4, <1>5, <1>6, <1>7, <1>8 DEF Next, Disk

----------------------------------------------------------------------------
(* The writes that outlive a connection                                    *)

\* The completion handled next is that of the connection a peer has, or of one it had.
LEMMA PeerInfoTyped ==
    ASSUME OrphanType, NEW b \in Blocks, Head(posted).by[b] \in Peers
    PROVE  /\ PeerInfo(b) \in {Head(posted).by[b], NoPeer} /\ PeerInfo(b) \in Peers \cup {NoPeer}
           /\ OrphansLeft(b) \in [Peers -> [Blocks -> Nat]]
<1>1. PICK p \in Peers : p = Head(posted).by[b]
  OBVIOUS
<1>2. PeerInfo(b) \in {p, NoPeer}
  BY <1>1 DEF PeerInfo
<1>3. OrphansLeft(b) = [orphans EXCEPT ![p][b] = IF @ > 0 THEN @ - 1 ELSE 0]
  BY <1>1 DEF OrphansLeft
<1>4. orphans \in [Peers -> [Blocks -> Nat]]
  BY DEF OrphanType
<1>5. [orphans EXCEPT ![p][b] = IF @ > 0 THEN @ - 1 ELSE 0] \in [Peers -> [Blocks -> Nat]]
  BY <1>4
<1> QED BY <1>1, <1>2, <1>3, <1>5

\* The writes of a peer's block that are under way are finitely many.
LEMMA UnderWayTyped ==
    ASSUME PipeType, NEW s \in Seq(Completions), NEW p, NEW b
    PROVE  UnderWay(p, b, s) \in Nat
<1>1. ASSUME NEW T, NEW t \in Seq(T), NEW U \in SUBSET (DOMAIN t)
      PROVE  Cardinality(U) \in Nat
  <2>1. Len(t) \in Nat /\ DOMAIN t = 1 .. Len(t)
    BY LenProperties
  <2>2. IsFiniteSet(1 .. Len(t))
    BY <2>1, FS_Interval
  <2> QED BY <2>1, <2>2, FS_Subset, FS_CardinalityType
<1>2. Cardinality(Waiting(p, b)) \in Nat
  BY <1>1 DEF PipeType, Waiting
<1>3. \A t \in Seq(Completions) : Cardinality(Reports(t, p, b)) \in Nat
  <2> TAKE t \in Seq(Completions)
  <2>1. Reports(t, p, b) \in SUBSET (DOMAIN t)
    BY DEF Reports
  <2> QED BY <1>1, <2>1
<1>4. Cardinality(Reports(queued, p, b)) \in Nat /\ Cardinality(Reports(s, p, b)) \in Nat
  BY <1>3 DEF PipeType
<1> QED BY <1>2, <1>4 DEF UnderWay

LEMMA OrphanedTyped ==
    ASSUME PipeType, NEW left \in [Peers -> [Blocks -> Nat]], NEW C, NEW s \in Seq(Completions)
    PROVE  Orphaned(left, C, s) \in [Peers -> [Blocks -> Nat]]
BY UnderWayTyped DEF Orphaned

LEMMA OrphansTyped ==
    ASSUME TInv, Next
    PROVE  OrphanType'
<1> USE DEF TInv
<1>0. orphans \in [Peers -> [Blocks -> Nat]] /\ posted \in Seq(Completions)
  BY DEF OrphanType, PipeType
<1>1. ASSUME NEW C, orphans' = Orphaned(orphans, C, posted)
      PROVE  OrphanType'
  BY <1>0, <1>1, OrphanedTyped DEF OrphanType
<1>2. ASSUME orphans' = orphans
      PROVE  OrphanType'
  BY <1>0, <1>2 DEF OrphanType
<1>3. CASE \E p \in Peers : Peer(p)
  <2>1. PICK p \in Peers : Peer(p)
    BY <1>3
  <2>2. CASE Queues(p)
    BY <1>2, <2>2 DEF Queues, RequestABlock, SendBlockRequest, StartReceivePiece, IncomingReject,
                      IncomingChoke, SnubPeer, Peerless
  <2>3. CASE \E good \in BOOLEAN, skipped \in SUBSET Blocks : IncomingPiece(p, good, skipped)
    BY <1>2, <2>3 DEF IncomingPiece, Peerless
  <2>4. CASE Disconnect(p)
    BY <1>1, <2>4 DEF Disconnect
  <2>5. CASE Connect(p) \/ ErasePeer(p)
    BY <1>2, <2>5 DEF Connect, ErasePeer
  <2> QED BY <2>1, <2>2, <2>3, <2>4, <2>5 DEF Peer, Queues
<1>4. CASE LeaveUploadMode \/ AsyncVerifyPiece \/ Disk \/ Flush \/ StaleVerdict \/ PiecePassed
  BY <1>2, <1>4 DEF LeaveUploadMode, AsyncVerifyPiece, Disk, WriteJob, HashJob, PostCompletions,
                    Flush, StaleVerdict, PiecePassed, network
<1>5. CASE WriteComplete
  <2>1. PICK b \in Blocks : WriteReport(b, TRUE) /\ orphans' = OrphansLeft(b)
    BY <1>5 DEF WriteComplete
  <2>2. Head(posted).by[b] \in Peers
    BY <2>1, WriteReportTyped
  <2> QED BY <2>1, <2>2, PeerInfoTyped DEF OrphanType
<1>6. CASE DiskErrorOnWrite
  <2>1. PICK b \in Blocks :
          /\ WriteReport(b, FALSE)
          /\ \/ \E C : orphans' = Orphaned(OrphansLeft(b), C, posted')
             \/ orphans' = OrphansLeft(b)
    BY <1>6 DEF DiskErrorOnWrite, Drop
  <2>2. Head(posted).by[b] \in Peers /\ posted' \in Seq(Completions)
    BY <2>1, WriteReportTyped
  <2>3. OrphansLeft(b) \in [Peers -> [Blocks -> Nat]]
    BY <2>2, PeerInfoTyped
  <2>4. CASE orphans' = OrphansLeft(b)
    BY <2>3, <2>4 DEF OrphanType
  <2>5. CASE \E C : orphans' = Orphaned(OrphansLeft(b), C, posted')
    <3>1. PICK C : orphans' = Orphaned(OrphansLeft(b), C, posted')
      BY <2>5
    <3>2. Orphaned(OrphansLeft(b), C, posted') \in [Peers -> [Blocks -> Nat]]
      BY <2>2, <2>3, OrphanedTyped
    <3> QED BY <3>1, <3>2 DEF OrphanType
  <2> QED BY <2>1, <2>4, <2>5
<1>7. CASE PieceFailed
  BY <1>1, <1>7 DEF PieceFailed
<1>8. CASE DiskErrorOnHash
  BY <1>1, <1>8 DEF DiskErrorOnHash
<1> QED BY <1>3, <1>4, <1>5, <1>6, <1>7, <1>8 DEF Next, Complete

----------------------------------------------------------------------------
(* Whatever the disk does                                                  *)

\* A picker of its own for what a handler works on.
LEMMA WithPicker ==
    ASSUME Ready(Here), NEW pk, Counted(pk)
    PROVE  LET s == [Here EXCEPT !.picker = pk] IN
           /\ Ready(s) /\ s.picker = pk
           /\ \A p \in Peers : Asked(s, p) = Asked(Here, p)
<1> DEFINE s == [Here EXCEPT !.picker = pk]
<1>1. pk \in Pickers
  BY DEF Counted
<1>2. s \in Handlers /\ s.picker = pk /\ s.rq = Here.rq /\ s.dq = Here.dq
  BY <1>1, Parts DEF Ready
<1> HIDE DEF s
<1>3. Ready(s)
  BY <1>2 DEF Ready, OnceIn
<1>4. \A p \in Peers : Asked(s, p) = Asked(Here, p)
  BY <1>2 DEF Asked
<1> USE DEF s
<1> QED BY <1>2, <1>3, <1>4

\* Dropping the peers C leaves nothing of theirs behind.
LEMMA DropReady ==
    ASSUME NEW s, Ready(s), NEW C \in SUBSET Peers, NEW C1, Silent, conn \subseteq Peers,
           \A p \in Peers : Asked(s, p) = Asked(Here, p), C1 = conn \ C, conn' = C1,
           Becomes(Disconnected(s, C))
    PROVE  /\ Ready(Here') /\ Moves(s.picker, picker')
           /\ Numbered(s) => Numbered(Here')
           /\ \A p \in Peers \ conn' : Asked(Here', p) = {}
<1> DEFINE t == Disconnected(s, C)
<1>1. /\ Leads(s, t, {})
      /\ \A p \in C : Asked(t, p) = {}
      /\ \A p \in Peers \ C : Asked(t, p) = Asked(s, p)
  BY DisconnectedLeads
<1>2. Becomes(t)
  OBVIOUS
<1> HIDE DEF t
<1>3. Ready(t)
  BY <1>1, LeadsChain
<1>4. Here' = t /\ picker' = t.picker
  BY <1>2, <1>3, Lands DEF Ready, Becomes
<1>5. \A p \in Peers \ conn' : Asked(t, p) = {}
  BY <1>1 DEF Silent
<1> QED BY <1>1, <1>3, <1>4, <1>5 DEF Leads

\* A failed write, with each of the ways handle_disk_error takes.
LEMMA DiskErrorOnWriteReady ==
    ASSUME TInv, DiskErrorOnWrite
    PROVE  Ready(Here') /\ \A p \in Peers \ conn' : Asked(Here', p) = {}
<1> USE DEF TInv
<1>1. PICK b \in Blocks :
        LET s == [Here EXCEPT !.picker = WriteFailed(@, b)] IN
        \/ \E C \in SUBSET conn : Drop(s, C, OrphansLeft(b), posted')
        \/ /\ Becomes(IF uploadMode THEN s ELSE CancelledAll(s, conn, parole))
           /\ UNCHANGED conn
  BY DEF DiskErrorOnWrite
<1> DEFINE pk == WriteFailed(picker, b)
           s == [Here EXCEPT !.picker = pk]
<1>2. Counted(pk)
  BY WriteFailedCounted, Lands DEF Ready
<1>3. Ready(s) /\ \A p \in Peers : Asked(s, p) = Asked(Here, p)
  <2> HIDE DEF pk
  <2> QED BY <1>2, WithPicker
<1>4. s = [Here EXCEPT !.picker = WriteFailed(@, b)]
  BY Lands
<1>5. \/ \E C \in SUBSET conn : Drop(s, C, OrphansLeft(b), posted')
      \/ /\ Becomes(IF uploadMode THEN s ELSE CancelledAll(s, conn, parole))
         /\ UNCHANGED conn
  BY <1>1, <1>4
<1> HIDE DEF s
<1>6. conn \in SUBSET Peers
  BY DEF PeerType
<1>7. CASE \E C \in SUBSET conn : Drop(s, C, OrphansLeft(b), posted')
  <2>1. PICK C \in SUBSET conn : Drop(s, C, OrphansLeft(b), posted')
    BY <1>7
  <2>2. C \in SUBSET Peers
    BY <1>6
  <2>3. conn' = conn \ C /\ Becomes(Disconnected(s, C))
    BY <2>1 DEF Drop
  <2> QED BY <1>3, <1>6, <2>2, <2>3, DropReady
<1>8. CASE /\ Becomes(IF uploadMode THEN s ELSE CancelledAll(s, conn, parole))
            /\ UNCHANGED conn
  <2> DEFINE t == IF uploadMode THEN s ELSE CancelledAll(s, conn, parole)
  <2>1. Leads(s, t, {})
    BY <1>3, <1>6, LeadsNowhere, CancelledAllLeads
  <2>2. Becomes(t) /\ conn' = conn
    BY <1>8
  <2> HIDE DEF t
  <2>3. Ready(t)
    BY <1>3, <2>1, LeadsChain
  <2>4. Here' = t
    BY <2>2, <2>3, Lands DEF Ready
  <2>5. \A p \in Peers \ conn' : Asked(t, p) = {}
    BY <1>3, <2>1, <2>2 DEF Leads, Silent
  <2> QED BY <2>3, <2>4, <2>5
<1> QED BY <1>5, <1>7, <1>8

\* A piece that starts over, with the peers C still connected.
LEMMA StartsOver ==
    ASSUME NEW s, Ready(s), ~s.picker.have, NEW C \in SUBSET Peers, conn' = C,
           \A p \in Peers \ C : Asked(s, p) = {},
           NEW last \in Downloaders(s, C), Becomes(Restored(s, C, last))
    PROVE  /\ Ready(Here') /\ Exact(picker') /\ Numbered(Here') /\ ~picker'.have
           /\ \A b \in Blocks : ~Arrived(picker', b)
           /\ \A p \in Peers \ conn' : Asked(Here', p) = {}
<1> DEFINE t == Restored(s, C, last)
<1>1. /\ Ready(t) /\ Exact(t.picker) /\ ~t.picker.have
      /\ t.rq = s.rq /\ t.dq = s.dq
      /\ \A b \in Blocks : ~Arrived(t.picker, b)
      /\ Numbered(t)
  BY RestoredReady
<1>2. Becomes(t)
  OBVIOUS
<1> HIDE DEF t
<1>3. Here' = t /\ picker' = t.picker
  BY <1>1, <1>2, Lands DEF Ready, Becomes
<1>4. \A p \in Peers \ C : Asked(t, p) = {}
  BY <1>1 DEF Asked
<1> QED BY <1>1, <1>3, <1>4

\* A piece that fails its hash check starts over.
LEMMA PieceFailedReady ==
    ASSUME TInv, PieceFailed
    PROVE  /\ Ready(Here') /\ Exact(picker') /\ Numbered(Here') /\ ~picker'.have
           /\ \A b \in Blocks : ~Arrived(picker', b)
           /\ \A p \in Peers \ conn' : Asked(Here', p) = {}
           /\ conn' \subseteq conn
<1> USE DEF TInv
<1>1. PICK B \in SUBSET Contributors :
        /\ conn' = conn \ B
        /\ LET s == Disconnected(Here, B \cap conn) IN
           \E last \in Downloaders(s, conn \ B) : Becomes(Restored(s, conn \ B, last))
  BY DEF PieceFailed
<1> DEFINE s == Disconnected(Here, B \cap conn)
<1>2. conn \in SUBSET Peers /\ B \cap conn \in SUBSET Peers /\ conn \ B \in SUBSET Peers
  BY DEF PeerType
<1>3. /\ Leads(Here, s, {})
      /\ \A p \in B \cap conn : Asked(s, p) = {}
      /\ \A p \in Peers \ (B \cap conn) : Asked(s, p) = Asked(Here, p)
  BY <1>2, DisconnectedLeads
<1>4. PICK last \in Downloaders(s, conn \ B) : Becomes(Restored(s, conn \ B, last))
  BY <1>1
<1> HIDE DEF s
<1>5. Ready(s)
  BY <1>3, LeadsChain
<1>6. ~s.picker.have
  <2>1. picker.downloading /\ Counted(picker)
    BY Lands DEF PieceFailed, IsPieceFinished, Ready
  <2> QED BY <1>3, <2>1, Lands DEF Leads, Moves, Counted
<1>7. \A p \in Peers \ (conn \ B) : Asked(s, p) = {}
  BY <1>2, <1>3 DEF Silent
<1>8. conn' = conn \ B /\ conn' \subseteq conn
  BY <1>1
<1> QED BY <1>2, <1>4, <1>5, <1>6, <1>7, <1>8, StartsOver

\* A piece that cannot be read starts over.
LEMMA DiskErrorOnHashReady ==
    ASSUME TInv, DiskErrorOnHash
    PROVE  /\ Ready(Here') /\ \A p \in Peers \ conn' : Asked(Here', p) = {}
           /\ conn' \subseteq conn
           /\ IsPieceFinished(picker) => /\ Exact(picker') /\ Numbered(Here') /\ ~picker'.have
                                         /\ \A b \in Blocks : ~Arrived(picker', b)
           /\ ~IsPieceFinished(picker) => /\ Moves(picker, picker')
                                          /\ Numbered(Here) => Numbered(Here')
<1> USE DEF TInv
<1>1. PICK C \in {{}, conn} :
        LET s == Disconnected(Here, C) IN
        /\ conn' = conn \ C
        /\ IF IsPieceFinished(s.picker)
           THEN \E last \in Downloaders(s, conn \ C) : Becomes(Restored(s, conn \ C, last))
           ELSE Becomes(s)
  BY DEF DiskErrorOnHash
<1> DEFINE s == Disconnected(Here, C)
<1>2. conn \in SUBSET Peers /\ C \in SUBSET Peers /\ conn \ C \in SUBSET Peers
  BY DEF PeerType
<1>3. /\ Leads(Here, s, {})
      /\ \A p \in C : Asked(s, p) = {}
      /\ \A p \in Peers \ C : Asked(s, p) = Asked(Here, p)
  BY <1>2, DisconnectedLeads
<1>4. /\ conn' = conn \ C /\ conn' \subseteq conn
      /\ IF IsPieceFinished(s.picker)
         THEN \E last \in Downloaders(s, conn \ C) : Becomes(Restored(s, conn \ C, last))
         ELSE Becomes(s)
  BY <1>1
<1> HIDE DEF s
<1>5. Ready(s)
  BY <1>3, LeadsChain
<1>6. Moves(picker, s.picker) /\ Counted(picker)
  BY <1>3, Lands DEF Leads, Ready
<1>7. IsPieceFinished(s.picker) <=> IsPieceFinished(picker)
  BY <1>6, FinishedArrived DEF Moves, Arrived
<1>8. \A p \in Peers \ (conn \ C) : Asked(s, p) = {}
  BY <1>2, <1>3 DEF Silent
<1>9. CASE IsPieceFinished(picker)
  <2>1. PICK last \in Downloaders(s, conn \ C) : Becomes(Restored(s, conn \ C, last))
    BY <1>4, <1>7, <1>9
  <2>2. ~s.picker.have
    BY <1>6, <1>9 DEF Moves, Counted, IsPieceFinished
  <2> QED BY <1>2, <1>4, <1>5, <1>8, <1>9, <2>1, <2>2, StartsOver
<1>10. CASE ~IsPieceFinished(picker)
  <2>1. Becomes(s)
    BY <1>4, <1>7, <1>10
  <2>2. Here' = s /\ picker' = s.picker
    BY <1>5, <2>1, Lands DEF Ready, Becomes
  <2>3. \A p \in Peers \ conn' : Asked(Here', p) = {}
    BY <1>4, <1>8, <2>2
  <2>4. Numbered(Here) => Numbered(Here')
    BY <1>3, <2>2 DEF Leads
  <2> QED BY <1>4, <1>5, <1>6, <1>10, <2>2, <2>3, <2>4
<1> QED BY <1>9, <1>10

\* A completion that only changes the picker.
LEMMA PickerOnly ==
    ASSUME Ready(Here), NEW pk, Counted(pk), picker' = pk, UNCHANGED <<rq, dq, cancelled>>
    PROVE  /\ Ready(Here') /\ Here'.picker = pk
           /\ \A p \in Peers : Asked(Here', p) = Asked(Here, p)
<1>1. Here' = [Here EXCEPT !.picker = pk]
  BY DEF Here
<1> QED BY <1>1, WithPicker

\* piece_passed: the piece is erased, and we have it.
LEMMA PassedCounted ==
    ASSUME NEW pk, Counted(pk)
    PROVE  LET q == [Erased(pk) EXCEPT !.have = TRUE] IN
           /\ Counted(q) /\ Exact(q) /\ q.have
           /\ \A b \in Blocks : ~Arrived(q, b)
<1> DEFINE e == Erased(pk)
           q == [e EXCEPT !.have = TRUE]
<1>1. /\ Counted(e) /\ Exact(e) /\ ~e.downloading /\ e.state = [b \in Blocks |-> "none"]
  BY ErasedCounted DEF Counted
<1> HIDE DEF e
<1>2. /\ q \in Pickers /\ q.have /\ ~q.downloading /\ q.state = e.state
      /\ q.requested = e.requested /\ q.writing = e.writing /\ q.finished = e.finished
  BY <1>1 DEF Counted, Pickers
<1> HIDE DEF q
<1>3. Counted(q) /\ Exact(q) /\ \A b \in Blocks : ~Arrived(q, b)
  BY <1>1, <1>2 DEF Counted, Exact, Arrived
<1> USE DEF q, e
<1> QED BY <1>2, <1>3

\* What every step leaves for the next handler.
LEMMA HereTyped ==
    ASSUME TInv, Next
    PROVE  Ready(Here') /\ \A p \in Peers \ conn' : Asked(Here', p) = {}
<1> USE DEF TInv
<1>1. ASSUME UNCHANGED <<picker, rq, dq, cancelled>>, conn \subseteq conn'
      PROVE  Ready(Here') /\ \A p \in Peers \ conn' : Asked(Here', p) = {}
  <2>1. Here' = Here
    BY <1>1 DEF Here
  <2> QED BY <1>1, <2>1 DEF Silent
<1>2. ASSUME NEW P \in SUBSET conn, Leads(Here, Here', P), conn' = conn
      PROVE  Ready(Here') /\ \A p \in Peers \ conn' : Asked(Here', p) = {}
  BY <1>2, LeadsChain DEF Leads, Silent
<1>3. CASE \E p \in Peers : Peer(p)
  <2>1. PICK p \in Peers : Peer(p)
    BY <1>3
  <2>2. CASE Queues(p)
    BY <1>2, <2>2, QueuesLead
  <2>3. CASE \E good \in BOOLEAN, skipped \in SUBSET Blocks : IncomingPiece(p, good, skipped)
    <3>1. PICK good \in BOOLEAN, skipped \in SUBSET Blocks : IncomingPiece(p, good, skipped)
      BY <2>3
    <3>2. conn' = conn
      BY <3>1 DEF IncomingPiece, Peerless
    <3>3. CASE Leads(Here, Here', {})
      BY <1>2, <3>2, <3>3
    <3>4. CASE Delivers(p, receiving[p], good)
      BY <3>2, <3>4 DEF Delivers, Silent
    <3> QED BY <3>1, <3>3, <3>4, IncomingPieceSteps DEF PeerType
  <2>4. CASE Disconnect(p)
    <3>1. Leads(Here, Here', {}) /\ Asked(Here', p) = {} /\ conn' = conn \ {p}
      BY <2>4, DisconnectLeads DEF Disconnect
    <3> QED BY <3>1, LeadsChain DEF Leads, Silent
  <2>5. CASE Connect(p)
    BY <1>1, <2>5 DEF Connect
  <2>6. CASE ErasePeer(p)
    <3>1. Counted(picker') /\ UNCHANGED <<rq, dq, cancelled, conn>>
      BY <2>6, ClearPeerCounted, Lands DEF ErasePeer, Ready
    <3> QED BY <3>1, PickerOnly DEF Silent
  <2> QED BY <2>1, <2>2, <2>3, <2>4, <2>5, <2>6 DEF Peer, Queues
<1>4. CASE LeaveUploadMode \/ AsyncVerifyPiece \/ Disk \/ Flush \/ StaleVerdict
  BY <1>1, <1>4 DEF LeaveUploadMode, AsyncVerifyPiece, Disk, WriteJob, HashJob, PostCompletions,
                    Flush, StaleVerdict, network
<1>5. CASE WriteComplete
  <2>1. PICK b \in Blocks : WriteReport(b, TRUE) /\ picker' = MarkFinished(picker, b, PeerInfo(b))
    BY <1>5 DEF WriteComplete
  <2>2. PeerInfo(b) \in Peers \cup {NoPeer}
    BY <2>1, WriteReportTyped, PeerInfoTyped
  <2>3. Counted(picker')
    BY <2>1, <2>2, MarkFinishedCounted, Lands DEF Ready
  <2>4. UNCHANGED <<rq, dq, cancelled, conn>>
    BY <1>5 DEF WriteComplete
  <2> QED BY <2>3, <2>4, PickerOnly DEF Silent
<1>6. CASE DiskErrorOnWrite
  BY <1>6, DiskErrorOnWriteReady
<1>7. CASE PiecePassed
  <2>1. Counted(picker') /\ UNCHANGED <<rq, dq, cancelled, conn>>
    BY <1>7, PassedCounted, Lands DEF PiecePassed, Ready
  <2> QED BY <2>1, PickerOnly DEF Silent
<1>8. CASE PieceFailed
  BY <1>8, PieceFailedReady
<1>9. CASE DiskErrorOnHash
  BY <1>9, DiskErrorOnHashReady
<1> QED BY <1>3, <1>4, <1>5, <1>6, <1>7, <1>8, <1>9 DEF Next, Complete

\* The types of what is kept of the peers.
LEMMA PeerTyped ==
    ASSUME TInv, Next
    PROVE  PeerType'
<1> USE DEF TInv, PeerType
<1>0. NoBlock \notin Blocks /\ bad \in Nat /\ MaxBad \in Nat
  BY PieceAssumption DEF Blocks, NoBlock
<1>1. ASSUME NEW C, conn' = conn \ C,
             receiving' = [p \in Peers |-> IF p \in C THEN NoBlock ELSE receiving[p]]
      PROVE  receiving' \in [Peers -> Blocks \cup {NoBlock}] /\ conn' \subseteq Peers
  BY <1>1
<1>2. Contributors \subseteq Peers
  BY Lands, Parts DEF Contributors, Downloaded, Ready, Pickers
<1>3. CASE \E p \in Peers : Peer(p)
  <2>1. PICK p \in Peers : Peer(p)
    BY <1>3
  <2>2. CASE Queues(p)
    <3>1. receiving' \in [Peers -> Blocks \cup {NoBlock}]
      BY <2>2 DEF Queues, RequestABlock, SendBlockRequest, StartReceivePiece, IncomingReject,
                  IncomingChoke, SnubPeer
    <3> QED BY <2>2, <3>1, QueuesLead
  <2>3. CASE \E good \in BOOLEAN, skipped \in SUBSET Blocks : IncomingPiece(p, good, skipped)
    <3>1. PICK good \in BOOLEAN, skipped \in SUBSET Blocks : IncomingPiece(p, good, skipped)
      BY <2>3
    <3>2. /\ receiving' = [receiving EXCEPT ![p] = NoBlock]
          /\ bad' = (IF good THEN bad ELSE bad + 1) /\ bad' <= MaxBad
          /\ net = "idle" /\ UNCHANGED Peerless
      BY <3>1 DEF IncomingPiece, Idle
    <3>3. net' \in {"idle", "batch", "verify"}
      BY <3>1, <3>2, IncomingPieceSteps DEF Delivers
    <3>4. bad' \in 0 .. MaxBad
      BY <1>0, <3>2
    <3> QED BY <3>2, <3>3, <3>4 DEF Peerless
  <2>4. CASE Disconnect(p) \/ Connect(p) \/ ErasePeer(p)
    BY <2>4 DEF Disconnect, Connect, ErasePeer
  <2> QED BY <2>1, <2>2, <2>3, <2>4 DEF Peer, Queues
<1>4. CASE LeaveUploadMode \/ AsyncVerifyPiece \/ Disk \/ Flush
  BY <1>4 DEF LeaveUploadMode, AsyncVerifyPiece, Disk, WriteJob, HashJob, PostCompletions,
              Flush, network
<1>5. CASE Complete
  <2>1. bad' = bad /\ net' \in {"idle", "batch", "verify"}
    BY <1>5 DEF Complete, WriteComplete, DiskErrorOnWrite, StaleVerdict, PiecePassed, PieceFailed,
                DiskErrorOnHash, WriteReport, Verdict, Handled, Completion
  <2>2. CASE WriteComplete \/ StaleVerdict
    BY <2>1, <2>2 DEF WriteComplete, StaleVerdict, network
  <2>3. CASE DiskErrorOnWrite
    <3>1. receiving' \in [Peers -> Blocks \cup {NoBlock}] /\ conn' \subseteq Peers
      BY <1>1, <2>3 DEF DiskErrorOnWrite, Drop
    <3>2. uploadMode' \in BOOLEAN /\ UNCHANGED <<banned, parole>>
      BY <2>3 DEF DiskErrorOnWrite
    <3> QED BY <2>1, <3>1, <3>2
  <2>4. CASE PiecePassed
    BY <2>1, <2>4 DEF PiecePassed
  <2>5. CASE PieceFailed
    BY <1>1, <1>2, <2>1, <2>5 DEF PieceFailed
  <2>6. CASE DiskErrorOnHash
    BY <1>1, <2>1, <2>6 DEF DiskErrorOnHash
  <2> QED BY <1>5, <2>2, <2>3, <2>4, <2>5, <2>6 DEF Complete
<1> QED BY <1>3, <1>4, <1>5 DEF Next

\* Nothing has happened yet.
LEMMA InitTyped ==
    ASSUME Init
    PROVE  TInv /\ Exact(picker) /\ Numbered(Here)
<1>1. picker \in Pickers /\ \A b \in Blocks : picker.state[b] = "none"
  BY DEF Init, Pickers, BlockStates
<1>2. picker.state \in [Blocks -> BlockStates]
  BY <1>1 DEF Pickers
<1>3. /\ Count(picker.state, "requested") = 0 /\ Count(picker.state, "writing") = 0
      /\ Count(picker.state, "finished") = 0
  BY <1>1, <1>2, CountAll DEF BlockStates
<1>4. Counted(picker) /\ Exact(picker)
  BY <1>1, <1>3 DEF Init, Counted, Exact
<1>5. /\ rq = [p \in Peers |-> {}] /\ dq = [p \in Peers |-> [b \in Blocks |-> "no"]]
      /\ cancelled = {}
  BY DEF Init
<1>6. Ready(Here)
  BY <1>1, <1>4, <1>5 DEF Ready, Here, Handlers, OnceIn, Marks
<1>7. \A p \in Peers : Asked(Here, p) = {}
  BY <1>5 DEF Asked, Here
<1>8. Numbered(Here)
  <2>1. \A b \in Blocks : Asking(Here, Peers, b) = {}
    BY <1>7 DEF Asking
  <2>2. \A b \in Blocks : picker.num_peers[b] = 0
    BY DEF Init
  <2> QED BY <1>1, <2>1, <2>2, FS_EmptySet, Lands DEF Numbered
<1>9. PipeType /\ PeerType
  <2>1. 0 \in 0 .. MaxFaults /\ 0 \in 0 .. MaxBad
    BY PieceAssumption
  <2>2. <<>> \in Seq(Jobs) /\ <<>> \in Seq(Completions)
    BY EmptySeq
  <2>3. PipeType
    BY <2>1, <2>2, Zenon DEF Init, PipeType
  <2> QED BY <2>1, <2>3 DEF Init, PeerType
<1>10. OrphanType
  BY DEF Init, OrphanType
<1> QED BY <1>4, <1>6, <1>7, <1>8, <1>9, <1>10 DEF TInv, Silent

\* Stuttering changes none of it.
LEMMA SameTyped ==
    ASSUME TInv, UNCHANGED vars
    PROVE  TInv'
BY DEF TInv, PipeType, PeerType, OrphanType, Silent, Here, vars, network, storage

\* The types, and what follows from what is counted, whatever the disk does.
LEMMA TypedAlways == Spec => []TInv
<1>1. Init => TInv
  BY InitTyped
<1>2. TInv /\ [Next]_vars => TInv'
  <2>1. ASSUME TInv, Next
        PROVE  TInv'
    BY <2>1, HereTyped, PipeTyped, PeerTyped, OrphansTyped DEF TInv, Silent
  <2> QED BY <2>1, SameTyped
<1> QED BY <1>1, <1>2, PTL DEF Spec

\* The variables have their types: with any number of peers, blocks, bad blocks and
\* disk faults no counter of the picker is ever negative.
THEOREM TypeCorrect == Spec => []TypeOK
<1>1. TInv => TypeOK
  BY Lands, Parts DEF TInv, TypeOK, Ready, PipeType, PeerType, OrphanType, Pickers, BlockStates, Marks
<1> QED BY <1>1, TypedAlways, PTL

\* No peer is asked for a block it was already asked for.
THEOREM NeverAskedTwice == Spec => []AskedOnce
<1>1. TInv => AskedOnce
  BY Lands, Parts DEF TInv, AskedOnce, Ready, OnceIn, Entries
<1> QED BY <1>1, TypedAlways, PTL

----------------------------------------------------------------------------
(* As long as no write fails                                               *)

\* A job or a completion is about the write of block b.
Carries(c, b) ==
    c.kind = "write" /\ IF "block" \in DOMAIN c THEN c.block = b ELSE b \in DOMAIN c.by

On(s, b) == \E i \in DOMAIN s : Carries(s[i], b)

\* Every write is in s once, and nothing comes after a hash.
Tidy(s) ==
    /\ \A i, j \in DOMAIN s, b \in Blocks : Carries(s[i], b) /\ Carries(s[j], b) => i = j
    /\ \A i \in DOMAIN s : s[i].kind = "hash" => i = Len(s)

\* A write under way is in one place, from the disk thread's jobs to the batch.
Flow ==
    /\ Tidy(jobs) /\ Tidy(queued) /\ Tidy(posted)
    /\ \A b \in Blocks :
         /\ ~(On(jobs, b) /\ b \in Cached) /\ ~(On(jobs, b) /\ On(queued, b))
         /\ ~(On(jobs, b) /\ On(posted, b)) /\ ~(b \in Cached /\ On(queued, b))
         /\ ~(b \in Cached /\ On(posted, b)) /\ ~(On(queued, b) /\ On(posted, b))
    /\ \A b \in Blocks : picker.state[b] = "writing" <=>
                           On(jobs, b) \/ b \in Cached \/ On(queued, b) \/ On(posted, b)

\* The hash check of a complete piece is under way, behind every write.
Behind ==
    /\ Hashing(posted) => queued = <<>> /\ Cached = {} /\ jobs = <<>> /\ net # "verify"
    /\ Hashing(queued) => Cached = {} /\ jobs = <<>> /\ net # "verify"
    /\ Hashing(jobs) => net # "verify"
    /\ (\A b \in Blocks : Arrived(picker, b)) <=>
         net = "verify" \/ Hashing(jobs) \/ Hashing(queued) \/ Hashing(posted)

\* What a completion says is so on the disk d.
Honest(c, d) ==
    /\ c.kind = "write" => c.ok /\ \A b \in DOMAIN c.by : d[b].by = c.by[b]
    /\ c.kind = "hash" /\ c.ret = "pass" => \A b \in Blocks : d[b].good

AllHonest(s, d) == \A i \in DOMAIN s : Honest(s[i], d)

Told ==
    /\ AllHonest(queued, disk) /\ AllHonest(posted, disk)
    /\ \A b \in Blocks : picker.state[b] = "finished" => picker.peer[b] \in {disk[b].by, NoPeer}
    /\ picker.have => \A b \in Blocks : disk[b].good

\* The inductive invariant.
GInv == TInv /\ (faults = 0 => Exact(picker) /\ Numbered(Here) /\ Flow /\ Behind /\ Told)

\* What the jobs and the completions carry.
LEMMA Carried ==
    /\ \A j \in WriteJobs : \A b : Carries(j, b) <=> b = j.block
    /\ \A c \in WriteReports : \A b : Carries(c, b) <=> b \in DOMAIN c.by
    /\ \A c \in Jobs \cup Completions : c.kind = "hash" => \A b : ~Carries(c, b)
<1>1. \A j \in WriteJobs : j.kind = "write" /\ "block" \in DOMAIN j
  BY DEF WriteJobs
<1>2. \A c \in WriteReports : c.kind = "write" /\ "block" \notin DOMAIN c
  BY DEF WriteReports
<1> QED BY <1>1, <1>2 DEF Carries

\* A sequence with nothing in it.
LEMMA NothingOn ==
    ~Hashing(<<>>) /\ Tidy(<<>>) /\ (\A b : ~On(<<>>, b)) /\ \A d : AllHonest(<<>>, d)
BY DEF Hashing, Tidy, On, AllHonest

\* Putting something at the end.
LEMMA AppendOn ==
    ASSUME NEW T, NEW s \in Seq(T), NEW e \in T,
           Tidy(s), ~Hashing(s), \A b \in Blocks : ~(Carries(e, b) /\ On(s, b))
    PROVE  LET t == Append(s, e) IN
           /\ Tidy(t)
           /\ Hashing(t) <=> e.kind = "hash"
           /\ \A b : On(t, b) <=> On(s, b) \/ Carries(e, b)
           /\ \A d : AllHonest(t, d) <=> AllHonest(s, d) /\ Honest(e, d)
<1> DEFINE t == Append(s, e)
           n == Len(s)
<1>1. /\ n \in Nat /\ DOMAIN s = 1 .. n /\ Len(t) = n + 1 /\ DOMAIN t = 1 .. n + 1
      /\ \A i \in 1 .. n : t[i] = s[i]
      /\ t[n + 1] = e
  BY LenProperties, AppendProperties
<1> HIDE DEF t, n
<1>2. \A i : i \in DOMAIN t <=> i \in DOMAIN s \/ i = n + 1
  BY <1>1
<1>3. n + 1 \notin DOMAIN s
  BY <1>1
<1>4. \A i \in DOMAIN s : s[i].kind # "hash"
  BY DEF Hashing
<1>5. \A i \in DOMAIN t : t[i].kind = "hash" => i = Len(t)
  BY <1>1, <1>2, <1>4
<1>6. \A i, j \in DOMAIN t, b \in Blocks : Carries(t[i], b) /\ Carries(t[j], b) => i = j
  <2>1. ASSUME NEW i \in DOMAIN t, NEW j \in DOMAIN t, NEW b \in Blocks,
               Carries(t[i], b), Carries(t[j], b)
        PROVE  i = j
    <3>1. CASE i \in DOMAIN s /\ j \in DOMAIN s
      BY <1>1, <2>1, <3>1 DEF Tidy
    <3>2. CASE i \in DOMAIN s /\ j = n + 1
      BY <1>1, <2>1, <3>2 DEF On
    <3>3. CASE i = n + 1 /\ j \in DOMAIN s
      BY <1>1, <2>1, <3>3 DEF On
    <3> QED BY <1>2, <3>1, <3>2, <3>3
  <2> QED BY <2>1
<1>7. \A b : On(t, b) <=> On(s, b) \/ Carries(e, b)
  BY <1>1, <1>2 DEF On
<1>8. \A d : AllHonest(t, d) <=> AllHonest(s, d) /\ Honest(e, d)
  BY <1>1, <1>2 DEF AllHonest
<1>9. Hashing(t) <=> e.kind = "hash"
  BY <1>1, <1>2, <1>4 DEF Hashing
<1>10. Tidy(t)
  BY <1>5, <1>6 DEF Tidy
<1> QED BY <1>7, <1>8, <1>9, <1>10 DEF t

\* Taking what is at the head.
LEMMA TailOn ==
    ASSUME NEW T, NEW s \in Seq(T), s # <<>>, Tidy(s)
    PROVE  LET t == Tail(s) IN
           /\ Tidy(t)
           /\ Hashing(t) <=> Hashing(s) /\ Head(s).kind # "hash"
           /\ Head(s).kind = "hash" => t = <<>> /\ Hashing(s)
           /\ \A b \in Blocks : On(t, b) <=> On(s, b) /\ ~Carries(Head(s), b)
           /\ \A b : Carries(Head(s), b) => On(s, b)
           /\ \A d : AllHonest(s, d) => AllHonest(t, d) /\ Honest(Head(s), d)
<1> DEFINE t == Tail(s)
           n == Len(s)
           h == Head(s)
<1>1. /\ n \in Nat /\ n > 0 /\ DOMAIN s = 1 .. n /\ Len(t) = n - 1 /\ DOMAIN t = 1 .. n - 1
      /\ \A i \in 1 .. n - 1 : t[i] = s[i + 1]
      /\ h = s[1]
      /\ t \in Seq(T)
  <2>1. n \in Nat \ {0} /\ DOMAIN s = 1 .. n
    BY EmptySeq, LenProperties
  <2>2. h = s[1]
    OBVIOUS
  <2>3. t \in Seq(T) /\ Len(t) = n - 1 /\ \A i \in 1 .. Len(t) : t[i] = s[i + 1]
    BY HeadTailProperties
  <2>4. DOMAIN t = 1 .. Len(t)
    BY <2>3, LenProperties
  <2> QED BY <2>1, <2>2, <2>3, <2>4
<1>2. n = 1 => t = <<>>
  <2>1. n = 1 => Len(t) = 0
    BY <1>1
  <2> QED BY <1>1, <2>1, EmptySeq
<1> HIDE DEF t, n, h
<1>3. /\ \A i \in DOMAIN t : i + 1 \in DOMAIN s /\ t[i] = s[i + 1] /\ i + 1 # 1
      /\ \A i \in DOMAIN s : i = 1 \/ (i - 1 \in DOMAIN t /\ s[i] = t[i - 1])
      /\ 1 \in DOMAIN s
  BY <1>1
<1>4. h.kind = "hash" => n = 1
  BY <1>1, <1>3 DEF Tidy, n
<1>5. \A i \in DOMAIN t : t[i].kind = "hash" => i = Len(t)
  BY <1>1, <1>3 DEF Tidy, n
<1>6. \A i, j \in DOMAIN t, b \in Blocks : Carries(t[i], b) /\ Carries(t[j], b) => i = j
  <2>1. ASSUME NEW i \in DOMAIN t, NEW j \in DOMAIN t, NEW b \in Blocks,
               Carries(t[i], b), Carries(t[j], b)
        PROVE  i = j
    <3>1. i + 1 = j + 1
      BY <1>3, <2>1 DEF Tidy
    <3>2. i \in Nat /\ j \in Nat
      BY <1>1
    <3> QED BY <3>1, <3>2
  <2> QED BY <2>1
<1>7. \A b : Carries(h, b) => On(s, b)
  BY <1>1, <1>3 DEF On
<1>8. \A b : On(s, b) => On(t, b) \/ Carries(h, b)
  BY <1>1, <1>3 DEF On
<1>9. \A b : On(t, b) => On(s, b)
  BY <1>3 DEF On
<1>10. \A b \in Blocks : On(t, b) => ~Carries(h, b)
  BY <1>1, <1>3 DEF On, Tidy
<1>11. \A d : AllHonest(s, d) => AllHonest(t, d) /\ Honest(h, d)
  BY <1>1, <1>3 DEF AllHonest
<1>12. h.kind = "hash" => t = <<>> /\ Hashing(s)
  BY <1>1, <1>2, <1>3, <1>4 DEF Hashing
<1>13. Hashing(t) <=> Hashing(s) /\ h.kind # "hash"
  <2>1. Hashing(t) => Hashing(s)
    BY <1>3 DEF Hashing
  <2>2. Hashing(t) => h.kind # "hash"
    BY <1>12, NothingOn
  <2>3. Hashing(s) /\ h.kind # "hash" => Hashing(t)
    BY <1>1, <1>3 DEF Hashing
  <2> QED BY <2>1, <2>2, <2>3
<1>14. Tidy(t)
  BY <1>5, <1>6 DEF Tidy
<1> QED BY <1>7, <1>8, <1>9, <1>10, <1>11, <1>12, <1>13, <1>14 DEF t, h

\* Changing one element, which carries no more than it did.
LEMMA ExceptOn ==
    ASSUME NEW T, NEW s \in Seq(T), NEW n \in 1 .. Len(s), NEW e \in T, Tidy(s),
           e.kind = s[n].kind, \A b : Carries(e, b) => Carries(s[n], b)
    PROVE  LET t == [s EXCEPT ![n] = e] IN
           /\ t \in Seq(T) /\ Len(t) = Len(s) /\ Tidy(t)
           /\ Hashing(t) <=> Hashing(s)
           /\ \A b \in Blocks : On(t, b) <=> On(s, b) /\ (Carries(s[n], b) => Carries(e, b))
           /\ \A d : AllHonest(s, d) /\ Honest(e, d) => AllHonest(t, d)
           /\ \A d : AllHonest(s, d) => Honest(s[n], d)
<1> DEFINE t == [s EXCEPT ![n] = e]
<1>1. /\ t \in Seq(T) /\ Len(t) = Len(s) /\ n \in DOMAIN s /\ DOMAIN s = DOMAIN t
      /\ \A i \in DOMAIN s : t[i] = IF i = n THEN e ELSE s[i]
  BY ExceptSeq, LenProperties
<1> HIDE DEF t
<1>2. \A i \in DOMAIN s : t[i].kind = s[i].kind /\ \A b : Carries(t[i], b) => Carries(s[i], b)
  BY <1>1
<1>3. Hashing(t) <=> Hashing(s)
  BY <1>1, <1>2 DEF Hashing
<1>4. \A i, j \in DOMAIN t, b \in Blocks : Carries(t[i], b) /\ Carries(t[j], b) => i = j
  BY <1>1, <1>2 DEF Tidy
<1>5. \A i \in DOMAIN t : t[i].kind = "hash" => i = Len(t)
  BY <1>1, <1>2 DEF Tidy
<1>6. Tidy(t)
  BY <1>4, <1>5 DEF Tidy
<1>7. \A b \in Blocks : On(t, b) <=> On(s, b) /\ (Carries(s[n], b) => Carries(e, b))
  <2>1. ASSUME NEW b \in Blocks, On(t, b)
        PROVE  On(s, b) /\ (Carries(s[n], b) => Carries(e, b))
    <3>1. PICK i \in DOMAIN t : Carries(t[i], b)
      BY <2>1 DEF On
    <3>2. Carries(s[i], b)
      BY <1>1, <1>2, <3>1
    <3>3. Carries(s[n], b) => i = n
      BY <1>1, <3>1, <3>2 DEF Tidy
    <3> QED BY <1>1, <3>1, <3>2, <3>3 DEF On
  <2>2. ASSUME NEW b \in Blocks, On(s, b), Carries(s[n], b) => Carries(e, b)
        PROVE  On(t, b)
    <3>1. PICK i \in DOMAIN s : Carries(s[i], b)
      BY <2>2 DEF On
    <3> QED BY <1>1, <2>2, <3>1 DEF On
  <2> QED BY <2>1, <2>2
<1>8. \A d : AllHonest(s, d) /\ Honest(e, d) => AllHonest(t, d)
  BY <1>1 DEF AllHonest
<1>9. \A d : AllHonest(s, d) => Honest(s[n], d)
  BY <1>1 DEF AllHonest
<1> QED BY <1>1, <1>3, <1>6, <1>7, <1>8, <1>9 DEF t

\* Putting a batch behind what is posted.
LEMMA ConcatOn ==
    ASSUME NEW T, NEW s \in Seq(T), NEW u \in Seq(T), Tidy(s), Tidy(u), ~Hashing(s),
           \A b \in Blocks : ~(On(s, b) /\ On(u, b))
    PROVE  LET t == s \o u IN
           /\ Tidy(t)
           /\ Hashing(t) <=> Hashing(u)
           /\ \A b : On(t, b) <=> On(s, b) \/ On(u, b)
           /\ \A d : AllHonest(s, d) /\ AllHonest(u, d) => AllHonest(t, d)
<1> DEFINE t == s \o u
           m == Len(s)
           n == Len(u)
<1>1. /\ m \in Nat /\ n \in Nat /\ DOMAIN s = 1 .. m /\ DOMAIN u = 1 .. n
      /\ Len(t) = m + n /\ DOMAIN t = 1 .. m + n
      /\ \A i \in 1 .. m + n : t[i] = IF i <= m THEN s[i] ELSE u[i - m]
  <2>1. t \in Seq(T) /\ Len(t) = m + n
        /\ \A i \in 1 .. m + n : t[i] = IF i <= m THEN s[i] ELSE u[i - m]
    BY ConcatProperties
  <2> QED BY <2>1, LenProperties
<1> HIDE DEF t, m, n
<1>2. /\ \A i \in DOMAIN t : \/ i \in DOMAIN s /\ t[i] = s[i]
                             \/ i - m \in DOMAIN u /\ t[i] = u[i - m] /\ i \notin DOMAIN s
      /\ \A i \in DOMAIN s : i \in DOMAIN t /\ t[i] = s[i]
      /\ \A i \in DOMAIN u : i + m \in DOMAIN t /\ t[i + m] = u[i]
  BY <1>1
<1>3. \A i \in DOMAIN s : s[i].kind # "hash"
  BY DEF Hashing
<1>4. ASSUME NEW i \in DOMAIN t, t[i].kind = "hash"
      PROVE  i = Len(t)
  <2>1. i - m \in DOMAIN u /\ u[i - m].kind = "hash"
    BY <1>2, <1>3, <1>4
  <2>2. i - m = n
    BY <2>1 DEF Tidy, n
  <2> QED BY <1>1, <2>2
<1>5. \A i, j \in DOMAIN t, b \in Blocks : Carries(t[i], b) /\ Carries(t[j], b) => i = j
  <2>1. ASSUME NEW i \in DOMAIN t, NEW j \in DOMAIN t, NEW b \in Blocks,
               Carries(t[i], b), Carries(t[j], b)
        PROVE  i = j
    <3>1. CASE i \in DOMAIN s /\ j \in DOMAIN s
      BY <1>2, <2>1, <3>1 DEF Tidy
    <3>2. CASE i \in DOMAIN s /\ j \notin DOMAIN s
      BY <1>2, <2>1, <3>2 DEF On
    <3>3. CASE i \notin DOMAIN s /\ j \in DOMAIN s
      BY <1>2, <2>1, <3>3 DEF On
    <3>4. CASE i \notin DOMAIN s /\ j \notin DOMAIN s
      <4>1. i - m = j - m
        BY <1>2, <2>1, <3>4 DEF Tidy
      <4> QED BY <1>1, <4>1
    <3> QED BY <3>1, <3>2, <3>3, <3>4
  <2> QED BY <2>1
<1>6. Tidy(t)
  BY <1>4, <1>5 DEF Tidy
<1>7. Hashing(t) <=> Hashing(u)
  BY <1>2, <1>3 DEF Hashing
<1>8. \A b : On(t, b) <=> On(s, b) \/ On(u, b)
  BY <1>2 DEF On
<1>9. \A d : AllHonest(s, d) /\ AllHonest(u, d) => AllHonest(t, d)
  BY <1>2 DEF AllHonest
<1> QED BY <1>6, <1>7, <1>8, <1>9 DEF t

\* Nothing under way.
LEMMA NothingFlows ==
    ASSUME queued = <<>>, posted = <<>>, jobs = <<>>, Cached = {}, net # "verify",
           \A b \in Blocks : ~Arrived(picker, b)
    PROVE  Flow /\ Behind
<1>1. 0 \in Blocks
  BY PieceAssumption DEF Blocks
<1> QED BY <1>1, NothingOn DEF Flow, Behind, Arrived

\* A step of the network thread that moves no block to or from the disk.
LEMMA StillFlows ==
    ASSUME GInv, faults = 0, Moves(picker, picker'), Numbered(Here) => Numbered(Here'),
           UNCHANGED <<net, storage>>
    PROVE  Exact(picker') /\ Numbered(Here') /\ Flow' /\ Behind' /\ Told'
<1>1. Exact(picker) /\ Numbered(Here) /\ Flow /\ Behind /\ Told
  BY DEF GInv
<1>2. Exact(picker') /\ Numbered(Here')
  BY <1>1 DEF Moves
<1>3. \A b \in Blocks : /\ picker'.state[b] = "writing" <=> picker.state[b] = "writing"
                        /\ Arrived(picker', b) <=> Arrived(picker, b)
                        /\ picker'.state[b] = "finished" =>
                             picker.state[b] = "finished" /\ picker'.peer[b] = picker.peer[b]
  BY DEF Moves, Arrived
<1>4. picker'.have = picker.have
  BY DEF Moves
<1>5. Cached' = Cached
  BY DEF Cached, storage
<1>6. UNCHANGED <<jobs, queued, posted, disk, net>>
  BY DEF storage
<1>7. Flow'
  BY <1>1, <1>3, <1>5, <1>6 DEF Flow
<1>8. Behind'
  BY <1>1, <1>3, <1>5, <1>6 DEF Behind
<1>9. Told'
  BY <1>1, <1>3, <1>4, <1>6 DEF Told
<1> QED BY <1>2, <1>7, <1>8, <1>9

\* A block that arrives goes to the end of the jobs.
LEMMA DeliversFlows ==
    ASSUME GInv, faults = 0, NEW p \in Peers, NEW good \in BOOLEAN, NEW b \in Blocks,
           Delivers(p, b, good), UNCHANGED <<cache, disk, queued, posted>>, net = "idle"
    PROVE  Exact(picker') /\ Numbered(Here') /\ Flow' /\ Behind' /\ Told'
<1>1. Exact(picker) /\ Numbered(Here) /\ Flow /\ Behind /\ Told /\ TInv
  BY DEF GInv
<1>2. Exact(picker') /\ Numbered(Here') /\ ~picker'.have
  BY <1>1 DEF Delivers
<1> DEFINE e == [kind |-> "write", block |-> b, good |-> good, by |-> p]
<1>3. /\ e \in Jobs /\ e.kind = "write" /\ \A c : Carries(e, c) <=> c = b
  <2>1. e \in WriteJobs
    BY DEF WriteJobs
  <2>2. e.block = b /\ e.kind = "write"
    OBVIOUS
  <2> HIDE DEF e
  <2> QED BY <2>1, <2>2, Carried DEF Jobs
<1>4. jobs' = Append(jobs, e)
  BY DEF Delivers
<1> HIDE DEF e
<1>5. ~Arrived(picker, b)
  BY DEF Delivers
<1>6. ~Hashing(jobs) /\ ~Hashing(queued) /\ ~Hashing(posted)
  BY <1>1, <1>5 DEF Behind
<1>7. ~On(jobs, b) /\ b \notin Cached /\ ~On(queued, b) /\ ~On(posted, b)
  BY <1>1, <1>5 DEF Flow, Arrived
<1>8. jobs \in Seq(Jobs)
  BY <1>1 DEF TInv, PipeType
<1>9. /\ Tidy(jobs') /\ ~Hashing(jobs')
      /\ \A c : On(jobs', c) <=> On(jobs, c) \/ c = b
  BY <1>1, <1>3, <1>4, <1>6, <1>7, <1>8, AppendOn DEF Flow
<1>10. Cached' = Cached
  BY DEF Cached
<1>11. ASSUME NEW c \in Blocks
       PROVE  /\ picker'.state[c] = "writing" <=> picker.state[c] = "writing" \/ c = b
              /\ picker'.state[c] = "finished" =>
                   picker.state[c] = "finished" /\ picker'.peer[c] = picker.peer[c]
  <2>1. CASE c = b
    BY <2>1 DEF Delivers
  <2>2. CASE c # b
    BY <2>2 DEF Delivers, Arrived
  <2> QED BY <2>1, <2>2
<1>12. Flow'
  BY <1>1, <1>7, <1>9, <1>10, <1>11 DEF Flow
<1>13. Behind'
  BY <1>6, <1>9 DEF Behind, Delivers
<1>14. Told'
  BY <1>1, <1>2, <1>11 DEF Told
<1> QED BY <1>2, <1>12, <1>13, <1>14

\* The hash job goes behind every write.
LEMMA VerifyFlows ==
    ASSUME GInv, faults = 0, AsyncVerifyPiece
    PROVE  Flow' /\ Behind' /\ Told'
<1>1. Flow /\ Behind /\ Told /\ TInv
  BY DEF GInv
<1> DEFINE e == [kind |-> "hash"]
<1>2. /\ e \in Jobs /\ e.kind = "hash" /\ \A c : ~Carries(e, c)
  BY DEF Jobs, HashJobs, Carries
<1>3. /\ jobs' = Append(jobs, e) /\ net = "verify" /\ net' = "idle"
      /\ UNCHANGED <<picker, cache, disk, queued, posted>>
  BY DEF AsyncVerifyPiece, network
<1> HIDE DEF e
<1>4. ~Hashing(jobs) /\ ~Hashing(queued) /\ ~Hashing(posted) /\ \A b \in Blocks : Arrived(picker, b)
  BY <1>1, <1>3 DEF Behind
<1>5. jobs \in Seq(Jobs)
  BY <1>1 DEF TInv, PipeType
<1>6. /\ Tidy(jobs') /\ Hashing(jobs')
      /\ \A c : On(jobs', c) <=> On(jobs, c)
  BY <1>1, <1>2, <1>3, <1>4, <1>5, AppendOn DEF Flow
<1>7. Cached' = Cached
  BY <1>3 DEF Cached
<1>8. Flow'
  BY <1>1, <1>3, <1>6, <1>7 DEF Flow
<1>9. Behind'
  BY <1>3, <1>4, <1>6 DEF Behind
<1>10. Told'
  BY <1>1, <1>3 DEF Told
<1> QED BY <1>8, <1>9, <1>10

\* A block goes from the jobs into the cache.
LEMMA WriteJobFlows ==
    ASSUME GInv, faults = 0, WriteJob
    PROVE  Flow' /\ Behind' /\ Told'
<1>1. Flow /\ Behind /\ Told /\ TInv
  BY DEF GInv
<1> DEFINE j == Head(jobs)
<1>2. /\ jobs # <<>> /\ j.kind = "write" /\ jobs' = Tail(jobs)
      /\ cache' = [cache EXCEPT ![j.block] = [good |-> j.good, by |-> j.by]]
      /\ queued' = IF j.block \in Cached THEN Append(queued, Report({j.block}, TRUE)) ELSE queued
      /\ UNCHANGED <<picker, net, disk, posted>>
  BY DEF WriteJob, network
<1>3. jobs \in Seq(Jobs) /\ j \in Jobs
  BY <1>1, <1>2, HeadTailProperties DEF TInv, PipeType
<1>4. j \in WriteJobs
  BY <1>2, <1>3 DEF Jobs, HashJobs, WriteJobs
<1>5. j.block \in Blocks /\ j.good \in BOOLEAN /\ j.by \in Peers
  BY <1>4 DEF WriteJobs
<1> HIDE DEF j
<1>6. /\ Tidy(jobs') /\ (Hashing(jobs') <=> Hashing(jobs))
      /\ \A b \in Blocks : On(jobs', b) <=> On(jobs, b) /\ b # j.block
      /\ On(jobs, j.block)
  <2>1. /\ Tidy(Tail(jobs))
        /\ Hashing(Tail(jobs)) <=> Hashing(jobs) /\ j.kind # "hash"
        /\ \A b \in Blocks : On(Tail(jobs), b) <=> On(jobs, b) /\ ~Carries(j, b)
        /\ \A b : Carries(j, b) => On(jobs, b)
    BY <1>1, <1>2, <1>3, TailOn DEF Flow, j
  <2> QED BY <1>2, <1>4, <2>1, Carried
<1>7. j.block \notin Cached
  BY <1>1, <1>5, <1>6 DEF Flow
<1>8. \A b \in Blocks : b \in Cached' <=> b \in Cached \/ b = j.block
  <2>1. [good |-> j.good, by |-> j.by] # NoData
    BY <1>5, PieceAssumption DEF NoData
  <2>2. \A b \in Blocks : cache'[b] = IF b = j.block THEN [good |-> j.good, by |-> j.by] ELSE cache[b]
    BY <1>1, <1>2, <1>5 DEF TInv, PipeType
  <2> QED BY <2>1, <2>2 DEF Cached
<1>9. queued' = queued
  BY <1>2, <1>7
<1>10. Flow'
  BY <1>1, <1>2, <1>6, <1>8, <1>9 DEF Flow
<1>11. Behind'
  BY <1>1, <1>2, <1>6, <1>9 DEF Behind
<1>12. Told'
  BY <1>1, <1>2, <1>9 DEF Told
<1> QED BY <1>10, <1>11, <1>12

\* The blocks S go from the cache to the disk, and are reported as written.
LEMMA FlushedFlows ==
    ASSUME Flow, Told, PipeType, NEW S \in SUBSET Cached, NEW ok \in BOOLEAN, NEW W,
           FlushRange(S, ok, W), faults' = 0, ~Hashing(queued), UNCHANGED <<picker, posted>>,
           Hashing(posted) => S = {}
    PROVE  LET q == Append(queued, Report(S, ok)) IN
           /\ ok /\ q \in Seq(Completions) /\ Tidy(q) /\ ~Hashing(q)
           /\ \A b \in Blocks : /\ On(q, b) <=> On(queued, b) \/ b \in S
                                /\ b \in Cached' <=> b \in Cached \ S
           /\ AllHonest(q, disk') /\ AllHonest(posted, disk')
           /\ \A b \in Blocks : picker.state[b] = "finished" =>
                disk'[b] = disk[b] /\ picker.peer[b] \in {disk[b].by, NoPeer}
<1> DEFINE q == Append(queued, Report(S, ok))
           r == Report(S, ok)
<1>1. S \in SUBSET Blocks /\ \A b \in S : cache[b] # NoData
  BY DEF Cached
<1>2. /\ faults = 0 /\ ok
      /\ \A b \in S : disk'[b] = cache[b]
      /\ \A b \in Blocks \ S : disk'[b] = disk[b]
      /\ \A b \in Blocks : cache'[b] = IF b \in S THEN NoData ELSE cache[b]
  BY <1>1, FlushRangeTyped
<1>3. /\ r \in WriteReports /\ r \in Completions /\ r.kind = "write" /\ r.ok = ok
      /\ DOMAIN r.by = S
      /\ \A b \in S : r.by[b] = cache[b].by
  BY <1>1, ReportOfCached
<1> HIDE DEF r
<1>4. \A b : Carries(r, b) <=> b \in S
  BY <1>3, Carried
<1>5. queued \in Seq(Completions) /\ posted \in Seq(Completions)
  BY DEF PipeType
<1>6. /\ q \in Seq(Completions) /\ Tidy(q) /\ ~Hashing(q)
      /\ \A b : On(q, b) <=> On(queued, b) \/ b \in S
      /\ \A d : AllHonest(q, d) <=> AllHonest(queued, d) /\ Honest(r, d)
  <2>1. \A b \in Blocks : ~(Carries(r, b) /\ On(queued, b))
    BY <1>4 DEF Flow
  <2>2. q = Append(queued, r)
    BY DEF r
  <2> HIDE DEF q
  <2> QED BY <1>3, <1>4, <1>5, <2>1, <2>2, AppendOn, AppendProperties DEF Flow
<1>7. \A b \in Blocks : b \in Cached' <=> b \in Cached \ S
  BY <1>2 DEF Cached
<1>8. ASSUME NEW c \in Completions, Honest(c, disk), c.kind = "write", \A b \in S : ~Carries(c, b)
      PROVE  Honest(c, disk')
  <2>1. DOMAIN c.by \subseteq Blocks /\ \A b : Carries(c, b) <=> b \in DOMAIN c.by
    BY <1>8, ReportTyped, Carried
  <2>2. \A b \in DOMAIN c.by : disk'[b] = disk[b]
    BY <1>2, <1>8, <2>1
  <2> QED BY <1>8, <2>2 DEF Honest
<1>9. ASSUME NEW s \in Seq(Completions), AllHonest(s, disk), ~Hashing(s), \A b \in S : ~On(s, b)
      PROVE  AllHonest(s, disk')
  <2>1. ASSUME NEW i \in DOMAIN s
        PROVE  Honest(s[i], disk')
    <3>1. s[i] \in Completions /\ s[i].kind = "write"
      <4>1. s[i] \in Completions
        BY <1>9, LenProperties, ElementOfSeq
      <4>2. s[i].kind # "hash"
        BY <1>9 DEF Hashing
      <4> QED BY <4>1, <4>2 DEF Completions, WriteReports, HashReports
    <3>2. Honest(s[i], disk) /\ \A b \in S : ~Carries(s[i], b)
      BY <1>9 DEF AllHonest, On
    <3> QED BY <1>8, <3>1, <3>2
  <2> QED BY <2>1 DEF AllHonest
<1>10. AllHonest(queued, disk')
  BY <1>1, <1>5, <1>9 DEF Flow, Told
<1>11. AllHonest(posted, disk')
  <2>1. CASE Hashing(posted)
    <3>1. disk' = disk
      <4>1. W = {} /\ disk' = [b \in Blocks |-> IF b \in W THEN cache[b] ELSE disk[b]]
        BY <2>1 DEF FlushRange
      <4> QED BY <4>1 DEF PipeType
    <3> QED BY <3>1 DEF Told
  <2>2. CASE ~Hashing(posted)
    BY <1>1, <1>5, <1>9, <2>2 DEF Flow, Told
  <2> QED BY <2>1, <2>2
<1>12. Honest(r, disk')
  BY <1>2, <1>3 DEF Honest
<1>13. ASSUME NEW b \in Blocks, picker.state[b] = "finished"
       PROVE  disk'[b] = disk[b] /\ picker.peer[b] \in {disk[b].by, NoPeer}
  <2>1. b \notin Cached
    BY <1>13 DEF Flow
  <2> QED BY <1>2, <1>13, <2>1 DEF Told
<1> HIDE DEF q
<1>14. AllHonest(q, disk')
  BY <1>6, <1>10, <1>12
<1> QED BY <1>2, <1>6, <1>7, <1>11, <1>13, <1>14 DEF q, r

\* flush_expired_pieces.
LEMMA FlushFlows ==
    ASSUME GInv, faults' = 0, Flush
    PROVE  faults = 0 /\ Flow' /\ Behind' /\ Told'
<1>0. TInv
  BY DEF GInv
<1>1. PICK i \in Blocks, j \in Blocks, ok \in BOOLEAN :
        /\ Cached \cap (i .. j) # {}
        /\ \E W \in SUBSET (Cached \cap (i .. j)) : FlushRange(Cached \cap (i .. j), ok, W)
        /\ queued' = Append(queued, Report(Cached \cap (i .. j), ok))
  BY DEF Flush
<1> DEFINE S == Cached \cap (i .. j)
<1>2. PICK W : FlushRange(S, ok, W)
  BY <1>1
<1>3. S \in SUBSET Cached /\ S \in SUBSET Blocks /\ S # {} /\ queued' = Append(queued, Report(S, ok))
  BY <1>1 DEF Cached
<1> HIDE DEF S
<1>4. UNCHANGED <<picker, net, jobs, posted>>
  BY DEF Flush, network
<1>5. faults = 0
  BY <1>0, <1>2, <1>3, FlushRangeTyped DEF TInv
<1>6. Flow /\ Behind /\ Told
  BY <1>5 DEF GInv
<1>7. Cached # {} /\ ~Hashing(queued) /\ ~Hashing(posted)
  BY <1>3, <1>6 DEF Behind
<1>8. /\ Tidy(queued') /\ ~Hashing(queued')
      /\ \A b \in Blocks : /\ On(queued', b) <=> On(queued, b) \/ b \in S
                           /\ b \in Cached' <=> b \in Cached \ S
      /\ AllHonest(queued', disk') /\ AllHonest(posted, disk')
      /\ \A b \in Blocks : picker.state[b] = "finished" =>
           disk'[b] = disk[b] /\ picker.peer[b] \in {disk[b].by, NoPeer}
  BY <1>0, <1>2, <1>3, <1>4, <1>6, <1>7, FlushedFlows DEF TInv
<1>9. \A b \in S : ~On(jobs, b) /\ ~On(posted, b)
  BY <1>3, <1>6 DEF Flow
<1>10. Flow'
  BY <1>3, <1>4, <1>6, <1>8, <1>9 DEF Flow
<1>11. Behind'
  BY <1>4, <1>6, <1>7, <1>8 DEF Behind
<1>12. picker.have => Cached = {}
  <2>1. picker.have => \A b \in Blocks : picker.state[b] = "none"
    BY <1>0, Lands DEF TInv, Ready, Counted
  <2> QED BY <1>6, <2>1 DEF Flow, Cached
<1>13. Told'
  BY <1>4, <1>7, <1>8, <1>12 DEF Told
<1> QED BY <1>5, <1>10, <1>11, <1>13

\* A hash job: what was cached is reported before the verdict, and nothing is left.
LEMMA HashJobFlows ==
    ASSUME GInv, faults' = 0, HashJob
    PROVE  faults = 0 /\ Flow' /\ Behind' /\ Told'
<1>0. TInv /\ PipeType
  BY DEF GInv, TInv
<1>1. PICK ok \in BOOLEAN, ret \in {"pass", "fail", "error"}, W \in SUBSET Cached :
        /\ FlushRange(Cached, ok, W)
        /\ ret = "pass" => HashMatches(disk')
        /\ queued' = Verified(ok, ret)
  <2>1. PICK ok \in BOOLEAN, readable \in BOOLEAN, W \in SUBSET Cached :
          /\ FlushRange(Cached, ok, W)
          /\ queued' = Verified(ok, IF ~readable THEN "error"
                                    ELSE IF HashMatches(disk') THEN "pass" ELSE "fail")
    BY DEF HashJob
  <2> DEFINE ret == IF ~readable THEN "error" ELSE IF HashMatches(disk') THEN "pass" ELSE "fail"
  <2>2. ret \in {"pass", "fail", "error"} /\ (ret = "pass" => HashMatches(disk'))
    OBVIOUS
  <2>3. queued' = Verified(ok, ret)
    BY <2>1
  <2> HIDE DEF ret
  <2> QED BY <2>1, <2>2, <2>3
<1>2. /\ jobs # <<>> /\ Head(jobs).kind = "hash" /\ jobs' = Tail(jobs)
      /\ UNCHANGED <<picker, net, posted>>
  BY DEF HashJob, network
<1>3. Cached \in SUBSET Blocks /\ Cached \in SUBSET Cached
  BY DEF Cached
<1>4. faults = 0
  BY <1>0, <1>1, <1>3, FlushRangeTyped
<1>5. Flow /\ Behind /\ Told
  BY <1>4 DEF GInv
<1>6. jobs' = <<>> /\ Hashing(jobs) /\ \A b \in Blocks : ~On(jobs, b)
  <2>1. jobs \in Seq(Jobs) /\ Tidy(jobs)
    BY <1>0, <1>5 DEF PipeType, Flow
  <2>2. /\ Tail(jobs) = <<>> /\ Hashing(jobs)
        /\ \A b \in Blocks : On(Tail(jobs), b) <=> On(jobs, b) /\ ~Carries(Head(jobs), b)
    BY <1>2, <2>1, TailOn
  <2>3. \A b \in Blocks : ~Carries(Head(jobs), b)
    BY <1>2, <2>1, HeadTailProperties, Carried
  <2> QED BY <1>2, <2>2, <2>3, NothingOn
<1>7. ~Hashing(queued) /\ ~Hashing(posted) /\ net # "verify" /\ \A b \in Blocks : Arrived(picker, b)
  BY <1>2, <1>5, <1>6 DEF Behind
<1> DEFINE q == IF Cached = {} THEN queued ELSE Append(queued, Report(Cached, ok))
           e == [kind |-> "hash", ret |-> ret, last |-> FALSE]
<1>8. /\ q \in Seq(Completions) /\ Tidy(q) /\ ~Hashing(q)
      /\ \A b \in Blocks : /\ On(q, b) <=> On(queued, b) \/ b \in Cached
                           /\ b \notin Cached'
      /\ AllHonest(q, disk') /\ AllHonest(posted, disk')
      /\ \A b \in Blocks : picker.state[b] = "finished" =>
           disk'[b] = disk[b] /\ picker.peer[b] \in {disk[b].by, NoPeer}
  <2> DEFINE r == Append(queued, Report(Cached, ok))
  <2>1. /\ r \in Seq(Completions) /\ Tidy(r) /\ ~Hashing(r)
        /\ \A b \in Blocks : /\ On(r, b) <=> On(queued, b) \/ b \in Cached
                             /\ b \in Cached' <=> b \in Cached \ Cached
        /\ AllHonest(r, disk') /\ AllHonest(posted, disk')
        /\ \A b \in Blocks : picker.state[b] = "finished" =>
             disk'[b] = disk[b] /\ picker.peer[b] \in {disk[b].by, NoPeer}
    BY <1>0, <1>1, <1>2, <1>3, <1>5, <1>7, FlushedFlows
  <2> HIDE DEF r
  <2>2. CASE Cached # {}
    <3>1. q = r
      BY <2>2 DEF r
    <3> HIDE DEF q
    <3> QED BY <2>1, <3>1
  <2>3. CASE Cached = {}
    <3>1. q = queued
      BY <2>3
    <3>2. disk' = disk
      <4>1. W = {} /\ disk' = [b \in Blocks |-> IF b \in W THEN cache[b] ELSE disk[b]]
        BY <1>1, <2>3 DEF FlushRange
      <4> QED BY <1>0, <4>1 DEF PipeType
    <3> HIDE DEF q
    <3> QED BY <1>0, <1>5, <1>7, <2>1, <2>3, <3>1, <3>2 DEF Flow, Told, PipeType
  <2> QED BY <2>2, <2>3
<1>9. e \in Completions /\ e.kind = "hash" /\ Honest(e, disk')
  <2>1. e \in HashReports
    BY DEF HashReports
  <2>2. e.kind = "hash" /\ e.ret = ret
    OBVIOUS
  <2> HIDE DEF e
  <2> QED BY <1>1, <2>1, <2>2 DEF Completions, Honest, HashMatches
<1>10. queued' = Append(q, e)
  BY <1>1 DEF Verified
<1> HIDE DEF q, e
<1>11. \A b : ~Carries(e, b)
  BY <1>9, Carried
<1>12. /\ Tidy(queued') /\ Hashing(queued') /\ AllHonest(queued', disk')
       /\ \A b : On(queued', b) <=> On(q, b)
  BY <1>8, <1>9, <1>10, <1>11, AppendOn
<1>13. ~Hashing(jobs') /\ Tidy(jobs') /\ \A b \in Blocks : ~On(jobs', b)
  BY <1>6, NothingOn
<1>14. Flow'
  BY <1>2, <1>5, <1>6, <1>8, <1>12, <1>13 DEF Flow
<1>15. Cached' = {}
  BY <1>8 DEF Cached
<1>16. Behind'
  BY <1>2, <1>6, <1>7, <1>12, <1>13, <1>15 DEF Behind
<1>17. ~picker.have
  <2>1. 0 \in Blocks
    BY PieceAssumption DEF Blocks
  <2>2. picker.have => \A b \in Blocks : picker.state[b] = "none"
    BY <1>0, Lands DEF TInv, Ready, Counted
  <2> QED BY <1>7, <2>1, <2>2 DEF Arrived
<1>18. Told'
  BY <1>2, <1>8, <1>12, <1>17 DEF Told
<1> QED BY <1>4, <1>14, <1>16, <1>18

\* The completions are posted as one batch.
LEMMA PostFlows ==
    ASSUME GInv, faults = 0, PostCompletions
    PROVE  Flow' /\ Behind' /\ Told'
<1>0. Flow /\ Behind /\ Told /\ TInv
  BY DEF GInv
<1> DEFINE n == Len(queued)
           e == [queued[n] EXCEPT !.last = TRUE]
           q == [queued EXCEPT ![n] = e]
<1>1. /\ queued # <<>> /\ posted' = posted \o q /\ queued' = <<>>
      /\ UNCHANGED <<picker, net, jobs, cache, disk>>
  BY DEF PostCompletions, network
<1>2. queued \in Seq(Completions) /\ posted \in Seq(Completions) /\ Tidy(queued) /\ Tidy(posted)
  BY <1>0 DEF Flow, TInv, PipeType
<1>3. n \in 1 .. Len(queued) /\ queued[n] \in Completions
  BY <1>1, <1>2, EmptySeq, LenProperties, ElementOfSeq
<1> HIDE DEF n
<1>4. /\ e \in Completions /\ e.kind = queued[n].kind
      /\ \A b : Carries(e, b) <=> Carries(queued[n], b)
      /\ \A d : Honest(queued[n], d) => Honest(e, d)
  <2> DEFINE c == queued[n]
  <2>1. CASE c \in WriteReports
    <3>1. e \in WriteReports /\ e.kind = c.kind /\ e.by = c.by /\ e.ok = c.ok /\ c.kind = "write"
      BY <2>1 DEF WriteReports
    <3> HIDE DEF e, c
    <3> QED BY <2>1, <3>1, Carried DEF Completions, Honest, c
  <2>2. CASE c \in HashReports
    <3>1. e \in HashReports /\ e.kind = c.kind /\ e.ret = c.ret /\ c.kind = "hash"
      BY <2>2 DEF HashReports
    <3> HIDE DEF e, c
    <3> QED BY <2>2, <3>1, Carried DEF Completions, Honest, c
  <2> QED BY <1>3, <2>1, <2>2 DEF Completions
<1> HIDE DEF e
<1>5. /\ q \in Seq(Completions) /\ Tidy(q)
      /\ Hashing(q) <=> Hashing(queued)
      /\ \A b \in Blocks : On(q, b) <=> On(queued, b)
      /\ AllHonest(q, disk)
  <2>1. AllHonest(queued, disk)
    BY <1>0 DEF Told
  <2>2. /\ q \in Seq(Completions) /\ Tidy(q)
        /\ Hashing(q) <=> Hashing(queued)
        /\ \A b \in Blocks : On(q, b) <=> On(queued, b) /\ (Carries(queued[n], b) => Carries(e, b))
        /\ AllHonest(queued, disk) /\ Honest(e, disk) => AllHonest(q, disk)
        /\ AllHonest(queued, disk) => Honest(queued[n], disk)
    BY <1>2, <1>3, <1>4, ExceptOn
  <2> HIDE DEF q
  <2> QED BY <1>4, <2>1, <2>2
<1> HIDE DEF q
<1>6. ~Hashing(posted)
  BY <1>0, <1>1 DEF Behind
<1>7. \A b \in Blocks : ~(On(posted, b) /\ On(q, b))
  BY <1>0, <1>5 DEF Flow
<1>8. /\ Tidy(posted') /\ (Hashing(posted') <=> Hashing(queued))
      /\ \A b \in Blocks : On(posted', b) <=> On(posted, b) \/ On(queued, b)
      /\ AllHonest(posted', disk)
  <2>1. AllHonest(posted, disk)
    BY <1>0 DEF Told
  <2>2. /\ Tidy(posted \o q) /\ (Hashing(posted \o q) <=> Hashing(q))
        /\ \A b : On(posted \o q, b) <=> On(posted, b) \/ On(q, b)
        /\ AllHonest(posted, disk) /\ AllHonest(q, disk) => AllHonest(posted \o q, disk)
    BY <1>2, <1>5, <1>6, <1>7, ConcatOn
  <2> QED BY <1>1, <1>5, <2>1, <2>2
<1>9. /\ Tidy(queued') /\ ~Hashing(queued') /\ AllHonest(queued', disk)
      /\ \A b : ~On(queued', b)
  BY <1>1, NothingOn
<1>10. Cached' = Cached
  BY <1>1 DEF Cached
<1>11. Flow'
  BY <1>0, <1>1, <1>8, <1>9, <1>10 DEF Flow
<1>12. Behind'
  BY <1>0, <1>1, <1>6, <1>8, <1>9, <1>10 DEF Behind
<1>13. Told'
  BY <1>0, <1>1, <1>8, <1>9 DEF Told
<1> QED BY <1>11, <1>12, <1>13

\* One block of the report at the head is handled.
LEMMA ReportTaken ==
    ASSUME PipeType, NEW b \in Blocks, NEW ok \in BOOLEAN, WriteReport(b, ok), Tidy(posted)
    PROVE  /\ Tidy(posted') /\ (Hashing(posted') <=> Hashing(posted))
           /\ \A c \in Blocks : On(posted', c) <=> On(posted, c) /\ c # b
           /\ On(posted, b)
           /\ \A d : AllHonest(posted, d) =>
                AllHonest(posted', d) /\ ok /\ d[b].by = Head(posted).by[b]
<1> DEFINE h == Head(posted)
<1>1. /\ posted \in Seq(Completions) /\ posted # <<>>
      /\ h \in WriteReports /\ h.ok = ok /\ b \in DOMAIN h.by
      /\ \/ DOMAIN h.by = {b} /\ posted' = Tail(posted)
         \/ LET f == [c \in DOMAIN h.by \ {b} |-> h.by[c]] IN
            f \in Senders /\ posted' = [posted EXCEPT ![1] = [@ EXCEPT !.by = f]]
  BY WriteReportTyped
<1>2. h = posted[1] /\ 1 \in 1 .. Len(posted)
  <2>1. Len(posted) \in Nat \ {0}
    BY <1>1, EmptySeq
  <2> QED BY <1>1, <2>1
<1> HIDE DEF h
<1>3. h.kind = "write" /\ h \in Completions /\ \A c : Carries(h, c) <=> c \in DOMAIN h.by
  BY <1>1, Carried DEF Completions, WriteReports
<1>4. CASE DOMAIN h.by = {b} /\ posted' = Tail(posted)
  <2>1. /\ Tidy(posted') /\ (Hashing(posted') <=> Hashing(posted))
        /\ \A c \in Blocks : On(posted', c) <=> On(posted, c) /\ ~Carries(h, c)
        /\ \A c : Carries(h, c) => On(posted, c)
        /\ \A d : AllHonest(posted, d) => AllHonest(posted', d) /\ Honest(h, d)
    BY <1>1, <1>3, <1>4, TailOn DEF h
  <2>2. \A d : Honest(h, d) => ok /\ d[b].by = h.by[b]
    BY <1>1, <1>3 DEF Honest
  <2> QED BY <1>3, <1>4, <2>1, <2>2 DEF h
<1>5. CASE LET f == [c \in DOMAIN h.by \ {b} |-> h.by[c]] IN
           f \in Senders /\ posted' = [posted EXCEPT ![1] = [@ EXCEPT !.by = f]]
  <2> DEFINE f == [c \in DOMAIN h.by \ {b} |-> h.by[c]]
             e == [h EXCEPT !.by = f]
  <2>1. f \in Senders /\ DOMAIN f = DOMAIN h.by \ {b} /\ \A c \in DOMAIN f : f[c] = h.by[c]
    BY <1>5
  <2>2. posted' = [posted EXCEPT ![1] = e]
    BY <1>1, <1>2, <1>5
  <2> HIDE DEF f
  <2>3. e \in WriteReports /\ e.kind = "write" /\ e.by = f /\ e.ok = ok
    BY <1>1, <2>1 DEF WriteReports
  <2> HIDE DEF e
  <2>4. \A c : Carries(e, c) <=> c \in DOMAIN h.by \ {b}
    BY <2>1, <2>3, Carried
  <2>5. /\ Tidy(posted') /\ (Hashing(posted') <=> Hashing(posted))
        /\ \A c \in Blocks : On(posted', c) <=> On(posted, c) /\ (Carries(posted[1], c) => Carries(e, c))
        /\ \A d : AllHonest(posted, d) /\ Honest(e, d) => AllHonest(posted', d)
        /\ \A d : AllHonest(posted, d) => Honest(posted[1], d)
    <3>1. \A c : Carries(e, c) => Carries(posted[1], c)
      BY <1>2, <1>3, <2>4
    <3>2. e \in Completions /\ e.kind = posted[1].kind
      BY <1>2, <1>3, <2>3 DEF Completions
    <3>3. PICK n \in 1 .. Len(posted) : n = 1
      BY <1>2
    <3> DEFINE t == [posted EXCEPT ![n] = e]
    <3>4. e.kind = posted[n].kind /\ \A c : Carries(e, c) => Carries(posted[n], c)
      BY <3>1, <3>2, <3>3
    <3>5. /\ t \in Seq(Completions) /\ Len(t) = Len(posted) /\ Tidy(t)
          /\ Hashing(t) <=> Hashing(posted)
          /\ \A c \in Blocks : On(t, c) <=> On(posted, c) /\ (Carries(posted[n], c) => Carries(e, c))
          /\ \A d : AllHonest(posted, d) /\ Honest(e, d) => AllHonest(t, d)
          /\ \A d : AllHonest(posted, d) => Honest(posted[n], d)
      <4>1. posted \in Seq(Completions) /\ e \in Completions /\ Tidy(posted)
        BY <1>1, <3>2
      <4> QED BY <3>4, <4>1, ExceptOn, Zenon
    <3>6. posted' = t
      BY <2>2, <3>3
    <3> HIDE DEF t
    <3> QED BY <3>3, <3>5, <3>6
  <2>6. \A d : Honest(h, d) => Honest(e, d) /\ ok /\ d[b].by = h.by[b]
    BY <1>1, <1>3, <2>1, <2>3 DEF Honest
  <2>7. On(posted, b)
    BY <1>1, <1>2, <1>3, LenProperties DEF On
  <2>8. \A c \in Blocks : On(posted', c) <=> On(posted, c) /\ c # b
    <3>1. b \in DOMAIN h.by
      BY <1>1
    <3>2. ASSUME NEW c \in Blocks
          PROVE  On(posted', c) <=> On(posted, c) /\ c # b
      <4>1. Carries(posted[1], c) <=> c \in DOMAIN h.by
        BY <1>2, <1>3
      <4>2. Carries(e, c) <=> c \in DOMAIN h.by /\ c # b
        BY <2>4
      <4>3. On(posted', c) <=> On(posted, c) /\ (Carries(posted[1], c) => Carries(e, c))
        BY <2>5
      <4> QED BY <3>1, <4>1, <4>2, <4>3
    <3> QED BY <3>2
  <2> QED BY <1>2, <2>5, <2>6, <2>7, <2>8 DEF h
<1> QED BY <1>1, <1>4, <1>5 DEF h

\* A block is reported as written.
LEMMA WriteCompleteFlows ==
    ASSUME GInv, faults = 0, WriteComplete
    PROVE  Exact(picker') /\ Numbered(Here') /\ Flow' /\ Behind' /\ Told'
<1>0. Exact(picker) /\ Numbered(Here) /\ Flow /\ Behind /\ Told /\ TInv /\ PipeType
  BY DEF GInv, TInv
<1>1. PICK b \in Blocks : WriteReport(b, TRUE) /\ picker' = MarkFinished(picker, b, PeerInfo(b))
  BY DEF WriteComplete
<1>2. /\ Head(posted).by[b] \in Peers /\ net # "verify" /\ net' # "verify"
      /\ UNCHANGED <<jobs, cache, disk, queued>>
  BY <1>0, <1>1, WriteReportTyped
<1>14. PeerInfo(b) \in Peers \cup {NoPeer} /\ PeerInfo(b) \in {Head(posted).by[b], NoPeer}
  BY <1>0, <1>2, PeerInfoTyped DEF TInv
<1>3. UNCHANGED <<rq, dq, cancelled>>
  BY DEF WriteComplete
<1>4. /\ Tidy(posted') /\ (Hashing(posted') <=> Hashing(posted))
      /\ \A c \in Blocks : On(posted', c) <=> On(posted, c) /\ c # b
      /\ On(posted, b) /\ AllHonest(posted', disk) /\ disk[b].by = Head(posted).by[b]
  BY <1>0, <1>1, ReportTaken DEF Flow, Told
<1>5. picker.state[b] = "writing"
  BY <1>0, <1>4 DEF Flow
<1>6. Counted(picker)
  BY <1>0, Lands DEF TInv, Ready
<1>7. /\ Counted(picker') /\ Exact(picker') /\ picker'.have = picker.have
      /\ \A c \in Blocks : picker'.state[c] = IF c = b THEN "finished" ELSE picker.state[c]
      /\ \A c \in Blocks : picker'.peer[c] = IF c = b THEN PeerInfo(b) ELSE picker.peer[c]
      /\ picker'.num_peers = picker.num_peers
  BY <1>0, <1>1, <1>5, <1>6, <1>14, MarkFinishedCounted
<1>8. \A c \in Blocks : Arrived(picker', c) <=> Arrived(picker, c)
  BY <1>5, <1>7 DEF Arrived
<1>9. Numbered(Here')
  <2>1. PICK pk : pk = picker'
    OBVIOUS
  <2>2. Ready(Here') /\ Here'.picker = pk /\ \A p \in Peers : Asked(Here', p) = Asked(Here, p)
    BY <1>0, <1>3, <1>7, <2>1, PickerOnly DEF TInv
  <2>3. \A c \in Blocks : Asking(Here', Peers, c) = Asking(Here, Peers, c)
    BY <2>2 DEF Asking
  <2>4. \A c \in Blocks : ~Arrived(pk, c) => ~Arrived(picker, c) /\ pk.state[c] = picker.state[c]
                                             /\ pk.num_peers[c] = picker.num_peers[c]
    BY <1>7, <1>8, <2>1 DEF Arrived
  <2> QED BY <1>0, <1>7, <2>1, <2>2, <2>3, <2>4, Lands DEF Numbered
<1>10. Cached' = Cached
  BY <1>2 DEF Cached
<1>11. Flow'
  BY <1>0, <1>2, <1>4, <1>7, <1>10 DEF Flow
<1>12. Behind'
  BY <1>0, <1>2, <1>4, <1>8, <1>10 DEF Behind
<1>13. Told'
  <2>1. \A c \in Blocks : picker'.state[c] = "finished" => picker'.peer[c] \in {disk[c].by, NoPeer}
    BY <1>0, <1>4, <1>7, <1>14 DEF Told
  <2> QED BY <1>0, <1>2, <1>4, <1>7, <2>1 DEF Told
<1> QED BY <1>7, <1>9, <1>11, <1>12, <1>13

\* A peer that is gone is forgotten, and nothing else changes.
LEMMA EraseFlows ==
    ASSUME GInv, faults = 0, NEW p \in Peers, ErasePeer(p)
    PROVE  Exact(picker') /\ Numbered(Here') /\ Flow' /\ Behind' /\ Told'
<1>0. Exact(picker) /\ Numbered(Here) /\ Flow /\ Behind /\ Told /\ Ready(Here) /\ Counted(picker)
  BY Lands DEF GInv, TInv, Ready
<1>1. picker' = ClearPeer(picker, p) /\ UNCHANGED <<rq, dq, cancelled, net, storage>>
  BY DEF ErasePeer
<1>2. /\ Counted(picker') /\ Exact(picker')
      /\ picker'.have = picker.have /\ picker'.state = picker.state
      /\ picker'.num_peers = picker.num_peers
      /\ \A b \in Blocks : picker'.peer[b] \in {picker.peer[b], NoPeer}
  BY <1>0, <1>1, ClearPeerCounted
<1>3. Numbered(Here')
  <2>1. PICK pk : pk = picker'
    OBVIOUS
  <2>2. Here'.picker = pk /\ \A q \in Peers : Asked(Here', q) = Asked(Here, q)
    BY <1>0, <1>1, <1>2, <2>1, PickerOnly
  <2>3. \A b \in Blocks : Asking(Here', Peers, b) = Asking(Here, Peers, b)
    BY <2>2 DEF Asking
  <2>4. pk.have = picker.have /\ pk.state = picker.state /\ pk.num_peers = picker.num_peers
    BY <1>2, <2>1
  <2> QED BY <1>0, <2>2, <2>3, <2>4, Lands DEF Numbered, Arrived
<1>4. UNCHANGED <<jobs, queued, posted, disk, cache, net>>
  BY <1>1 DEF storage
<1>5. Cached' = Cached
  BY <1>4 DEF Cached
<1>6. Flow'
  BY <1>0, <1>2, <1>4, <1>5 DEF Flow
<1>7. Behind'
  BY <1>0, <1>2, <1>4, <1>5 DEF Behind, Arrived
<1>8. Told'
  <2>1. \A b \in Blocks : picker'.state[b] = "finished" => picker'.peer[b] \in {disk[b].by, NoPeer}
    BY <1>0, <1>2 DEF Told
  <2> QED BY <1>0, <1>2, <1>4, <2>1 DEF Told
<1> QED BY <1>2, <1>3, <1>6, <1>7, <1>8

\* When the verdict is handled nothing else is under way.
LEMMA VerdictAlone ==
    ASSUME GInv, faults = 0, Verdict
    PROVE  /\ posted' = <<>> /\ queued' = <<>> /\ jobs' = <<>> /\ Cached' = {}
           /\ net' # "verify" /\ disk' = disk /\ faults' = 0
           /\ \A b \in Blocks : picker.state[b] = "finished"
           /\ IsPieceFinished(picker)
           /\ Head(posted).ret = "pass" => \A b \in Blocks : disk[b].good
<1>0. Flow /\ Behind /\ Told /\ TInv /\ PipeType
  BY DEF GInv, TInv
<1>1. /\ posted # <<>> /\ Head(posted).kind = "hash" /\ posted' = Tail(posted) /\ net' # "verify"
      /\ UNCHANGED <<jobs, cache, disk, queued, faults>>
  BY DEF Verdict, Completion, Handled
<1>2. posted \in Seq(Completions) /\ Tidy(posted) /\ AllHonest(posted, disk)
  BY <1>0 DEF Flow, Told, PipeType
<1>3. /\ Tail(posted) = <<>> /\ Hashing(posted) /\ Honest(Head(posted), disk)
      /\ \A b \in Blocks : On(Tail(posted), b) <=> On(posted, b) /\ ~Carries(Head(posted), b)
  BY <1>1, <1>2, TailOn
<1>4. \A b \in Blocks : ~Carries(Head(posted), b)
  BY <1>1, <1>2, HeadTailProperties, Carried
<1>5. queued = <<>> /\ jobs = <<>> /\ Cached = {} /\ \A b \in Blocks : Arrived(picker, b)
  BY <1>0, <1>3 DEF Behind
<1>6. \A b \in Blocks : ~On(posted, b) /\ ~On(queued, b) /\ ~On(jobs, b) /\ b \notin Cached
  BY <1>3, <1>4, <1>5, NothingOn
<1>7. \A b \in Blocks : picker.state[b] = "finished"
  BY <1>0, <1>5, <1>6 DEF Flow, Arrived
<1>8. IsPieceFinished(picker)
  BY <1>0, <1>5, FinishedArrived, Lands DEF TInv, Ready
<1>9. Cached' = {}
  BY <1>1, <1>5 DEF Cached
<1>10. Head(posted).ret = "pass" => \A b \in Blocks : disk[b].good
  BY <1>1, <1>3 DEF Honest
<1> QED BY <1>1, <1>3, <1>5, <1>7, <1>8, <1>9, <1>10

\* A verdict ends it, one way or the other.
LEMMA VerdictFlows ==
    ASSUME GInv, faults = 0, PiecePassed \/ PieceFailed \/ DiskErrorOnHash \/ StaleVerdict
    PROVE  Exact(picker') /\ Numbered(Here') /\ Flow' /\ Behind' /\ Told'
<1>0. TInv /\ Ready(Here) /\ Counted(picker)
  BY Lands DEF GInv, TInv, Ready
<1>1. Verdict
  BY DEF PiecePassed, PieceFailed, DiskErrorOnHash, StaleVerdict
<1>2. /\ posted' = <<>> /\ queued' = <<>> /\ jobs' = <<>> /\ Cached' = {}
      /\ net' # "verify" /\ disk' = disk
      /\ IsPieceFinished(picker)
      /\ Head(posted).ret = "pass" => \A b \in Blocks : disk[b].good
  BY <1>1, VerdictAlone
<1>3. ASSUME \A b \in Blocks : ~Arrived(picker', b), picker'.have => Head(posted).ret = "pass"
      PROVE  Flow' /\ Behind' /\ Told'
  <2>1. 0 \in Blocks
    BY PieceAssumption DEF Blocks
  <2>2. /\ \A b : ~On(posted', b) /\ ~On(queued', b) /\ ~On(jobs', b)
        /\ ~Hashing(posted') /\ ~Hashing(queued') /\ ~Hashing(jobs')
        /\ Tidy(posted') /\ Tidy(queued') /\ Tidy(jobs')
        /\ AllHonest(posted', disk') /\ AllHonest(queued', disk')
    BY <1>2, NothingOn
  <2>3. \A b \in Blocks : picker'.state[b] \notin {"writing", "finished"}
    BY <1>3 DEF Arrived
  <2>4. Flow'
    BY <1>2, <2>2, <2>3 DEF Flow
  <2>5. Behind'
    BY <1>2, <1>3, <2>1, <2>2 DEF Behind
  <2>6. Told'
    BY <1>2, <1>3, <2>2, <2>3 DEF Told
  <2> QED BY <2>4, <2>5, <2>6
<1>4. CASE PiecePassed
  <2>1. /\ Counted(picker') /\ Exact(picker') /\ picker'.have
        /\ \A b \in Blocks : ~Arrived(picker', b)
    BY <1>0, <1>4, PassedCounted DEF PiecePassed
  <2>2. Here'.picker = picker'
    BY DEF Here
  <2>3. Numbered(Here') /\ Head(posted).ret = "pass"
    BY <1>4, <2>1, <2>2 DEF Numbered, PiecePassed
  <2> QED BY <1>3, <2>1, <2>3
<1>5. CASE PieceFailed
  BY <1>0, <1>3, <1>5, PieceFailedReady
<1>6. CASE DiskErrorOnHash
  BY <1>0, <1>2, <1>3, <1>6, DiskErrorOnHashReady
<1>7. CASE StaleVerdict
  BY <1>2, <1>7 DEF StaleVerdict
<1> QED BY <1>4, <1>5, <1>6, <1>7

\* A failed write is reported by a completion, and there is none.
LEMMA NoWriteFails ==
    ASSUME GInv, faults = 0, DiskErrorOnWrite
    PROVE  FALSE
<1>1. PICK b \in Blocks : WriteReport(b, FALSE)
  BY DEF DiskErrorOnWrite
<1>2. Tidy(posted) /\ AllHonest(posted, disk) /\ PipeType
  BY DEF GInv, TInv, Flow, Told
<1> QED BY <1>1, <1>2, ReportTaken

\* No step undoes a fault.
LEMMA FaultsStay ==
    ASSUME TInv, Next, faults' = 0
    PROVE  faults = 0
<1> USE DEF TInv
<1>1. CASE Flush
  <2>1. PICK i \in Blocks, j \in Blocks, ok \in BOOLEAN :
          \E W \in SUBSET (Cached \cap (i .. j)) : FlushRange(Cached \cap (i .. j), ok, W)
    BY <1>1 DEF Flush
  <2>2. Cached \cap (i .. j) \in SUBSET Blocks
    BY DEF Cached
  <2> QED BY <2>1, <2>2, FlushRangeTyped
<1>2. CASE HashJob
  <2>1. PICK ok \in BOOLEAN, W \in SUBSET Cached : FlushRange(Cached, ok, W)
    BY <1>2 DEF HashJob
  <2>2. Cached \in SUBSET Blocks
    BY DEF Cached
  <2> QED BY <2>1, <2>2, FlushRangeTyped
<1>3. CASE \E p \in Peers : Peer(p)
  <2>1. PICK p \in Peers : Peer(p)
    BY <1>3
  <2>2. CASE Queues(p)
    BY <2>2, QueuesLead
  <2>3. CASE \E good \in BOOLEAN, skipped \in SUBSET Blocks : IncomingPiece(p, good, skipped)
    BY <2>3 DEF IncomingPiece
  <2> QED BY <2>1, <2>2, <2>3 DEF Peer, Queues, Disconnect, Connect, ErasePeer
<1>4. CASE Complete
  BY <1>4 DEF Complete, WriteComplete, DiskErrorOnWrite, StaleVerdict, PiecePassed, PieceFailed,
              DiskErrorOnHash, WriteReport, Verdict, Completion
<1> QED BY <1>1, <1>2, <1>3, <1>4 DEF Next, Disk, LeaveUploadMode, AsyncVerifyPiece,
                                     WriteJob, PostCompletions

\* Every step keeps the invariant.
LEMMA StepKeeps ==
    ASSUME GInv, Next
    PROVE  GInv'
<1>0. TInv
  BY DEF GInv
<1>1. TInv'
  BY <1>0, HereTyped, PipeTyped, PeerTyped, OrphansTyped DEF TInv, Silent
<1> SUFFICES ASSUME faults' = 0
             PROVE  Exact(picker') /\ Numbered(Here') /\ Flow' /\ Behind' /\ Told'
  BY <1>1 DEF GInv
<1>2. faults = 0
  BY <1>0, FaultsStay
<1>3. Ready(Here) /\ Exact(picker) /\ Numbered(Here)
  BY <1>2 DEF GInv, TInv
<1>4. ASSUME UNCHANGED <<picker, rq, dq, cancelled>>
      PROVE  Exact(picker') /\ Numbered(Here')
  <2>1. Here' = Here
    BY <1>4 DEF Here
  <2> QED BY <1>3, <1>4, <2>1
<1>5. ASSUME NEW P, Leads(Here, Here', P), UNCHANGED <<net, storage>>
      PROVE  Exact(picker') /\ Numbered(Here') /\ Flow' /\ Behind' /\ Told'
  <2>1. Here.picker = picker /\ Here'.picker = picker'
    BY DEF Here
  <2>2. Moves(picker, picker') /\ (Numbered(Here) => Numbered(Here'))
    BY <1>5, <2>1 DEF Leads
  <2> QED BY <1>2, <1>5, <2>2, StillFlows
<1>6. CASE \E p \in Peers : Peer(p)
  <2>1. PICK p \in Peers : Peer(p)
    BY <1>6
  <2>2. CASE Queues(p)
    <3>1. Leads(Here, Here', {p}) /\ UNCHANGED <<net, storage>>
      BY <1>3, <2>2, QueuesLead
    <3> QED BY <1>5, <3>1
  <2>3. CASE \E good \in BOOLEAN, skipped \in SUBSET Blocks : IncomingPiece(p, good, skipped)
    <3>1. PICK good \in BOOLEAN, skipped \in SUBSET Blocks : IncomingPiece(p, good, skipped)
      BY <2>3
    <3>2. UNCHANGED <<cache, disk, queued, posted>> /\ net = "idle"
      BY <3>1 DEF IncomingPiece, Idle
    <3>3. CASE Leads(Here, Here', {}) /\ UNCHANGED <<net, jobs>>
      <4>1. UNCHANGED <<net, storage>>
        BY <3>2, <3>3 DEF storage
      <4> QED BY <1>5, <3>3, <4>1
    <3>4. CASE Delivers(p, receiving[p], good)
      <4>1. receiving[p] \in Blocks
        BY <3>4 DEF Delivers
      <4> QED BY <1>2, <3>2, <3>4, <4>1, DeliversFlows
    <3>5. conn \subseteq Peers
      BY <1>0 DEF TInv, PeerType
    <3> QED BY <1>3, <3>1, <3>3, <3>4, <3>5, IncomingPieceSteps
  <2>4. CASE Disconnect(p)
    <3>1. Leads(Here, Here', {}) /\ UNCHANGED <<net, storage>>
      BY <1>3, <2>4, DisconnectLeads DEF Disconnect
    <3> QED BY <1>5, <3>1
  <2>5. CASE Connect(p)
    <3>1. Here' = Here /\ UNCHANGED <<net, storage>>
      BY <2>5 DEF Connect, Here
    <3>2. Leads(Here, Here', {})
      BY <1>3, <3>1, LeadsNowhere
    <3> QED BY <1>5, <3>1, <3>2
  <2>6. CASE ErasePeer(p)
    BY <1>2, <2>6, EraseFlows
  <2> QED BY <2>1, <2>2, <2>3, <2>4, <2>5, <2>6 DEF Peer, Queues
<1>7. CASE LeaveUploadMode
  <2>1. Here' = Here /\ UNCHANGED <<net, storage>>
    BY <1>7 DEF LeaveUploadMode, Here
  <2>2. Leads(Here, Here', {})
    BY <1>3, <2>1, LeadsNowhere
  <2> QED BY <1>5, <2>1, <2>2
<1>8. CASE AsyncVerifyPiece
  BY <1>2, <1>4, <1>8, VerifyFlows DEF AsyncVerifyPiece, network
<1>9. CASE WriteComplete
  BY <1>2, <1>9, WriteCompleteFlows
<1>10. CASE DiskErrorOnWrite
  BY <1>2, <1>10, NoWriteFails
<1>11. CASE PiecePassed \/ PieceFailed \/ DiskErrorOnHash \/ StaleVerdict
  BY <1>2, <1>11, VerdictFlows
<1>12. CASE WriteJob
  BY <1>2, <1>4, <1>12, WriteJobFlows DEF WriteJob, network
<1>13. CASE HashJob
  BY <1>4, <1>13, HashJobFlows DEF HashJob, network
<1>14. CASE PostCompletions
  BY <1>2, <1>4, <1>14, PostFlows DEF PostCompletions, network
<1>15. CASE Flush
  BY <1>4, <1>15, FlushFlows DEF Flush, network
<1> QED BY <1>6, <1>7, <1>8, <1>9, <1>10, <1>11, <1>12, <1>13, <1>14, <1>15 DEF Next, Complete, Disk

\* Nothing is under way at first.
LEMMA InitFlows ==
    ASSUME Init
    PROVE  GInv
<1>1. TInv /\ Exact(picker) /\ Numbered(Here)
  BY InitTyped
<1>2. /\ queued = <<>> /\ posted = <<>> /\ jobs = <<>> /\ net = "idle"
      /\ \A b \in Blocks : cache[b] = NoData /\ picker.state[b] = "none"
      /\ ~picker.have
  BY DEF Init
<1>3. Cached = {}
  BY <1>2 DEF Cached
<1>4. \A b \in Blocks : ~Arrived(picker, b)
  BY <1>2 DEF Arrived
<1>5. Flow /\ Behind
  BY <1>2, <1>3, <1>4, NothingFlows
<1>6. Told
  BY <1>2, NothingOn DEF Told
<1> QED BY <1>1, <1>5, <1>6 DEF GInv

\* The invariant holds, with its guard, whatever the disk does.
LEMMA FlowsAlways == Spec => []GInv
<1>1. Init => GInv
  BY InitFlows
<1>2. GInv /\ [Next]_vars => GInv'
  <2>1. ASSUME GInv, UNCHANGED vars
        PROVE  GInv'
    BY <2>1 DEF GInv, TInv, PipeType, PeerType, OrphanType, Silent, Here, vars, network, storage, Flow, Behind,
                Told, Cached
  <2> QED BY <2>1, StepKeeps
<1> QED BY <1>1, <1>2, PTL DEF Spec

----------------------------------------------------------------------------
(* What follows                                                            *)

\* The counters of the picker follow its blocks through every order of requests,
\* arrivals, aborts, cancels and completions; only a failed write leaves 'requested'
\* too high, and never too low.
THEOREM PickerCounts == Spec => []CountersExact
<1>1. ASSUME GInv
      PROVE  CountersExact
  <2>1. Counted(picker)
    BY <1>1, Lands DEF GInv, TInv, Ready
  <2>2. faults = 0 => Exact(picker)
    BY <1>1 DEF GInv
  <2> QED BY <2>1, <2>2 DEF CountersExact, Counted, Exact, Count, Having
<1> QED BY <1>1, FlowsAlways, PTL

\* Until a write fails num_peers of a block is the number of peers it is asked of.
THEOREM PeersCounted == Spec => []RequestsCounted
<1>1. ASSUME GInv
      PROVE  RequestsCounted
  <2>1. conn \subseteq Peers /\ \A p \in Peers \ conn : Asked(Here, p) = {}
    BY <1>1 DEF GInv, TInv, PeerType, Silent
  <2>2. \A b \in Blocks : Asking(Here, conn, b) = Asking(Here, Peers, b)
    BY <2>1 DEF Asking
  <2>3. faults = 0 => Numbered(Here)
    BY <1>1 DEF GInv
  <2>4. Here.picker = picker
    BY DEF Here
  <2> QED BY <2>2, <2>3, <2>4 DEF RequestsCounted, Numbered, Having, Arrived, IsRequested
<1> QED BY <1>1, FlowsAlways, PTL

\* The peer that would be banned for a block is the one that sent what is on the disk.
THEOREM BlameIsRight == Spec => []BlameTheSender
<1>1. GInv => BlameTheSender
  BY DEF GInv, Told, BlameTheSender, Having
<1> QED BY <1>1, FlowsAlways, PTL

\* Without faults the hash check of a complete piece is always under way.
THEOREM VerdictComes == MaxFaults = 0 => (Spec => []VerdictPending)
<1> SUFFICES ASSUME MaxFaults = 0
             PROVE  Spec => []VerdictPending
  OBVIOUS
<1>1. ASSUME GInv
      PROVE  VerdictPending
  <2>1. faults = 0 /\ Counted(picker)
    BY <1>1, Lands DEF GInv, TInv, PipeType, Ready
  <2> QED BY <1>1, <2>1, FinishedArrived DEF GInv, Behind, VerdictPending
<1> QED BY <1>1, FlowsAlways, PTL

\* Without faults a piece we have is good on the disk and stays so.
THEOREM PassedIsGood == MaxFaults = 0 => (Spec => []HaveIsGood)
<1> SUFFICES ASSUME MaxFaults = 0
             PROVE  Spec => []HaveIsGood
  OBVIOUS
<1>1. ASSUME GInv
      PROVE  HaveIsGood
  <2>1. faults = 0
    BY <1>1 DEF GInv, TInv, PipeType
  <2> QED BY <1>1, <2>1 DEF GInv, Told, HaveIsGood
<1> QED BY <1>1, FlowsAlways, PTL

\* Without faults a piece passes only when every block of it is on the disk.
THEOREM WrittenBeforePassed == MaxFaults = 0 => (Spec => PassedWhenWritten)
<1> SUFFICES ASSUME MaxFaults = 0
             PROVE  Spec => PassedWhenWritten
  OBVIOUS
<1>1. ASSUME GInv, Next, ~picker.have, picker'.have
      PROVE  Having("finished") = Blocks
  <2>1. faults = 0 /\ faults' = 0 /\ Ready(Here) /\ TInv
    <3>1. GInv'
      BY <1>1, StepKeeps
    <3> QED BY <1>1, <3>1 DEF GInv, TInv, PipeType
  <2>2. CASE PiecePassed
    <3>1. Verdict
      BY <2>2 DEF PiecePassed
    <3> QED BY <1>1, <2>1, <3>1, VerdictAlone DEF Having
  <2>3. Here.picker = picker /\ Here'.picker = picker'
    BY DEF Here
  <2>4. ASSUME picker' = picker
        PROVE  FALSE
    BY <1>1, <2>4
  <2>5. ASSUME NEW P, Leads(Here, Here', P)
        PROVE  FALSE
    BY <1>1, <2>3, <2>5 DEF Leads, Moves
  <2>6. CASE \E p \in Peers : Peer(p)
    <3>1. PICK p \in Peers : Peer(p)
      BY <2>6
    <3>2. CASE Queues(p)
      BY <2>1, <2>5, <3>2, QueuesLead
    <3>3. CASE \E good \in BOOLEAN, skipped \in SUBSET Blocks : IncomingPiece(p, good, skipped)
      BY <1>1, <2>1, <2>5, <3>3, IncomingPieceSteps DEF Delivers, TInv, PeerType
    <3>4. CASE Disconnect(p)
      BY <2>1, <2>5, <3>4, DisconnectLeads
    <3>5. CASE Connect(p)
      BY <2>4, <3>5 DEF Connect
    <3>6. CASE ErasePeer(p)
      BY <1>1, <2>1, <3>6, ClearPeerCounted, Lands DEF ErasePeer, Ready
    <3> QED BY <3>1, <3>2, <3>3, <3>4, <3>5, <3>6 DEF Peer, Queues
  <2>7. CASE WriteComplete
    <3>1. PICK b \in Blocks : /\ WriteReport(b, TRUE)
                              /\ picker' = MarkFinished(picker, b, PeerInfo(b))
      BY <2>7 DEF WriteComplete
    <3>2. Tidy(posted) /\ PipeType
      BY <1>1, <2>1 DEF GInv, TInv, Flow
    <3>3. PeerInfo(b) \in Peers \cup {NoPeer} /\ On(posted, b) /\ Counted(picker)
      BY <2>1, <3>1, <3>2, WriteReportTyped, PeerInfoTyped, ReportTaken, Lands DEF Ready, TInv
    <3>4. picker.state[b] = "writing"
      BY <1>1, <2>1, <3>3 DEF GInv, Flow
    <3> QED BY <1>1, <3>1, <3>3, <3>4, MarkFinishedCounted
  <2>8. CASE DiskErrorOnWrite
    BY <1>1, <2>1, <2>8, NoWriteFails
  <2>9. CASE PieceFailed
    BY <1>1, <2>1, <2>9, PieceFailedReady
  <2>10. CASE DiskErrorOnHash
    BY <1>1, <2>1, <2>10, DiskErrorOnHashReady DEF Moves
  <2>11. CASE LeaveUploadMode \/ AsyncVerifyPiece \/ Disk \/ Flush \/ StaleVerdict
    BY <2>4, <2>11 DEF LeaveUploadMode, AsyncVerifyPiece, Disk, WriteJob, HashJob, PostCompletions,
                       Flush, StaleVerdict, network
  <2> QED BY <1>1, <2>2, <2>6, <2>7, <2>8, <2>9, <2>10, <2>11 DEF Next, Complete
<1>2. GInv /\ [Next]_vars => [~picker.have /\ picker'.have => Having("finished") = Blocks]_vars
  BY <1>1
<1> QED BY <1>2, FlowsAlways, PTL DEF Spec, PassedWhenWritten

----------------------------------------------------------------------------
(* In upload mode                                                          *)

\* What was asked for was cancelled, or is being received.
Hushed(s, r) ==
    \A p \in Peers, b \in Blocks :
        s.dq[p][b] = "live" => <<p, b>> \in s.cancelled \/ r[p] = b

\* From s to t no more is awaited, and what was cancelled stays so.
Fewer(s, t) ==
    \A p \in Peers, b \in Blocks : t.dq[p][b] = "live" =>
        s.dq[p][b] = "live" /\ (<<p, b>> \in s.cancelled => <<p, b>> \in t.cancelled)

LEMMA FewerChain ==
    ASSUME NEW s, NEW t, Fewer(s, t)
    PROVE  /\ \A u : Fewer(t, u) => Fewer(s, u)
           /\ \A r : Hushed(s, r) => Hushed(t, r)
BY DEF Fewer, Hushed

LEMMA SameFewer ==
    ASSUME NEW s, NEW t, t.dq = s.dq, t.cancelled = s.cancelled
    PROVE  Fewer(s, t)
BY DEF Fewer

\* The picker and the request queues have no part in it.
LEMMA OtherParts ==
    ASSUME NEW s \in Handlers, NEW pk, NEW q
    PROVE  /\ [s EXCEPT !.picker = pk].dq = s.dq
           /\ [s EXCEPT !.picker = pk].cancelled = s.cancelled
           /\ [s EXCEPT !.picker = pk, !.rq = q].dq = s.dq
           /\ [s EXCEPT !.picker = pk, !.rq = q].cancelled = s.cancelled
BY DEF Handlers

LEMMA DequeuedFewer ==
    ASSUME NEW s \in Handlers, NEW X \in SUBSET (Peers \X Blocks)
    PROVE  LET t == Dequeued(s, X) IN
           /\ t \in Handlers /\ Fewer(s, t)
           /\ \A p \in Peers, b \in Blocks : <<p, b>> \in X => t.dq[p][b] = "no"
<1> DEFINE t == Dequeued(s, X)
           d == [p \in Peers |-> [b \in Blocks |-> IF <<p, b>> \in X THEN "no" ELSE s.dq[p][b]]]
<1>1. /\ t \in Handlers
      /\ \A p \in Peers, b \in Blocks : t.dq[p][b] = IF <<p, b>> \in X THEN "no" ELSE s.dq[p][b]
  BY DequeuedParts
<1>2. t = [s EXCEPT !.dq = d, !.cancelled = s.cancelled \ X]
  BY DEF Dequeued
<1> HIDE DEF d, t
<1>3. t.cancelled = s.cancelled \ X
  BY <1>2 DEF Handlers
<1>4. Fewer(s, t)
  BY <1>1, <1>3 DEF Fewer
<1> QED BY <1>1, <1>4 DEF t

\* incoming_reject_request
LEMMA RejectedFewer ==
    ASSUME NEW s \in Handlers, NEW X \in SUBSET (Peers \X Blocks), NEW P
    PROVE  LET t == Rejected(s, X, P) IN
           /\ Fewer(s, t)
           /\ \A p \in Peers, b \in Blocks : <<p, b>> \in X => t.dq[p][b] = "no"
<1> DEFINE u == Dequeued(s, X)
           t == Rejected(s, X, P)
<1>1. /\ u \in Handlers /\ Fewer(s, u)
      /\ \A p \in Peers, b \in Blocks : <<p, b>> \in X => u.dq[p][b] = "no"
  BY DequeuedFewer
<1>2. PICK pk, q : t = [u EXCEPT !.picker = pk, !.rq = q]
  BY DEF Rejected
<1> HIDE DEF u, t
<1>3. t.dq = u.dq /\ t.cancelled = u.cancelled
  BY <1>1, <1>2, OtherParts
<1>4. Fewer(s, t)
  BY <1>1, <1>3, SameFewer, FewerChain
<1> QED BY <1>1, <1>3, <1>4 DEF t

\* write_cancel
LEMMA CancelledFewer ==
    ASSUME NEW s \in Handlers, NEW X \in SUBSET (Peers \X Blocks), NEW P
    PROVE  LET t == Cancelled(s, X, P) IN
           /\ Fewer(s, t)
           /\ \A p \in Peers, b \in Blocks :
                <<p, b>> \in X /\ t.dq[p][b] = "live" => <<p, b>> \in t.cancelled
<1> DEFINE slow == {x \in X : x[1] \notin Fast}
           u == [s EXCEPT !.cancelled = s.cancelled \cup (X \ slow)]
           t == Cancelled(s, X, P)
<1>1. t = Rejected(u, slow, P)
  BY DEF Cancelled
<1>2. slow \in SUBSET (Peers \X Blocks) /\ X \ slow \in SUBSET (Peers \X Blocks)
  OBVIOUS
<1> HIDE DEF slow, t
<1>3. u \in Handlers /\ u.dq = s.dq /\ u.cancelled = s.cancelled \cup (X \ slow)
  BY <1>2 DEF Handlers
<1> HIDE DEF u
<1>4. Fewer(s, u)
  BY <1>3 DEF Fewer
<1>5. /\ Fewer(u, t)
      /\ \A p \in Peers, b \in Blocks : <<p, b>> \in slow => t.dq[p][b] = "no"
  BY <1>1, <1>2, <1>3, RejectedFewer
<1>6. Fewer(s, t)
  BY <1>4, <1>5, FewerChain
<1>7. ASSUME NEW p \in Peers, NEW b \in Blocks, <<p, b>> \in X, t.dq[p][b] = "live"
      PROVE  <<p, b>> \in t.cancelled
  <2>1. <<p, b>> \notin slow
    BY <1>5, <1>7
  <2>2. <<p, b>> \in u.cancelled
    BY <1>3, <1>7, <2>1
  <2> QED BY <1>5, <1>7, <2>2 DEF Fewer
<1> QED BY <1>6, <1>7 DEF t

\* cancel_all_requests leaves nothing that could still be cancelled.
LEMMA CancelledAllFewer ==
    ASSUME NEW s, Ready(s), NEW C \in SUBSET Peers, NEW P
    PROVE  LET t == CancelledAll(s, C, P) IN
           /\ Fewer(s, t)
           /\ \A p \in C, b \in Blocks :
                t.dq[p][b] = "live" => <<p, b>> \in t.cancelled \/ receiving[p] = b
<1> DEFINE u == Withdrawn(s, C)
           X == {x \in C \X Blocks : u.dq[x[1]][x[2]] # "no" /\ receiving[x[1]] # x[2]}
           t == CancelledAll(s, C, P)
<1>1. u \in Handlers /\ u.dq = s.dq /\ u.cancelled = s.cancelled
  BY WithdrawnLeads DEF Leads
<1>2. t = Cancelled(u, X, P)
  BY DEF CancelledAll
<1>3. X \in SUBSET (Peers \X Blocks)
  OBVIOUS
<1>4. \A p \in C, b \in Blocks : u.dq[p][b] # "no" /\ receiving[p] # b => <<p, b>> \in X
  OBVIOUS
<1> HIDE DEF u, X, t
<1>5. /\ Fewer(u, t)
      /\ \A p \in Peers, b \in Blocks :
           <<p, b>> \in X /\ t.dq[p][b] = "live" => <<p, b>> \in t.cancelled
  BY <1>1, <1>2, <1>3, CancelledFewer
<1>6. Fewer(s, t)
  BY <1>1, <1>5, SameFewer, FewerChain
<1>7. ASSUME NEW p \in C, NEW b \in Blocks, t.dq[p][b] = "live", receiving[p] # b
      PROVE  <<p, b>> \in t.cancelled
  <2>1. p \in Peers /\ u.dq[p][b] = "live"
    BY <1>5, <1>7 DEF Fewer
  <2> QED BY <1>4, <1>5, <1>7, <2>1
<1> QED BY <1>6, <1>7 DEF t

\* cancel_block
LEMMA CancelledBlockFewer ==
    ASSUME NEW s, Ready(s), conn \subseteq Peers, NEW b \in Blocks
    PROVE  Fewer(s, CancelledBlock(s, b))
<1> DEFINE unsent == {p \in conn : s.dq[p][b] = "no" /\ b \in s.rq[p]} \X {b}
           sent == {p \in conn : s.dq[p][b] # "no"} \X {b}
           u == [Unqueued(s, unsent) EXCEPT !.picker = Abort(@, unsent)]
           t == CancelledBlock(s, b)
<1>1. t = IF ~IsRequested(s.picker, b) THEN s ELSE Cancelled(u, sent, parole)
  BY DEF CancelledBlock
<1>2. /\ unsent \in SUBSET (Peers \X Blocks) /\ sent \in SUBSET (Peers \X Blocks)
      /\ \A p \in Peers, c \in Blocks : <<p, c>> \in unsent => c \in s.rq[p]
  OBVIOUS
<1>3. Leads(s, u, {}) /\ u.dq = s.dq /\ u.cancelled = s.cancelled
  <2> HIDE DEF unsent
  <2> QED BY <1>2, UnqueuedLeads
<1> HIDE DEF unsent, sent, u, t
<1>4. Fewer(u, Cancelled(u, sent, parole))
  BY <1>2, <1>3, CancelledFewer DEF Leads
<1>5. Fewer(s, Cancelled(u, sent, parole)) /\ Fewer(s, s)
  BY <1>3, <1>4, SameFewer, FewerChain
<1> QED BY <1>1, <1>5 DEF t

\* disconnect
LEMMA DisconnectedFewer ==
    ASSUME NEW s, Ready(s), NEW C \in SUBSET Peers
    PROVE  LET t == Disconnected(s, C) IN
           /\ t \in Handlers /\ Fewer(s, t)
           /\ \A p \in C, b \in Blocks : t.dq[p][b] = "no"
<1> DEFINE u == Withdrawn(s, C)
           X == C \X Blocks
           v == Dequeued(u, X)
           t == Disconnected(s, C)
<1>1. u \in Handlers /\ u.dq = s.dq /\ u.cancelled = s.cancelled
  BY WithdrawnLeads DEF Leads
<1>2. PICK pk : t = [v EXCEPT !.picker = pk]
  BY DEF Disconnected
<1>3. X \in SUBSET (Peers \X Blocks) /\ \A p \in C, b \in Blocks : p \in Peers /\ <<p, b>> \in X
  OBVIOUS
<1>4. t \in Handlers
  BY DisconnectedLeads DEF Leads
<1> HIDE DEF u, X, t
<1>5. /\ v \in Handlers /\ Fewer(u, v)
      /\ \A p \in Peers, b \in Blocks : <<p, b>> \in X => v.dq[p][b] = "no"
  BY <1>1, <1>3, DequeuedFewer
<1> HIDE DEF v
<1>6. t.dq = v.dq /\ t.cancelled = v.cancelled
  BY <1>2, <1>5, OtherParts
<1>7. Fewer(s, t)
  BY <1>1, <1>5, <1>6, SameFewer, FewerChain
<1>8. \A p \in C, b \in Blocks : t.dq[p][b] = "no"
  BY <1>3, <1>5, <1>6
<1> QED BY <1>4, <1>7, <1>8 DEF t

\* restore_piece
LEMMA RestoredFewer ==
    ASSUME NEW s \in Handlers, NEW C, NEW last
    PROVE  Fewer(s, Restored(s, C, last))
<1> DEFINE t == Restored(s, C, last)
<1>1. PICK pk : t = [s EXCEPT !.picker = pk]
  BY DEF Restored
<1> HIDE DEF t
<1>2. t.dq = s.dq /\ t.cancelled = s.cancelled
  BY <1>1, OtherParts
<1> QED BY <1>2, SameFewer DEF t

HInv == uploadMode => Hushed(Here, receiving)
UInv == TInv /\ HInv

\* A step that asks for no more, and stops receiving only what nobody awaits then.
LEMMA StaysHushed ==
    ASSUME HInv, NEW t, Here' = t, Fewer(Here, t), uploadMode' => uploadMode,
           \A p \in Peers, b \in Blocks :
               t.dq[p][b] = "live" /\ receiving[p] = b => receiving'[p] = b
    PROVE  HInv'
<1>1. uploadMode => Hushed(t, receiving)
  BY FewerChain DEF HInv
<1>2. Hushed(t, receiving) => Hushed(t, receiving')
  BY DEF Hushed
<1> QED BY <1>1, <1>2 DEF HInv

\* The peers C leave.
LEMMA LeaveHushed ==
    ASSUME HInv, uploadMode' => uploadMode, NEW s, Ready(s), s.dq = dq, s.cancelled = cancelled,
           NEW C \in SUBSET Peers, NEW D, C = D \cap conn,
           NEW t \in Handlers, Here' = t, Fewer(Disconnected(s, C), t), Silent, conn \subseteq Peers,
           receiving' = [p \in Peers |-> IF p \in D THEN NoBlock ELSE receiving[p]]
    PROVE  HInv'
<1> DEFINE u == Disconnected(s, C)
<1>1. /\ Fewer(s, u) /\ \A p \in C, b \in Blocks : u.dq[p][b] = "no"
  BY DisconnectedFewer
<1>2. Fewer(u, t)
  OBVIOUS
<1> HIDE DEF u
<1>3. Fewer(Here, s)
  BY Lands, SameFewer
<1>4. Fewer(Here, t)
  BY <1>1, <1>2, <1>3, FewerChain
<1>5. ASSUME NEW p \in Peers, NEW b \in Blocks, t.dq[p][b] = "live", receiving[p] = b
      PROVE  receiving'[p] = b
  <2>1. p \notin C
    BY <1>1, <1>2, <1>5 DEF Fewer
  <2>2. p \in conn
    <3>1. Here.dq[p][b] = "live"
      BY <1>4, <1>5 DEF Fewer
    <3>2. b \in Asked(Here, p)
      BY <3>1 DEF Asked
    <3> QED BY <3>2 DEF Silent
  <2>3. p \notin D
    BY <2>1, <2>2
  <2> QED BY <1>5, <2>3
<1> QED BY <1>4, <1>5, StaysHushed

\* What a peer sends while nothing is asked for.
LEMMA QueuesHushed ==
    ASSUME UInv, NEW p \in Peers, Queues(p)
    PROVE  HInv'
<1> USE DEF UInv, TInv
<1>1. uploadMode' = uploadMode
  BY QueuesLead
<1>2. Here' \in Handlers
  BY QueuesLead DEF Leads
<1>3. CASE ~uploadMode
  BY <1>1, <1>3 DEF HInv
<1>4. CASE uploadMode /\ StartReceivePiece(p)
  <2>1. PICK b \in Blocks :
          /\ receiving' = [receiving EXCEPT ![p] = b] /\ receiving[p] = NoBlock
          /\ Becomes(IF dq[p][b] # "no" THEN Here
                     ELSE [Unqueued(Here, {<<p, b>>}) EXCEPT
                              !.dq[p][b] = IF b \in rq[p] THEN "live" ELSE "not_wanted"])
    BY <1>4 DEF StartReceivePiece
  <2>2. /\ cancelled' = cancelled /\ dq \in [Peers -> [Blocks -> Marks]]
        /\ \A q \in Peers, c \in Blocks : q # p \/ c # b => dq'[q][c] = dq[q][c]
    <3> DEFINE u == Unqueued(Here, {<<p, b>>})
               m == IF b \in rq[p] THEN "live" ELSE "not_wanted"
    <3>1. u \in Handlers /\ u.dq = dq /\ u.cancelled = cancelled
      <4>1. {<<p, b>>} \in SUBSET (Peers \X Blocks)
        OBVIOUS
      <4> QED BY <4>1, UnqueuedParts, Lands DEF Ready
    <3>2. Becomes(IF dq[p][b] # "no" THEN Here ELSE [u EXCEPT !.dq[p][b] = m])
      BY <2>1
    <3>3. dq \in [Peers -> [Blocks -> Marks]]
      BY <3>1, Parts
    <3> HIDE DEF u, m
    <3>4. [u EXCEPT !.dq[p][b] = m].dq = [dq EXCEPT ![p][b] = m]
      BY <3>1 DEF Handlers
    <3>5. [u EXCEPT !.dq[p][b] = m].cancelled = cancelled
      BY <3>1 DEF Handlers
    <3>6. dq' = dq \/ dq' = [dq EXCEPT ![p][b] = m]
      BY <3>2, <3>4, Lands DEF Becomes
    <3>7. cancelled' = cancelled
      BY <3>2, <3>5, Lands DEF Becomes
    <3> QED BY <3>3, <3>6, <3>7
  <2>3. NoBlock \notin Blocks
    BY PieceAssumption DEF Blocks, NoBlock
  <2>4. \A q \in Peers, c \in Blocks : dq[q][c] = "live" => <<q, c>> \in cancelled \/ receiving[q] = c
    BY <1>4, Lands DEF HInv, Hushed
  <2>5. receiving \in [Peers -> Blocks \cup {NoBlock}]
    BY DEF PeerType
  <2>6. ASSUME NEW q \in Peers, NEW c \in Blocks, dq'[q][c] = "live"
        PROVE  <<q, c>> \in cancelled' \/ receiving'[q] = c
    <3>1. CASE q = p /\ c = b
      BY <2>1, <2>5, <3>1
    <3>2. CASE q # p \/ c # b
      <4>1. dq[q][c] = "live"
        BY <2>2, <2>6, <3>2
      <4>2. <<q, c>> \in cancelled \/ receiving[q] = c
        BY <2>4, <4>1
      <4>3. receiving[q] = c => q # p
        BY <2>1, <2>3
      <4> QED BY <2>1, <2>2, <2>5, <4>2, <4>3
    <3> QED BY <3>1, <3>2
  <2> QED BY <2>6 DEF HInv, Hushed, Here
<1>5. CASE uploadMode /\ ~StartReceivePiece(p)
  <2>1. receiving' = receiving /\ (IncomingReject(p) \/ IncomingChoke(p) \/ SnubPeer(p))
    BY <1>5 DEF Queues, RequestABlock, SendBlockRequest, IncomingReject, IncomingChoke, SnubPeer
  <2>2. Fewer(Here, Here')
    <3>1. CASE IncomingReject(p)
      <4>1. PICK b \in Entries(Here, p) : Becomes(Rejected(Here, {<<p, b>>}, parole))
        BY <3>1 DEF IncomingReject
      <4>2. {<<p, b>>} \in SUBSET (Peers \X Blocks)
        BY DEF Entries
      <4>3. /\ Fewer(Here, Rejected(Here, {<<p, b>>}, parole))
            /\ Rejected(Here, {<<p, b>>}, parole) \in Handlers
        BY <4>2, RejectedFewer, RejectedLeads DEF Ready, Leads
      <4> QED BY <4>1, <4>3, Lands
    <3>2. CASE IncomingChoke(p)
      <4> DEFINE s == IF p \in parole THEN Here ELSE Withdrawn(Here, {p})
                 X == {p} \X Entries(s, p)
                 t == IF p \in Fast THEN s ELSE Rejected(s, X, parole)
      <4>1. Becomes(t)
        BY <3>2 DEF IncomingChoke
      <4>2. Ready(s) /\ s.dq = Here.dq /\ s.cancelled = Here.cancelled
        BY WithdrawnLeads, LeadsChain
      <4>3. X \in SUBSET (Peers \X Blocks)
        BY DEF Entries
      <4> HIDE DEF s, X
      <4>4. Fewer(Here, s) /\ Fewer(s, Rejected(s, X, parole)) /\ Rejected(s, X, parole) \in Handlers
        BY <4>2, <4>3, SameFewer, RejectedFewer, RejectedLeads DEF Ready, Leads
      <4>5. Fewer(Here, t) /\ t \in Handlers
        BY <4>2, <4>4, FewerChain DEF Ready
      <4> HIDE DEF t
      <4> QED BY <4>1, <4>5, Lands
    <3>3. CASE SnubPeer(p)
      <4> DEFINE s == Withdrawn(Here, {p})
      <4>1. \/ Becomes(s)
            \/ \E b \in Blocks : Becomes([s EXCEPT !.dq[p][b] = "timed_out",
                                                   !.picker = Abort(@, {<<p, b>>})])
        BY <1>5, <3>3 DEF SnubPeer
      <4>2. s \in Handlers /\ s.dq = Here.dq /\ s.cancelled = Here.cancelled
        BY WithdrawnLeads DEF Leads
      <4> HIDE DEF s
      <4>3. CASE Becomes(s)
        BY <4>2, <4>3, Lands, SameFewer
      <4>4. CASE \E b \in Blocks : Becomes([s EXCEPT !.dq[p][b] = "timed_out",
                                                     !.picker = Abort(@, {<<p, b>>})])
        <5>1. PICK b \in Blocks : Becomes([s EXCEPT !.dq[p][b] = "timed_out",
                                                    !.picker = Abort(@, {<<p, b>>})])
          BY <4>4
        <5>2. dq \in [Peers -> [Blocks -> Marks]]
          BY Lands, Parts DEF Ready
        <5>3. dq' = [dq EXCEPT ![p][b] = "timed_out"]
          BY <4>2, <5>1, Lands DEF Becomes, Handlers
        <5>4. cancelled' = cancelled
          BY <4>2, <5>1, Lands DEF Becomes, Handlers
        <5>5. \A q \in Peers, c \in Blocks : dq'[q][c] = "live" => dq[q][c] = "live"
          BY <5>2, <5>3
        <5> QED BY <5>4, <5>5 DEF Fewer, Here
      <4> QED BY <4>1, <4>3, <4>4
    <3> QED BY <2>1, <3>1, <3>2, <3>3
  <2> QED BY <1>1, <2>1, <2>2, StaysHushed
<1> QED BY <1>3, <1>4, <1>5

\* A block that arrives is awaited no more.
LEMMA IncomingPieceHushed ==
    ASSUME UInv, NEW p \in Peers, NEW good \in BOOLEAN, NEW skipped \in SUBSET Blocks,
           IncomingPiece(p, good, skipped)
    PROVE  HInv'
<1> USE DEF UInv, TInv
<1> DEFINE b == receiving[p]
           X == {p} \X skipped
           s == [Dequeued(Here, X) EXCEPT !.picker = Abort(@, Live(Here, X))]
           u == Dequeued(s, {<<p, b>>})
           taken == Taken(s, p, b)
           final == IF s.picker.num_peers[b] > 1 THEN CancelledBlock(taken, b) ELSE taken
<1>1. /\ b \in Blocks /\ receiving' = [receiving EXCEPT ![p] = NoBlock]
      /\ uploadMode' = uploadMode
      /\ \/ dq[p][b] = "no" /\ Becomes(Here)
         \/ Becomes(u)
         \/ ~IsDownloaded(s.picker, b) /\ Becomes(final)
  BY DEF IncomingPiece, Taken, Peerless
<1>2. X \in SUBSET (Peers \X Blocks) /\ {<<p, b>>} \in SUBSET (Peers \X Blocks)
  BY <1>1
<1>3. receiving \in [Peers -> Blocks \cup {NoBlock}] /\ conn \subseteq Peers
  BY DEF PeerType
<1>4. Ready(s) /\ Fewer(Here, s)
  <2>1. Leads(Here, s, {})
    BY <1>2, DroppedLeads
  <2>2. Dequeued(Here, X) \in Handlers /\ Fewer(Here, Dequeued(Here, X))
    BY <1>2, DequeuedFewer DEF Ready
  <2>3. s.dq = Dequeued(Here, X).dq /\ s.cancelled = Dequeued(Here, X).cancelled
    BY <2>2, OtherParts
  <2>4. Fewer(Dequeued(Here, X), s)
    <3> HIDE DEF s
    <3> QED BY <2>3, SameFewer
  <2> HIDE DEF s
  <2> QED BY <2>1, <2>2, <2>4, FewerChain, LeadsChain
<1> HIDE DEF X, b, s
<1>5. u \in Handlers /\ Fewer(s, u) /\ u.dq[p][b] = "no"
  BY <1>1, <1>2, <1>4, DequeuedFewer DEF Ready
<1>6. CASE ~IsDownloaded(s.picker, b) /\ Becomes(final)
  <2>1. Ready(taken)
    BY <1>1, <1>4, <1>6, TakenReady DEF IsDownloaded, Arrived
  <2>2. taken.dq = u.dq /\ taken.cancelled = u.cancelled
    BY <1>5, OtherParts DEF Taken
  <2> HIDE DEF u, taken
  <2>3. Fewer(Here, taken)
    BY <1>4, <1>5, <2>2, SameFewer, FewerChain
  <2>4. Fewer(taken, final) /\ final \in Handlers
    BY <1>1, <1>3, <2>1, CancelledBlockFewer, CancelledBlockLeads, SameFewer DEF Leads, Ready
  <2>5. Becomes(final)
    BY <1>6
  <2> HIDE DEF final
  <2>6. Here' = final /\ Fewer(Here, final) /\ final.dq[p][b] # "live"
    BY <1>1, <1>5, <2>2, <2>3, <2>4, <2>5, Lands, FewerChain DEF Fewer
  <2> QED BY <1>1, <1>3, <2>6, StaysHushed DEF b
<1>7. CASE Becomes(u)
  <2> HIDE DEF u
  <2>1. Here' = u /\ Fewer(Here, u)
    BY <1>4, <1>5, <1>7, Lands, FewerChain
  <2> QED BY <1>1, <1>3, <1>5, <2>1, StaysHushed DEF b
<1>8. CASE dq[p][b] = "no" /\ Becomes(Here)
  <2>1. Here' = Here /\ Fewer(Here, Here)
    BY <1>8, Lands, SameFewer DEF Ready
  <2> QED BY <1>1, <1>3, <1>8, <2>1, Lands, StaysHushed DEF b
<1> QED BY <1>1, <1>6, <1>7, <1>8

\* restore_piece, once the peers C are gone.
LEMMA RestoreHushed ==
    ASSUME UInv, uploadMode' = uploadMode, NEW C \in SUBSET Peers, NEW D, C = D \cap conn,
           NEW last \in Downloaders(Disconnected(Here, C), conn \ D),
           Becomes(Restored(Disconnected(Here, C), conn \ D, last)),
           ~Disconnected(Here, C).picker.have,
           receiving' = [p \in Peers |-> IF p \in D THEN NoBlock ELSE receiving[p]]
    PROVE  HInv'
<1> USE DEF UInv, TInv
<1> DEFINE s == Disconnected(Here, C)
           t == Restored(s, conn \ D, last)
<1>1. Ready(s)
  <2> HIDE DEF s
  <2>1. Leads(Here, Disconnected(Here, C), {})
    BY DisconnectedLeads
  <2> QED BY <2>1, LeadsChain DEF s
<1>2. conn \subseteq Peers /\ conn \ D \in SUBSET Peers
  BY DEF PeerType
<1>3. Becomes(t) /\ ~s.picker.have /\ last \in Downloaders(s, conn \ D)
  OBVIOUS
<1> HIDE DEF s
<1>4. Ready(t) /\ Fewer(s, t)
  BY <1>1, <1>2, <1>3, RestoredReady, RestoredFewer DEF Ready
<1> HIDE DEF t
<1>5. Here' = t /\ t \in Handlers
  BY <1>3, <1>4, Lands DEF Ready
<1>6. Fewer(Disconnected(Here, C), t)
  BY <1>4 DEF s
<1> QED BY <1>2, <1>5, <1>6, Lands, LeaveHushed

\* The peers C leave, and nothing else happens to the queues.
LEMMA DropHushed ==
    ASSUME UInv, uploadMode' = uploadMode, NEW s, Ready(s), s.dq = dq, s.cancelled = cancelled,
           NEW C \in SUBSET conn, Becomes(Disconnected(s, C)),
           receiving' = [p \in Peers |-> IF p \in C THEN NoBlock ELSE receiving[p]]
    PROVE  HInv'
<1> USE DEF UInv, TInv
<1> DEFINE t == Disconnected(s, C)
<1>1. conn \subseteq Peers /\ C \in SUBSET Peers /\ C = C \cap conn
  BY DEF PeerType
<1>2. t \in Handlers /\ Becomes(t)
  BY <1>1, DisconnectedFewer
<1> HIDE DEF t
<1>3. Here' = t
  BY <1>2, Lands
<1>4. Fewer(t, t)
  BY SameFewer
<1>5. Fewer(Disconnected(s, C), t)
  BY <1>4 DEF t
<1> QED BY <1>1, <1>2, <1>3, <1>5, LeaveHushed

\* A full disk cancels what is asked for; any other error costs some peers their
\* connection.
LEMMA DiskErrorHushed ==
    ASSUME UInv, DiskErrorOnWrite
    PROVE  HInv'
<1> USE DEF UInv, TInv
<1>1. PICK b \in Blocks :
        LET s == [Here EXCEPT !.picker = WriteFailed(@, b)] IN
        \/ \E C \in SUBSET conn : Drop(s, C, OrphansLeft(b), posted') /\ UNCHANGED uploadMode
        \/ /\ uploadMode' = TRUE
           /\ Becomes(IF uploadMode THEN s ELSE CancelledAll(s, conn, parole))
           /\ UNCHANGED <<conn, receiving>>
  BY DEF DiskErrorOnWrite
<1> DEFINE pk == WriteFailed(picker, b)
           s == [Here EXCEPT !.picker = pk]
<1>2. Counted(pk)
  BY WriteFailedCounted, Lands DEF Ready
<1>3. Ready(s) /\ \A p \in Peers : Asked(s, p) = Asked(Here, p)
  <2> HIDE DEF pk
  <2> QED BY <1>2, WithPicker
<1>4. s.dq = dq /\ s.cancelled = cancelled
  <2> HIDE DEF pk
  <2> QED BY OtherParts, Lands DEF Ready
<1>5. s = [Here EXCEPT !.picker = WriteFailed(@, b)]
  BY Lands
<1>6. \/ \E C \in SUBSET conn : Drop(s, C, OrphansLeft(b), posted') /\ uploadMode' = uploadMode
      \/ /\ Becomes(IF uploadMode THEN s ELSE CancelledAll(s, conn, parole))
         /\ conn' = conn /\ receiving' = receiving
  BY <1>1, <1>5
<1> HIDE DEF s
<1>7. conn \in SUBSET Peers
  BY DEF PeerType
<1>8. ASSUME NEW C \in SUBSET conn, Drop(s, C, OrphansLeft(b), posted'), uploadMode' = uploadMode
      PROVE  HInv'
  BY <1>3, <1>4, <1>8, DropHushed DEF Drop
<1>9. CASE /\ Becomes(IF uploadMode THEN s ELSE CancelledAll(s, conn, parole))
           /\ conn' = conn /\ receiving' = receiving
  <2>1. Fewer(Here, s)
    BY <1>4, Lands, SameFewer
  <2>2. CASE uploadMode
    <3>1. Here' = s
      BY <1>3, <1>9, <2>2, Lands DEF Ready
    <3>2. Hushed(s, receiving)
      BY <2>1, <2>2, FewerChain DEF HInv
    <3> QED BY <1>9, <3>1, <3>2 DEF HInv
  <2>3. CASE ~uploadMode
    <3> DEFINE t == CancelledAll(s, conn, parole)
    <3>1. Leads(s, t, {})
      BY <1>3, <1>7, CancelledAllLeads
    <3>2. /\ Fewer(s, t)
          /\ \A p \in conn, c \in Blocks :
               t.dq[p][c] = "live" => <<p, c>> \in t.cancelled \/ receiving[p] = c
      BY <1>3, <1>7, CancelledAllFewer
    <3>3. Becomes(t)
      BY <1>9, <2>3
    <3> HIDE DEF t
    <3>4. Here' = t
      BY <3>1, <3>3, Lands DEF Leads
    <3>5. Fewer(Here, t)
      BY <2>1, <3>2, FewerChain
    <3>6. ASSUME NEW p \in Peers, NEW c \in Blocks, t.dq[p][c] = "live"
          PROVE  <<p, c>> \in t.cancelled \/ receiving[p] = c
      <4>1. c \in Asked(Here, p)
        BY <3>5, <3>6 DEF Fewer, Asked
      <4>2. p \in conn
        BY <4>1 DEF Silent
      <4> QED BY <3>2, <3>6, <4>2
    <3>7. Hushed(t, receiving)
      BY <3>6 DEF Hushed
    <3> QED BY <1>9, <3>4, <3>7 DEF HInv
  <2> QED BY <2>2, <2>3
<1> QED BY <1>6, <1>8, <1>9

\* The piece starts over, with what is still asked for.
LEMMA PieceFailedHushed ==
    ASSUME UInv, PieceFailed
    PROVE  HInv'
<1> USE DEF UInv, TInv
<1>1. PICK B \in SUBSET Contributors :
        /\ conn' = conn \ B
        /\ receiving' = [p \in Peers |-> IF p \in B THEN NoBlock ELSE receiving[p]]
        /\ LET s == Disconnected(Here, B \cap conn) IN
           \E last \in Downloaders(s, conn \ B) : Becomes(Restored(s, conn \ B, last))
  BY DEF PieceFailed
<1> DEFINE s == Disconnected(Here, B \cap conn)
<1>2. conn \in SUBSET Peers /\ B \cap conn \in SUBSET Peers
  BY DEF PeerType
<1>3. Leads(Here, s, {})
  BY <1>2, DisconnectedLeads
<1>4. PICK last \in Downloaders(s, conn \ B) : Becomes(Restored(s, conn \ B, last))
  BY <1>1
<1> HIDE DEF s
<1>5. ~s.picker.have
  <2>1. picker.downloading /\ Counted(picker)
    BY Lands DEF PieceFailed, IsPieceFinished, Ready
  <2> QED BY <1>3, <2>1, Lands DEF Leads, Moves, Counted
<1>6. uploadMode' = uploadMode
  BY DEF PieceFailed
<1> QED BY <1>1, <1>2, <1>4, <1>5, <1>6, RestoreHushed DEF s

LEMMA DiskErrorOnHashHushed ==
    ASSUME UInv, DiskErrorOnHash
    PROVE  HInv'
<1> USE DEF UInv, TInv
<1>1. PICK C \in {{}, conn} :
        LET s == Disconnected(Here, C) IN
        /\ receiving' = [p \in Peers |-> IF p \in C THEN NoBlock ELSE receiving[p]]
        /\ IF IsPieceFinished(s.picker)
           THEN \E last \in Downloaders(s, conn \ C) : Becomes(Restored(s, conn \ C, last))
           ELSE Becomes(s)
  BY DEF DiskErrorOnHash
<1> DEFINE s == Disconnected(Here, C)
<1>2. conn \in SUBSET Peers /\ C \in SUBSET Peers /\ C \in SUBSET conn /\ C = C \cap conn
  BY DEF PeerType
<1>3. Leads(Here, s, {})
  BY <1>2, DisconnectedLeads
<1>4. IF IsPieceFinished(s.picker)
      THEN \E last \in Downloaders(s, conn \ C) : Becomes(Restored(s, conn \ C, last))
      ELSE Becomes(s)
  BY <1>1
<1> HIDE DEF s
<1>5. uploadMode' = uploadMode
  BY DEF DiskErrorOnHash
<1>6. CASE IsPieceFinished(s.picker)
  <2>1. PICK last \in Downloaders(s, conn \ C) : Becomes(Restored(s, conn \ C, last))
    BY <1>4, <1>6
  <2>2. ~s.picker.have
    BY <1>3, <1>6 DEF Leads, Moves, Counted, IsPieceFinished
  <2> QED BY <1>1, <1>2, <1>5, <2>1, <2>2, RestoreHushed DEF s
<1>7. CASE ~IsPieceFinished(s.picker)
  <2>1. Becomes(s)
    BY <1>4, <1>7
  <2> QED BY <1>1, <1>2, <1>5, <2>1, Lands, DropHushed DEF s
<1> QED BY <1>6, <1>7

\* Every step keeps what was asked for cancelled, as long as upload mode lasts.
LEMMA StepHushed ==
    ASSUME UInv, Next
    PROVE  HInv'
<1> USE DEF UInv, TInv
<1>1. ASSUME dq' = dq, cancelled' = cancelled, receiving' = receiving, uploadMode' = uploadMode
      PROVE  HInv'
  BY <1>1, Lands DEF HInv, Hushed, Here
<1>2. CASE \E p \in Peers : Peer(p)
  <2>1. PICK p \in Peers : Peer(p)
    BY <1>2
  <2>2. CASE Queues(p)
    BY <2>2, QueuesHushed
  <2>3. CASE \E good \in BOOLEAN, skipped \in SUBSET Blocks : IncomingPiece(p, good, skipped)
    BY <2>3, IncomingPieceHushed
  <2>4. CASE Disconnect(p)
    <3>1. /\ Becomes(Disconnected(Here, {p})) /\ uploadMode' = uploadMode
          /\ receiving' = [receiving EXCEPT ![p] = NoBlock] /\ p \in conn
      BY <2>4 DEF Disconnect, Idle
    <3>2. receiving' = [q \in Peers |-> IF q \in {p} THEN NoBlock ELSE receiving[q]]
      BY <3>1 DEF PeerType
    <3>3. {p} \in SUBSET conn
      BY <3>1
    <3> QED BY <3>1, <3>2, <3>3, Lands, DropHushed
  <2>5. CASE Connect(p) \/ ErasePeer(p)
    BY <1>1, <2>5 DEF Connect, ErasePeer
  <2> QED BY <2>1, <2>2, <2>3, <2>4, <2>5 DEF Peer, Queues
<1>3. CASE LeaveUploadMode
  BY <1>3 DEF LeaveUploadMode, HInv
<1>4. CASE AsyncVerifyPiece \/ Disk \/ Flush \/ StaleVerdict
  BY <1>1, <1>4 DEF AsyncVerifyPiece, Disk, WriteJob, HashJob, PostCompletions,
                    Flush, StaleVerdict, network
<1>5. CASE WriteComplete \/ PiecePassed
  BY <1>1, <1>5 DEF WriteComplete, PiecePassed
<1>6. CASE DiskErrorOnWrite
  BY <1>6, DiskErrorHushed
<1>7. CASE PieceFailed
  BY <1>7, PieceFailedHushed
<1>8. CASE DiskErrorOnHash
  BY <1>8, DiskErrorOnHashHushed
<1> QED BY <1>2, <1>3, <1>4, <1>5, <1>6, <1>7, <1>8 DEF Next, Complete

\* torrent::set_upload_mode drops or cancels every request it finds
\* (cancel_all_requests), and none is made before the mode is left: whatever the
\* peers send, whoever connects and whatever piece fails, no block is awaited.
THEOREM UploadIsQuiet == Spec => []UploadModeQuiet
<1>1. Init => HInv
  BY DEF Init, HInv
<1>2. UInv /\ [Next]_vars => HInv'
  <2>1. ASSUME HInv, UNCHANGED vars
        PROVE  HInv'
    BY <2>1 DEF HInv, Hushed, Here, vars, network
  <2> QED BY <2>1, StepHushed DEF UInv
<1>3. UInv => UploadModeQuiet
  <2>1. UInv => conn \subseteq Peers
    BY DEF UInv, TInv, PeerType
  <2> QED BY <2>1, Lands DEF UInv, HInv, Hushed, UploadModeQuiet
<1> QED BY <1>1, <1>2, <1>3, TypedAlways, PTL DEF Spec, UInv
============================================================================
