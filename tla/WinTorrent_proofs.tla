-------------------------- MODULE WinTorrent_proofs --------------------------
(***************************************************************************)
(* The safety of WinTorrent for any torrents, tags and bounds.               *)
(***************************************************************************)
EXTENDS WinTorrent, FiniteSetTheorems, SequenceTheorems, TLAPS

----------------------------------------------------------------------------
(* Counting the elements of a sequence that are in a set                         *)

Places(q, T) == {i \in DOMAIN q : q[i] \in T}
Count(q, T) == Cardinality(Places(q, T))

LEMMA PlacesFinite ==
  ASSUME NEW S, NEW q \in Seq(S), NEW T
  PROVE  /\ Places(q, T) \in SUBSET (1..Len(q)) /\ IsFiniteSet(Places(q, T))
         /\ Count(q, T) \in Nat
<1>1. DOMAIN q = 1..Len(q) /\ Len(q) \in Nat
  BY LenProperties
<1>2. Places(q, T) \subseteq 1..Len(q)
  BY <1>1 DEF Places
<1>3. IsFiniteSet(1..Len(q))
  BY <1>1, FS_Interval
<1>4. IsFiniteSet(Places(q, T))
  BY <1>2, <1>3, FS_Subset
<1>5. QED
  BY <1>2, <1>4, FS_CardinalityType DEF Count

LEMMA CountConcat ==
  ASSUME NEW S, NEW a \in Seq(S), NEW b \in Seq(S), NEW T
  PROVE  a \o b \in Seq(S) /\ Count(a \o b, T) = Count(a, T) + Count(b, T)
<1> DEFINE m == Len(a)
           n == Len(b)
           A == Places(a, T)
           B == Places(b, T)
           C == {m + i : i \in B}
<1>1. m \in Nat /\ n \in Nat /\ DOMAIN a = 1..m /\ DOMAIN b = 1..n
  BY LenProperties
<1>2. /\ a \o b \in Seq(S) /\ DOMAIN (a \o b) = 1..(m + n)
      /\ \A i \in 1..(m + n) : (a \o b)[i] = IF i <= m THEN a[i] ELSE b[i - m]
  BY ConcatProperties, LenProperties
<1>3. A \in SUBSET (1..m) /\ B \in SUBSET (1..n) /\ IsFiniteSet(A) /\ IsFiniteSet(B)
  BY PlacesFinite
<1>4. \A i \in 1..m : i \in A <=> a[i] \in T
  BY <1>1 DEF Places
<1>5. \A i \in 1..n : i \in B <=> b[i] \in T
  BY <1>1 DEF Places
<1>6. Places(a \o b, T) = {i \in 1..(m + n) : (IF i <= m THEN a[i] ELSE b[i - m]) \in T}
  BY <1>2 DEF Places
<1> HIDE DEF m, n, A, B
<1>7. {i \in 1..(m + n) : (IF i <= m THEN a[i] ELSE b[i - m]) \in T} = A \cup C
  <2>1. PICK P : P = {i \in 1..(m + n) : (IF i <= m THEN a[i] ELSE b[i - m]) \in T}
    OBVIOUS
  <2>2. ASSUME NEW i \in P PROVE i \in A \cup C
    <3>1. i \in 1..(m + n) /\ (IF i <= m THEN a[i] ELSE b[i - m]) \in T
      BY <2>1
    <3>2. CASE i <= m
      BY <1>1, <1>4, <3>1, <3>2
    <3>3. CASE ~(i <= m)
      <4>1. i - m \in 1..n /\ m + (i - m) = i /\ b[i - m] \in T
        BY <1>1, <3>1, <3>3
      <4>2. i - m \in B
        BY <1>5, <4>1
      <4>3. QED
        BY <4>1, <4>2
    <3>4. QED
      BY <3>2, <3>3
  <2>3. ASSUME NEW i \in A PROVE i \in P
    BY <1>1, <1>3, <1>4, <2>1
  <2>4. ASSUME NEW j \in B PROVE m + j \in P
    <3>1. j \in 1..n /\ b[j] \in T
      BY <1>3, <1>5
    <3>2. m + j \in 1..(m + n) /\ ~(m + j <= m) /\ (m + j) - m = j
      BY <1>1, <3>1
    <3>3. QED
      BY <2>1, <3>1, <3>2
  <2>5. P = A \cup C
    BY <2>2, <2>3, <2>4
  <2>6. QED
    BY <2>1, <2>5
<1>8. IsFiniteSet(C) /\ Cardinality(C) = Cardinality(B)
  <2> DEFINE f == [i \in B |-> m + i]
  <2>1. f \in Bijection(B, C)
    <3>1. f \in Surjection(B, C)
      BY DEF Surjection
    <3>2. f \in [B -> C] /\ \A i, j \in B : m + i = m + j => i = j
      BY <1>1, <1>3
    <3>3. f \in Injection(B, C)
      BY <3>2 DEF Injection, IsInjective
    <3>4. QED
      BY <3>1, <3>3 DEF Bijection
  <2>2. QED
    BY <1>3, <2>1, FS_Bijection DEF ExistsBijection
<1>9. A \cap C = {}
  BY <1>1, <1>3
<1>10. Cardinality(A \cup C) = Cardinality(A) + Cardinality(C)
  <2>1. PICK D : D = C
    OBVIOUS
  <2>2. Cardinality(A \cup D) = Cardinality(A) + Cardinality(D) - Cardinality(A \cap D)
    BY <1>3, <1>8, <2>1, FS_Union
  <2>3. A \cap D = {} /\ Cardinality(A) \in Nat /\ Cardinality(D) \in Nat
    BY <1>3, <1>8, <1>9, <2>1, FS_CardinalityType
  <2>4. Cardinality({}) = 0
    BY FS_EmptySet
  <2>5. Cardinality(A \cap D) = 0
    BY <2>3, <2>4
  <2>6. QED
    BY <2>1, <2>2, <2>3, <2>5
<1>11. QED
  BY <1>2, <1>6, <1>7, <1>8, <1>10 DEF Count, A, B

LEMMA CountOne ==
  ASSUME NEW S, NEW x \in S, NEW T
  PROVE  <<x>> \in Seq(S) /\ Count(<<x>>, T) = IF x \in T THEN 1 ELSE 0
<1>1. DOMAIN <<x>> = {1} /\ <<x>>[1] = x
  OBVIOUS
<1>2. Places(<<x>>, T) = IF x \in T THEN {1} ELSE {}
  BY <1>1 DEF Places
<1>3. Cardinality({1}) = 1 /\ Cardinality({}) = 0
  BY FS_Singleton, FS_EmptySet
<1>4. QED
  BY <1>2, <1>3 DEF Count

LEMMA CountAppend ==
  ASSUME NEW S, NEW q \in Seq(S), NEW x \in S, NEW T
  PROVE  /\ Append(q, x) \in Seq(S)
         /\ Count(Append(q, x), T) = Count(q, T) + IF x \in T THEN 1 ELSE 0
<1>1. Append(q, x) = q \o <<x>>
  BY AppendIsConcat
<1>2. PICK r \in Seq(S) : r = <<x>>
  BY CountOne
<1>3. Count(r, T) = IF x \in T THEN 1 ELSE 0
  BY <1>2, CountOne
<1>4. q \o r \in Seq(S) /\ Count(q \o r, T) = Count(q, T) + Count(r, T)
  BY CountConcat
<1>5. QED
  BY <1>1, <1>2, <1>3, <1>4

LEMMA CountTail ==
  ASSUME NEW S, NEW q \in Seq(S), q # <<>>, NEW T
  PROVE  /\ Tail(q) \in Seq(S) /\ Head(q) \in S
         /\ Count(q, T) = Count(Tail(q), T) + IF Head(q) \in T THEN 1 ELSE 0
<1>1. Tail(q) \in Seq(S) /\ Head(q) \in S /\ q = <<Head(q)>> \o Tail(q)
  BY HeadTailProperties, ConcatProperties, SeqEqual
<1>2. PICK r \in Seq(S), t \in Seq(S) : r = <<Head(q)>> /\ t = Tail(q)
  BY <1>1, CountOne
<1>3. Count(r, T) = IF Head(q) \in T THEN 1 ELSE 0
  BY <1>1, <1>2, CountOne
<1>4. Count(r \o t, T) = Count(r, T) + Count(t, T)
  BY CountConcat
<1>5. Count(t, T) \in Nat
  BY PlacesFinite
<1>6. Count(q, T) = Count(t, T) + IF Head(q) \in T THEN 1 ELSE 0
  <2>1. Count(q, T) = Count(r, T) + Count(t, T)
    BY <1>1, <1>2, <1>4
  <2>2. QED
    BY <1>3, <1>5, <2>1
<1>7. QED
  BY <1>1, <1>2, <1>6

LEMMA CountEmpty ==
  ASSUME NEW T
  PROVE  Count(<<>>, T) = 0
<1>1. Places(<<>>, T) = {}
  BY DEF Places
<1>2. QED
  BY <1>1, FS_EmptySet DEF Count

\* a sequence without any, and one that is nothing but
LEMMA CountNone ==
  ASSUME NEW S, NEW q \in Seq(S), NEW T, \A i \in DOMAIN q : q[i] \notin T
  PROVE  Count(q, T) = 0
<1>1. Places(q, T) = {}
  BY DEF Places
<1>2. QED
  BY <1>1, FS_EmptySet DEF Count

LEMMA CountAll ==
  ASSUME NEW S, NEW q \in Seq(S), NEW T, \A i \in DOMAIN q : q[i] \in T
  PROVE  Count(q, T) = Len(q)
<1>1. Places(q, T) = 1..Len(q) /\ Len(q) \in Nat
  BY LenProperties DEF Places
<1>2. QED
  BY <1>1, FS_Interval DEF Count

\* SetToSeq() numbers the elements
LEMMA Numbered ==
  ASSUME NEW S, IsFiniteSet(S)
  PROVE  /\ Cardinality(S) \in Nat /\ SetToSeq(S) \in [1..Cardinality(S) -> S]
         /\ IsInjective(SetToSeq(S))
<1>1. Cardinality(S) \in Nat
  BY FS_CardinalityType
<1>2. PICK f : f \in Bijection(1..Cardinality(S), S)
  BY FS_CardinalityType DEF ExistsBijection
<1>3. f \in [1..Cardinality(S) -> S] /\ IsInjective(f)
  BY <1>2 DEF Bijection, Injection, IsInjective
<1>4. QED
  BY <1>1, <1>3 DEF SetToSeq

----------------------------------------------------------------------------
(* What is in the queues, when m torrents have been made                          *)

Plain == {"remove", "pause_gracefully", "pause", "resume", "save", "on_save", "on_paused",
          "on_released"}
HandlersOf(m) ==
    [op : Plain, obj : 1..m] \cup [op : {"auto"}, obj : 1..m, to : BOOLEAN]
      \cup [op : {"add"}, obj : {None}, tag : Tags]
      \cup [op : {"updates", "pause_session"}, obj : {None}]
JobsOf(m) == [op : {"save_job", "release", "release_paused"}, obj : 1..m]
StatusOf(m) == [obj : 1..m, paused : BOOLEAN, auto : BOOLEAN]
AlertsOf(m) ==
    [kind : {"metadata", "finished", "paused", "saved", "save_failed"}, obj : 1..m]
      \cup [kind : {"added"}, obj : 1..m, tag : Tags]
      \cup [kind : {"updates"}, status : SUBSET StatusOf(m)]

\* requests for resume data, its jobs and its alerts; requests to add a torrent
Saves == [op : {"save", "on_save"}, obj : Nat]
SaveJobs == [op : {"save_job"}, obj : Nat]
Told == [kind : {"saved", "save_failed"}, obj : Nat]
AddsOf(ts) == [op : {"add"}, obj : {None}, tag : ts]
AddedOf(ts) == [kind : {"added"}, obj : Nat, tag : ts]

LEMMA HandlerIs ==
  ASSUME NEW m \in Nat, NEW h \in HandlersOf(m)
  PROVE  /\ h.op \in Plain \cup {"auto", "add", "updates", "pause_session"}
         /\ h.op \in Plain => h.obj \in 1..m
         /\ h.op = "auto" => h.obj \in 1..m /\ h.to \in BOOLEAN
         /\ h.op = "add" => h.obj = None /\ h.tag \in Tags
         /\ h.op \in {"updates", "pause_session"} => h.obj = None
         /\ h \in Saves <=> h.op \in {"save", "on_save"}
         /\ \A ts \in SUBSET Tags : h \in AddsOf(ts) <=> h.op = "add" /\ h.tag \in ts
<1>1. CASE h \in [op : Plain, obj : 1..m]
  BY <1>1 DEF Plain, Saves, AddsOf
<1>2. CASE h \in [op : {"auto"}, obj : 1..m, to : BOOLEAN]
  BY <1>2 DEF Plain, Saves, AddsOf
<1>3. CASE h \in [op : {"add"}, obj : {None}, tag : Tags]
  BY <1>3 DEF Plain, Saves, AddsOf
<1>4. CASE h \in [op : {"updates", "pause_session"}, obj : {None}]
  BY <1>4 DEF Plain, Saves, AddsOf
<1>5. QED
  BY <1>1, <1>2, <1>3, <1>4, Zenon DEF HandlersOf

LEMMA JobIs ==
  ASSUME NEW m \in Nat, NEW j \in JobsOf(m)
  PROVE  /\ j.op \in {"save_job", "release", "release_paused"} /\ j.obj \in 1..m
         /\ j \in SaveJobs <=> j.op = "save_job"
  BY DEF JobsOf, SaveJobs

LEMMA AlertIs ==
  ASSUME NEW m \in Nat, NEW a \in AlertsOf(m)
  PROVE  /\ a.kind \in {"metadata", "finished", "paused", "saved", "save_failed", "added",
                        "updates"}
         /\ a.kind # "updates" => a.obj \in 1..m
         /\ a.kind = "updates" => a.status \in SUBSET StatusOf(m)
         /\ a.kind = "added" => a.tag \in Tags
         /\ a \in Told <=> a.kind \in {"saved", "save_failed"}
         /\ \A ts \in SUBSET Tags : a \in AddedOf(ts) <=> a.kind = "added" /\ a.tag \in ts
<1>1. CASE a \in [kind : {"metadata", "finished", "paused", "saved", "save_failed"}, obj : 1..m]
  BY <1>1 DEF Told, AddedOf
<1>2. CASE a \in [kind : {"added"}, obj : 1..m, tag : Tags]
  BY <1>2 DEF Told, AddedOf
<1>3. CASE a \in [kind : {"updates"}, status : SUBSET StatusOf(m)]
  BY <1>3 DEF Told, AddedOf
<1>4. QED
  BY <1>1, <1>2, <1>3, Zenon DEF AlertsOf

LEMMA Made ==
  ASSUME NEW m \in Nat
  PROVE  /\ \A op \in Plain, o \in 1..m : Request(op, o) \in HandlersOf(m) /\ Request(op, o).op = op
         /\ \A o \in 1..m, b \in BOOLEAN :
              AutoRequest(o, b) \in HandlersOf(m) /\ AutoRequest(o, b).op = "auto"
         /\ \A op \in {"save_job", "release", "release_paused"}, o \in 1..m :
              Request(op, o) \in JobsOf(m) /\ Request(op, o).op = op
         /\ \A kind \in {"metadata", "finished", "paused", "saved", "save_failed"}, o \in 1..m :
              Alert(kind, o) \in AlertsOf(m) /\ Alert(kind, o).kind = kind
<1>1. \A op \in Plain, o \in 1..m : Request(op, o) \in HandlersOf(m) /\ Request(op, o).op = op
  BY DEF Request, HandlersOf
<1>2. \A o \in 1..m, b \in BOOLEAN :
        AutoRequest(o, b) \in HandlersOf(m) /\ AutoRequest(o, b).op = "auto"
  BY DEF AutoRequest, HandlersOf
<1>3. \A op \in {"save_job", "release", "release_paused"}, o \in 1..m :
        Request(op, o) \in JobsOf(m) /\ Request(op, o).op = op
  BY DEF Request, JobsOf
<1>4. \A kind \in {"metadata", "finished", "paused", "saved", "save_failed"}, o \in 1..m :
        Alert(kind, o) \in AlertsOf(m) /\ Alert(kind, o).kind = kind
  BY DEF Alert, AlertsOf
<1>5. QED
  BY <1>1, <1>2, <1>3, <1>4

\* one more torrent
LEMMA OneMoreMade ==
  ASSUME NEW m \in Nat
  PROVE  /\ Seq(HandlersOf(m)) \subseteq Seq(HandlersOf(m + 1))
         /\ Seq(JobsOf(m)) \subseteq Seq(JobsOf(m + 1))
         /\ Seq(AlertsOf(m)) \subseteq Seq(AlertsOf(m + 1))
<1>1. 1..m \subseteq 1..(m + 1)
  OBVIOUS
<1>2. PICK A, B : A = 1..m /\ B = 1..(m + 1)
  OBVIOUS
<1>3. A \subseteq B
  BY <1>1, <1>2
<1>4. HandlersOf(m) \subseteq HandlersOf(m + 1)
  <2>1. [op : Plain, obj : A] \subseteq [op : Plain, obj : B]
    BY <1>3
  <2>2. [op : {"auto"}, obj : A, to : BOOLEAN] \subseteq [op : {"auto"}, obj : B, to : BOOLEAN]
    BY <1>3
  <2>3. QED
    BY <1>2, <2>1, <2>2 DEF HandlersOf
<1>5. JobsOf(m) \subseteq JobsOf(m + 1)
  BY <1>2, <1>3 DEF JobsOf
<1>6. AlertsOf(m) \subseteq AlertsOf(m + 1)
  <2>1. StatusOf(m) \subseteq StatusOf(m + 1)
    BY <1>2, <1>3 DEF StatusOf
  <2>2. PICK C, D : C = StatusOf(m) /\ D = StatusOf(m + 1)
    OBVIOUS
  <2>3. [kind : {"updates"}, status : SUBSET C] \subseteq [kind : {"updates"}, status : SUBSET D]
    BY <2>1, <2>2
  <2>4. [kind : {"added"}, obj : A, tag : Tags] \subseteq [kind : {"added"}, obj : B, tag : Tags]
    BY <1>3
  <2>5. [kind : {"metadata", "finished", "paused", "saved", "save_failed"}, obj : A]
          \subseteq [kind : {"metadata", "finished", "paused", "saved", "save_failed"}, obj : B]
    BY <1>3
  <2>6. QED
    BY <1>2, <2>2, <2>3, <2>4, <2>5 DEF AlertsOf
<1>7. QED
  BY <1>4, <1>5, <1>6, SeqMonotonic

----------------------------------------------------------------------------
(* The inductive invariant                                                        *)

Queues(m, io, jo, al, ba) ==
    /\ m \in Nat
    /\ io \in Seq(HandlersOf(m)) /\ jo \in Seq(JobsOf(m))
    /\ al \in Seq(AlertsOf(m)) /\ ba \in Seq(AlertsOf(m))

\* the results of save_resume_data() under way
Results4(io, jo, al, ba) ==
    Count(io, Saves) + Count(jo, SaveJobs) + Count(al, Told) + Count(ba, Told)

TorrentType == [hash : Hashes, meta : BOOLEAN, aborted : BOOLEAN, allow : BOOLEAN,
                graceful : BOOLEAN, auto : BOOLEAN, dirty : BOOLEAN, finished : BOOLEAN]
\* a tag has had f[tag] of its turns to be added
Turns(f) == {p \in Tags \X (1..MaxAdds) : p[2] <= f[p[1]]}

\* no more torrents are made than have been asked for, and every result is awaited
Fits(m, io, jo, al, ba, out, f) ==
    /\ Queues(m, io, jo, al, ba)
    /\ f \in [Tags -> 0..MaxAdds] /\ m + Count(io, AddsOf(Tags)) <= Cardinality(Turns(f))
    /\ out \in Int /\ out >= Results4(io, jo, al, ba)

LEMMA TurnsBounded ==
  ASSUME NEW f \in [Tags -> 0..MaxAdds]
  PROVE  /\ IsFiniteSet(Turns(f)) /\ Cardinality(Turns(f)) \in Nat
         /\ Cardinality(Turns(f)) <= MaxAdds * Cardinality(Tags)
         /\ Cardinality(Tags) \in Nat
<1>1. IsFiniteSet(Tags) /\ IsFiniteSet(1..MaxAdds) /\ Cardinality(1..MaxAdds) = MaxAdds
  BY TagsAssumption, MaxAddsAssumption, FS_Interval
<1>2. IsFiniteSet(Tags \X (1..MaxAdds))
      /\ Cardinality(Tags \X (1..MaxAdds)) = Cardinality(Tags) * Cardinality(1..MaxAdds)
  BY <1>1, FS_Product
<1>3. Turns(f) \subseteq Tags \X (1..MaxAdds)
  BY DEF Turns
<1>4. IsFiniteSet(Turns(f)) /\ Cardinality(Turns(f)) <= Cardinality(Tags \X (1..MaxAdds))
  BY <1>2, <1>3, FS_Subset
<1>5. Cardinality(Turns(f)) \in Nat /\ Cardinality(Tags) \in Nat
  BY <1>1, <1>4, FS_CardinalityType
<1>6. Cardinality(Tags) * MaxAdds = MaxAdds * Cardinality(Tags)
  BY <1>5, MaxAddsAssumption
<1>7. QED
  BY <1>1, <1>2, <1>4, <1>5, <1>6

LEMMA OneMore ==
  ASSUME NEW m \in Nat, NEW n \in Nat, n < m
  PROVE  /\ n + 1 \in 0..m /\ n + 1 \in 1..m /\ ~(n + 1 <= n)
         /\ \A k \in 1..m : k <= n + 1 <=> k <= n \/ k = n + 1
  OBVIOUS

\* one more for each of the tags that are asked for once more
MoreTurns(f, new) == [t \in Tags |-> IF t \in new THEN f[t] + 1 ELSE f[t]]

LEMMA TurnsTaken ==
  ASSUME NEW f \in [Tags -> 0..MaxAdds], NEW new \in SUBSET Tags, \A t \in new : f[t] < MaxAdds,
         NEW g, g = MoreTurns(f, new)
  PROVE  /\ g \in [Tags -> 0..MaxAdds]
         /\ Cardinality(Turns(g)) = Cardinality(Turns(f)) + Cardinality(new)
         /\ Cardinality(new) \in Nat
<1> DEFINE C == {<<t, f[t] + 1>> : t \in new}
<1>1. MaxAdds \in Nat
  BY MaxAddsAssumption
<1>2. \A t \in new : /\ f[t] + 1 \in 0..MaxAdds /\ f[t] + 1 \in 1..MaxAdds /\ ~(f[t] + 1 <= f[t])
                     /\ \A k \in 1..MaxAdds : k <= f[t] + 1 <=> k <= f[t] \/ k = f[t] + 1
  <2>1. SUFFICES ASSUME NEW t \in new
                 PROVE  /\ f[t] + 1 \in 0..MaxAdds /\ f[t] + 1 \in 1..MaxAdds
                        /\ ~(f[t] + 1 <= f[t])
                        /\ \A k \in 1..MaxAdds : k <= f[t] + 1 <=> k <= f[t] \/ k = f[t] + 1
    OBVIOUS
  <2>2. PICK n : n = f[t]
    OBVIOUS
  <2>3. n \in Nat /\ n < MaxAdds
    BY <1>1, <2>2
  <2>4. QED
    BY <1>1, <2>2, <2>3, OneMore
<1>3. \A t \in new : g[t] = f[t] + 1
  BY DEF MoreTurns
<1>4. \A t \in Tags \ new : g[t] = f[t]
  BY DEF MoreTurns
<1>5. g \in [Tags -> 0..MaxAdds]
  BY <1>2 DEF MoreTurns
<1>6. Turns(g) = Turns(f) \cup C
  <2>1. PICK A, B : A = Turns(f) /\ B = Turns(g)
    OBVIOUS
  <2>2. \A u \in Tags, k \in 1..MaxAdds : <<u, k>> \in A <=> k <= f[u]
    BY <2>1 DEF Turns
  <2>3. \A u \in Tags, k \in 1..MaxAdds : <<u, k>> \in B <=> k <= g[u]
    BY <2>1 DEF Turns
  <2>4. A \subseteq Tags \X (1..MaxAdds) /\ B \subseteq Tags \X (1..MaxAdds)
    BY <2>1 DEF Turns
  <2>5. C \subseteq Tags \X (1..MaxAdds)
    BY <1>2
  <2>6. ASSUME NEW u \in Tags, NEW k \in 1..MaxAdds
        PROVE  <<u, k>> \in B <=> <<u, k>> \in A \/ <<u, k>> \in C
    <3>1. <<u, k>> \in C <=> u \in new /\ k = f[u] + 1
      OBVIOUS
    <3>2. CASE u \in new
      BY <1>2, <1>3, <2>2, <2>3, <3>1, <3>2
    <3>3. CASE u \notin new
      BY <1>4, <2>2, <2>3, <3>1, <3>3
    <3>4. QED
      BY <3>2, <3>3
  <2> HIDE DEF C
  <2>7. B = A \cup C
    BY <2>4, <2>5, <2>6
  <2>8. QED
    BY <2>1, <2>7
<1>7. IsFiniteSet(new) /\ IsFiniteSet(C) /\ Cardinality(C) = Cardinality(new)
  <2> DEFINE b == [t \in new |-> <<t, f[t] + 1>>]
  <2>1. IsFiniteSet(new)
    BY TagsAssumption, FS_Subset
  <2>2. b \in Surjection(new, C)
    BY DEF Surjection
  <2>3. b \in Injection(new, C)
    BY DEF Injection, IsInjective
  <2>4. b \in Bijection(new, C)
    BY <2>2, <2>3 DEF Bijection
  <2>5. QED
    BY <2>1, <2>4, FS_Bijection DEF ExistsBijection
<1>8. Turns(f) \cap C = {}
  BY <1>2 DEF Turns
<1>9. PICK A, D : A = Turns(f) /\ D = C
  OBVIOUS
<1>10. IsFiniteSet(A) /\ IsFiniteSet(D) /\ A \cap D = {} /\ Cardinality(D) = Cardinality(new)
  BY <1>7, <1>8, <1>9, TurnsBounded
<1>11. Cardinality(A \cup D) = Cardinality(A) + Cardinality(D) - Cardinality(A \cap D)
  BY <1>10, FS_Union
<1>12. Cardinality(A \cap D) = 0
  BY <1>10, FS_EmptySet
<1>13. Cardinality(A) \in Nat /\ Cardinality(D) \in Nat
  BY <1>10, FS_CardinalityType
<1>14. Cardinality(A \cup D) = Cardinality(A) + Cardinality(new)
  BY <1>10, <1>11, <1>12, <1>13
<1>15. QED
  BY <1>5, <1>6, <1>9, <1>10, <1>13, <1>14

----------------------------------------------------------------------------
(* What fits, however the queues change                                           *)

\* as numbers
LEMMA FitsIs ==
  ASSUME NEW m, NEW io, NEW jo, NEW al, NEW ba, NEW out, NEW f,
         Fits(m, io, jo, al, ba, out, f)
  PROVE  /\ m \in Nat /\ out \in Int /\ f \in [Tags -> 0..MaxAdds]
         /\ Count(io, AddsOf(Tags)) \in Nat /\ Cardinality(Turns(f)) \in Nat
         /\ Count(io, Saves) \in Nat /\ Count(jo, SaveJobs) \in Nat
         /\ Count(al, Told) \in Nat /\ Count(ba, Told) \in Nat
         /\ io \in Seq(HandlersOf(m)) /\ jo \in Seq(JobsOf(m))
         /\ al \in Seq(AlertsOf(m)) /\ ba \in Seq(AlertsOf(m))
         /\ m + Count(io, AddsOf(Tags)) <= Cardinality(Turns(f))
         /\ out >= Count(io, Saves) + Count(jo, SaveJobs) + Count(al, Told) + Count(ba, Told)
<1>1. /\ m \in Nat /\ out \in Int /\ f \in [Tags -> 0..MaxAdds]
      /\ io \in Seq(HandlersOf(m)) /\ jo \in Seq(JobsOf(m))
      /\ al \in Seq(AlertsOf(m)) /\ ba \in Seq(AlertsOf(m))
      /\ m + Count(io, AddsOf(Tags)) <= Cardinality(Turns(f))
      /\ out >= Count(io, Saves) + Count(jo, SaveJobs) + Count(al, Told) + Count(ba, Told)
  BY DEF Fits, Queues, Results4
<1>2. Count(io, AddsOf(Tags)) \in Nat /\ Count(io, Saves) \in Nat
  BY <1>1, PlacesFinite
<1>3. Count(jo, SaveJobs) \in Nat
  BY <1>1, PlacesFinite
<1>4. Count(al, Told) \in Nat /\ Count(ba, Told) \in Nat
  BY <1>1, PlacesFinite
<1>5. Cardinality(Turns(f)) \in Nat
  BY <1>1, TurnsBounded
<1>6. QED
  BY <1>1, <1>2, <1>3, <1>4, <1>5

LEMMA FitsIf ==
  ASSUME NEW m \in Nat, NEW io \in Seq(HandlersOf(m)), NEW jo \in Seq(JobsOf(m)),
         NEW al \in Seq(AlertsOf(m)), NEW ba \in Seq(AlertsOf(m)), NEW out \in Int,
         NEW f \in [Tags -> 0..MaxAdds],
         m + Count(io, AddsOf(Tags)) <= Cardinality(Turns(f)),
         out >= Count(io, Saves) + Count(jo, SaveJobs) + Count(al, Told) + Count(ba, Told)
  PROVE  Fits(m, io, jo, al, ba, out, f)
  BY DEF Fits, Queues, Results4

\* the network thread takes a handler off its queue
LEMMA FitsRun ==
  ASSUME NEW m, NEW io, NEW jo, NEW al, NEW ba, NEW out, NEW f,
         Fits(m, io, jo, al, ba, out, f), io # <<>>
  PROVE  /\ Head(io) \in HandlersOf(m)
         /\ Fits(m, Tail(io), jo, al, ba, out, f)
         /\ Head(io).op \in {"save", "on_save"} => Fits(m, Tail(io), jo, al, ba, out - 1, f)
         /\ Head(io).op = "add" =>
              Fits(m + 1, Tail(io), jo, al, ba, out, f) /\ m + 1 <= Cardinality(Turns(f))
<1>1. PICK cs \in Nat, ca \in Nat, cj \in Nat, cl \in Nat, cb \in Nat, ct \in Nat :
        /\ cs = Count(io, Saves) /\ ca = Count(io, AddsOf(Tags)) /\ cj = Count(jo, SaveJobs)
        /\ cl = Count(al, Told) /\ cb = Count(ba, Told) /\ ct = Cardinality(Turns(f))
  BY FitsIs
<1>2. /\ m \in Nat /\ out \in Int /\ f \in [Tags -> 0..MaxAdds]
      /\ io \in Seq(HandlersOf(m)) /\ jo \in Seq(JobsOf(m))
      /\ al \in Seq(AlertsOf(m)) /\ ba \in Seq(AlertsOf(m))
      /\ m + ca <= ct /\ out >= cs + cj + cl + cb
  BY <1>1, FitsIs
<1>3. Head(io) \in HandlersOf(m) /\ Tail(io) \in Seq(HandlersOf(m))
  BY <1>2, CountTail
<1>4. PICK ds \in Nat, da \in Nat :
        ds = Count(Tail(io), Saves) /\ da = Count(Tail(io), AddsOf(Tags))
  BY <1>3, PlacesFinite
<1>5. cs = ds + IF Head(io).op \in {"save", "on_save"} THEN 1 ELSE 0
  <2>1. Count(io, Saves) = Count(Tail(io), Saves) + IF Head(io) \in Saves THEN 1 ELSE 0
    BY <1>2, CountTail
  <2>2. cs = ds + IF Head(io) \in Saves THEN 1 ELSE 0
    BY <1>1, <1>4, <2>1
  <2>3. Head(io) \in Saves <=> Head(io).op \in {"save", "on_save"}
    BY <1>2, <1>3, HandlerIs
  <2>4. QED
    BY <2>2, <2>3
<1>6. ca = da + IF Head(io).op = "add" THEN 1 ELSE 0
  <2>1. Count(io, AddsOf(Tags)) = Count(Tail(io), AddsOf(Tags))
                               + IF Head(io) \in AddsOf(Tags) THEN 1 ELSE 0
    BY <1>2, CountTail
  <2>2. ca = da + IF Head(io) \in AddsOf(Tags) THEN 1 ELSE 0
    BY <1>1, <1>4, <2>1
  <2>3. Head(io) \in AddsOf(Tags) <=> Head(io).op = "add"
    BY <1>2, <1>3, HandlerIs
  <2>4. QED
    BY <2>2, <2>3
<1>7. Fits(m, Tail(io), jo, al, ba, out, f)
  <2>1. da <= ca /\ ds <= cs
    BY <1>5, <1>6
  <2>2. m + da <= ct /\ out >= ds + cj + cl + cb
    BY <1>2, <2>1
  <2>3. QED
    BY <1>1, <1>2, <1>3, <1>4, <2>2, FitsIf
<1>8. ASSUME Head(io).op \in {"save", "on_save"} PROVE Fits(m, Tail(io), jo, al, ba, out - 1, f)
  <2>1. cs = ds + 1 /\ ca = da
    BY <1>5, <1>6, <1>8
  <2>2. m + da <= ct /\ out - 1 \in Int /\ out - 1 >= ds + cj + cl + cb
    BY <1>2, <2>1
  <2>3. QED
    BY <1>1, <1>2, <1>3, <1>4, <2>2, FitsIf
<1>9. ASSUME Head(io).op = "add"
      PROVE  Fits(m + 1, Tail(io), jo, al, ba, out, f) /\ m + 1 <= ct
  <2>1. cs = ds /\ ca = da + 1
    BY <1>5, <1>6, <1>9
  <2>2. m + 1 \in Nat /\ (m + 1) + da <= ct /\ m + 1 <= ct /\ out >= ds + cj + cl + cb
    BY <1>2, <2>1
  <2>3. /\ Tail(io) \in Seq(HandlersOf(m + 1)) /\ jo \in Seq(JobsOf(m + 1))
        /\ al \in Seq(AlertsOf(m + 1)) /\ ba \in Seq(AlertsOf(m + 1))
    BY <1>2, <1>3, OneMoreMade
  <2>4. QED
    BY <1>1, <1>2, <1>4, <2>2, <2>3, FitsIf
<1>10. QED
  BY <1>1, <1>3, <1>7, <1>8, <1>9

\* handlers are posted that add no torrent
LEMMA FitsPost ==
  ASSUME NEW m, NEW io, NEW jo, NEW al, NEW ba, NEW out, NEW f,
         Fits(m, io, jo, al, ba, out, f), NEW q \in Seq(HandlersOf(m)),
         \A i \in DOMAIN q : q[i].op # "add"
  PROVE  Fits(m, io \o q, jo, al, ba, out + Count(q, Saves), f)
<1>1. PICK cs \in Nat, ca \in Nat, cj \in Nat, cl \in Nat, cb \in Nat, ct \in Nat :
        /\ cs = Count(io, Saves) /\ ca = Count(io, AddsOf(Tags)) /\ cj = Count(jo, SaveJobs)
        /\ cl = Count(al, Told) /\ cb = Count(ba, Told) /\ ct = Cardinality(Turns(f))
  BY FitsIs
<1>2. /\ m \in Nat /\ out \in Int /\ f \in [Tags -> 0..MaxAdds]
      /\ io \in Seq(HandlersOf(m)) /\ jo \in Seq(JobsOf(m))
      /\ al \in Seq(AlertsOf(m)) /\ ba \in Seq(AlertsOf(m))
      /\ m + ca <= ct /\ out >= cs + cj + cl + cb
  BY <1>1, FitsIs
<1>3. PICK ds \in Nat : ds = Count(q, Saves)
  BY PlacesFinite
<1>4. Count(q, AddsOf(Tags)) = 0
  <2>1. \A i \in DOMAIN q : q[i] \notin AddsOf(Tags)
    BY DEF AddsOf
  <2>2. QED
    BY <2>1, CountNone
<1>5. io \o q \in Seq(HandlersOf(m)) /\ Count(io \o q, Saves) = cs + ds
  BY <1>1, <1>2, <1>3, CountConcat
<1>6. Count(io \o q, AddsOf(Tags)) = ca
  <2>1. Count(io \o q, AddsOf(Tags)) = ca + Count(q, AddsOf(Tags))
    BY <1>1, <1>2, CountConcat
  <2>2. QED
    BY <1>4, <2>1
<1>7. out + ds \in Int /\ out + ds >= (cs + ds) + cj + cl + cb
  BY <1>2
<1>8. QED
  BY <1>1, <1>2, <1>3, <1>5, <1>6, <1>7, FitsIf

\* jobs are given to the disk thread, which does the first one
LEMMA FitsJobs ==
  ASSUME NEW m, NEW io, NEW jo, NEW al, NEW ba, NEW out, NEW f,
         Fits(m, io, jo, al, ba, out, f)
  PROVE  /\ \A q \in Seq(JobsOf(m)) :
              Fits(m, io, jo \o q, al, ba, out + Count(q, SaveJobs), f)
         /\ jo # <<>> =>
              /\ Head(jo) \in JobsOf(m)
              /\ Fits(m, io, Tail(jo), al, ba,
                      out - (IF Head(jo).op = "save_job" THEN 1 ELSE 0), f)
<1>1. PICK cs \in Nat, ca \in Nat, cj \in Nat, cl \in Nat, cb \in Nat, ct \in Nat :
        /\ cs = Count(io, Saves) /\ ca = Count(io, AddsOf(Tags)) /\ cj = Count(jo, SaveJobs)
        /\ cl = Count(al, Told) /\ cb = Count(ba, Told) /\ ct = Cardinality(Turns(f))
  BY FitsIs
<1>2. /\ m \in Nat /\ out \in Int /\ f \in [Tags -> 0..MaxAdds]
      /\ io \in Seq(HandlersOf(m)) /\ jo \in Seq(JobsOf(m))
      /\ al \in Seq(AlertsOf(m)) /\ ba \in Seq(AlertsOf(m))
      /\ m + ca <= ct /\ out >= cs + cj + cl + cb
  BY <1>1, FitsIs
<1>3. ASSUME NEW q \in Seq(JobsOf(m))
      PROVE  Fits(m, io, jo \o q, al, ba, out + Count(q, SaveJobs), f)
  <2>1. PICK ds \in Nat : ds = Count(q, SaveJobs)
    BY PlacesFinite
  <2>2. jo \o q \in Seq(JobsOf(m)) /\ Count(jo \o q, SaveJobs) = cj + ds
    <3>1. jo \o q \in Seq(JobsOf(m))
      BY <1>2, CountConcat
    <3>2. Count(jo \o q, SaveJobs) = Count(jo, SaveJobs) + Count(q, SaveJobs)
      BY <1>2, CountConcat
    <3>3. QED
      BY <1>1, <2>1, <3>1, <3>2
  <2>3. out + ds \in Int /\ out + ds >= cs + (cj + ds) + cl + cb
    BY <1>2
  <2>4. QED
    BY <1>1, <1>2, <2>1, <2>2, <2>3, FitsIf
<1>4. ASSUME jo # <<>>
      PROVE  /\ Head(jo) \in JobsOf(m)
             /\ Fits(m, io, Tail(jo), al, ba,
                     out - (IF Head(jo).op = "save_job" THEN 1 ELSE 0), f)
  <2>1. /\ Head(jo) \in JobsOf(m) /\ Tail(jo) \in Seq(JobsOf(m))
        /\ cj = Count(Tail(jo), SaveJobs) + IF Head(jo) \in SaveJobs THEN 1 ELSE 0
    BY <1>1, <1>2, <1>4, CountTail
  <2>2. PICK dj \in Nat : dj = Count(Tail(jo), SaveJobs)
    BY <2>1, PlacesFinite
  <2>3. PICK n \in {0, 1} : n = IF Head(jo).op = "save_job" THEN 1 ELSE 0
    OBVIOUS
  <2>4. cj = dj + n
    BY <1>2, <2>1, <2>2, <2>3, JobIs
  <2>5. out - n \in Int /\ out - n >= cs + dj + cl + cb
    BY <1>2, <2>4
  <2>6. Fits(m, io, Tail(jo), al, ba, out - n, f)
    BY <1>1, <1>2, <2>1, <2>2, <2>5, FitsIf
  <2>7. QED
    BY <2>1, <2>3, <2>6
<1>5. QED
  BY <1>3, <1>4

\* alerts are queued, popped all at once, and handled one after the other
LEMMA FitsAlerts ==
  ASSUME NEW m, NEW io, NEW jo, NEW al, NEW ba, NEW out, NEW f,
         Fits(m, io, jo, al, ba, out, f)
  PROVE  /\ \A q \in Seq(AlertsOf(m)) :
              Fits(m, io, jo, al \o q, ba, out + Count(q, Told), f)
         /\ Fits(m, io, jo, <<>>, al, out, f)
         /\ Fits(m, io, jo, <<>>, ba, out - Count(al, Told), f)
         /\ ba # <<>> =>
              /\ Head(ba) \in AlertsOf(m)
              /\ Fits(m, io, jo, al, Tail(ba),
                      out - (IF Head(ba).kind \in {"saved", "save_failed"} THEN 1 ELSE 0), f)
<1>1. PICK cs \in Nat, ca \in Nat, cj \in Nat, cl \in Nat, cb \in Nat, ct \in Nat :
        /\ cs = Count(io, Saves) /\ ca = Count(io, AddsOf(Tags)) /\ cj = Count(jo, SaveJobs)
        /\ cl = Count(al, Told) /\ cb = Count(ba, Told) /\ ct = Cardinality(Turns(f))
  BY FitsIs
<1>2. /\ m \in Nat /\ out \in Int /\ f \in [Tags -> 0..MaxAdds]
      /\ io \in Seq(HandlersOf(m)) /\ jo \in Seq(JobsOf(m))
      /\ al \in Seq(AlertsOf(m)) /\ ba \in Seq(AlertsOf(m))
      /\ m + ca <= ct /\ out >= cs + cj + cl + cb
  BY <1>1, FitsIs
<1>3. ASSUME NEW q \in Seq(AlertsOf(m))
      PROVE  Fits(m, io, jo, al \o q, ba, out + Count(q, Told), f)
  <2>1. PICK ds \in Nat : ds = Count(q, Told)
    BY PlacesFinite
  <2>2. al \o q \in Seq(AlertsOf(m)) /\ Count(al \o q, Told) = cl + ds
    <3>1. al \o q \in Seq(AlertsOf(m))
      BY <1>2, CountConcat
    <3>2. Count(al \o q, Told) = Count(al, Told) + Count(q, Told)
      BY <1>2, CountConcat
    <3>3. QED
      BY <1>1, <2>1, <3>1, <3>2
  <2>3. out + ds \in Int /\ out + ds >= cs + cj + (cl + ds) + cb
    BY <1>2
  <2>4. QED
    BY <1>1, <1>2, <2>1, <2>2, <2>3, FitsIf
<1>4. <<>> \in Seq(AlertsOf(m)) /\ Count(<<>>, Told) = 0
  BY CountEmpty
<1>5. Fits(m, io, jo, <<>>, al, out, f)
  <2>1. PICK e : e = <<>>
    OBVIOUS
  <2>2. out >= cs + cj + 0 + cl /\ e \in Seq(AlertsOf(m)) /\ Count(e, Told) = 0
    BY <1>2, <1>4, <2>1
  <2>3. Fits(m, io, jo, e, al, out, f)
    BY <1>1, <1>2, <2>2, FitsIf
  <2>4. QED
    BY <2>1, <2>3
<1>6. Fits(m, io, jo, <<>>, ba, out - cl, f)
  <2>1. PICK e : e = <<>>
    OBVIOUS
  <2>2. /\ out - cl \in Int /\ out - cl >= cs + cj + 0 + cb
        /\ e \in Seq(AlertsOf(m)) /\ Count(e, Told) = 0
    BY <1>2, <1>4, <2>1
  <2>3. Fits(m, io, jo, e, ba, out - cl, f)
    BY <1>1, <1>2, <2>2, FitsIf
  <2>4. QED
    BY <2>1, <2>3
<1>7. ASSUME ba # <<>>
      PROVE  /\ Head(ba) \in AlertsOf(m)
             /\ Fits(m, io, jo, al, Tail(ba),
                     out - (IF Head(ba).kind \in {"saved", "save_failed"} THEN 1 ELSE 0), f)
  <2>1. /\ Head(ba) \in AlertsOf(m) /\ Tail(ba) \in Seq(AlertsOf(m))
        /\ cb = Count(Tail(ba), Told) + IF Head(ba) \in Told THEN 1 ELSE 0
    BY <1>1, <1>2, <1>7, CountTail
  <2>2. PICK db \in Nat : db = Count(Tail(ba), Told)
    BY <2>1, PlacesFinite
  <2>3. PICK n \in {0, 1} : n = IF Head(ba).kind \in {"saved", "save_failed"} THEN 1 ELSE 0
    OBVIOUS
  <2>4. cb = db + n
    BY <1>2, <2>1, <2>2, <2>3, AlertIs
  <2>5. out - n \in Int /\ out - n >= cs + cj + cl + db
    BY <1>2, <2>4
  <2>6. Fits(m, io, jo, al, Tail(ba), out - n, f)
    BY <1>1, <1>2, <2>1, <2>2, <2>5, FitsIf
  <2>7. QED
    BY <2>1, <2>3, <2>6
<1>8. QED
  BY <1>1, <1>3, <1>5, <1>6, <1>7

\* a function from 1..n is a sequence
LEMMA ASequence ==
  ASSUME NEW S, NEW n \in Nat, NEW q \in [1..n -> S]
  PROVE  q \in Seq(S) /\ Len(q) = n
<1>1. q \in Seq(S)
  BY SeqDef
<1>2. DOMAIN q = 1..n /\ DOMAIN q = 1..Len(q) /\ Len(q) \in Nat
  BY <1>1, LenProperties
<1>3. \A k \in Nat : 1..n = 1..k => n = k
  <2>1. ASSUME NEW k \in Nat, 1..n = 1..k PROVE n <= k /\ k <= n
    <3>1. n = 0 \/ n \in 1..k
      BY <2>1
    <3>2. k = 0 \/ k \in 1..n
      BY <2>1
    <3>3. QED
      BY <3>1, <3>2
  <2>2. QED
    BY <2>1
<1>4. QED
  BY <1>1, <1>2, <1>3

\* requests and alerts for each of some torrents
LEMMA Several ==
  ASSUME NEW m \in Nat, NEW os \in SUBSET (1..m)
  PROVE  /\ IsFiniteSet(os) /\ Cardinality(os) \in Nat
         /\ SetToSeq(os) \in [1..Cardinality(os) -> 1..m]
<1>1. IsFiniteSet(1..m)
  BY FS_Interval
<1>2. IsFiniteSet(os)
  BY <1>1, FS_Subset
<1>3. QED
  BY <1>2, Numbered

LEMMA SeveralRequests ==
  ASSUME NEW m \in Nat, NEW os \in SUBSET (1..m), NEW q,
         q = [i \in 1..Cardinality(os) |-> Request("save", SetToSeq(os)[i])]
  PROVE  /\ q \in Seq(HandlersOf(m)) /\ Count(q, Saves) = Cardinality(os)
         /\ \A i \in DOMAIN q : q[i].op = "save"
<1>1. PICK n \in Nat : n = Cardinality(os)
  BY Several
<1>2. PICK s \in [1..n -> 1..m] : n = Cardinality(os) /\ s = SetToSeq(os)
  BY <1>1, Several
<1>3. q = [i \in 1..n |-> Request("save", s[i])] /\ DOMAIN q = 1..n
  BY <1>2
<1>4. \A i \in 1..n : Request("save", s[i]) \in HandlersOf(m) /\ Request("save", s[i]).op = "save"
  BY Made DEF Plain
<1>5. q \in Seq(HandlersOf(m)) /\ Len(q) = n
  <2>1. \A i \in 1..n : q[i] \in HandlersOf(m)
    BY <1>3, <1>4
  <2>2. q \in [1..n -> HandlersOf(m)]
    BY <1>3, <2>1
  <2>3. QED
    BY <2>2, ASequence
<1>6. \A i \in DOMAIN q : q[i].op = "save"
  BY <1>3, <1>4
<1>7. \A i \in DOMAIN q : q[i] \in Saves
  BY <1>2, <1>3 DEF Request, Saves
<1>8. Count(q, Saves) = Len(q)
  BY <1>5, <1>7, CountAll
<1>9. QED
  BY <1>2, <1>5, <1>6, <1>8

LEMMA SeveralJobs ==
  ASSUME NEW m \in Nat, NEW os \in SUBSET (1..m), NEW q,
         q = [i \in 1..Cardinality(os) |-> Request("release_paused", SetToSeq(os)[i])]
  PROVE  /\ q \in Seq(JobsOf(m)) /\ Count(q, SaveJobs) = 0
<1>1. PICK n \in Nat : n = Cardinality(os)
  BY Several
<1>2. PICK s \in [1..n -> 1..m] : n = Cardinality(os) /\ s = SetToSeq(os)
  BY <1>1, Several
<1>3. q = [i \in 1..n |-> Request("release_paused", s[i])] /\ DOMAIN q = 1..n
  BY <1>2
<1>4. \A i \in 1..n : Request("release_paused", s[i]) \in JobsOf(m)
  BY Made
<1>5. q \in Seq(JobsOf(m))
  <2>1. \A i \in 1..n : q[i] \in JobsOf(m)
    BY <1>3, <1>4
  <2>2. q \in [1..n -> JobsOf(m)]
    BY <1>3, <2>1
  <2>3. QED
    BY <2>2, ASequence
<1>6. \A i \in DOMAIN q : q[i] \notin SaveJobs
  BY <1>3 DEF Request, SaveJobs
<1>7. QED
  BY <1>5, <1>6, CountNone

LEMMA SeveralAlerts ==
  ASSUME NEW m \in Nat, NEW os \in SUBSET (1..m), NEW q,
         q = [i \in 1..Cardinality(os) |-> Alert("paused", SetToSeq(os)[i])]
  PROVE  /\ q \in Seq(AlertsOf(m))
         /\ \A i \in DOMAIN q : q[i].kind = "paused"
<1>1. PICK n \in Nat : n = Cardinality(os)
  BY Several
<1>2. PICK s \in [1..n -> 1..m] : n = Cardinality(os) /\ s = SetToSeq(os)
  BY <1>1, Several
<1>3. q = [i \in 1..n |-> Alert("paused", s[i])] /\ DOMAIN q = 1..n
  BY <1>2
<1>4. \A i \in 1..n : Alert("paused", s[i]) \in AlertsOf(m) /\ Alert("paused", s[i]).kind = "paused"
  BY Made
<1>5. q \in Seq(AlertsOf(m))
  <2>1. \A i \in 1..n : q[i] \in AlertsOf(m)
    BY <1>3, <1>4
  <2>2. q \in [1..n -> AlertsOf(m)]
    BY <1>3, <2>1
  <2>3. QED
    BY <2>2, ASequence
<1>6. \A i \in DOMAIN q : q[i].kind = "paused"
  BY <1>3, <1>4
<1>7. QED
  BY <1>5, <1>6

\* any number of alerts that are no results may be dropped
LEMMA FitsQuiet ==
  ASSUME NEW m, NEW io, NEW jo, NEW al, NEW ba, NEW out, NEW f,
         Fits(m, io, jo, al, ba, out, f), NEW q \in Seq(AlertsOf(m)),
         \A i \in DOMAIN q : q[i].kind \notin {"saved", "save_failed"},
         NEW n \in 0..Len(q)
  PROVE  Fits(m, io, jo, al \o SubSeq(q, 1, n), ba, out, f)
<1>1. DOMAIN q = 1..Len(q) /\ Len(q) \in Nat /\ \A i \in 1..Len(q) : q[i] \in AlertsOf(m)
  BY LenProperties, ElementOfSeq
<1>2. \A i \in 1..n : q[i] \in AlertsOf(m) \ Told
  BY <1>1 DEF Told
<1>3. SubSeq(q, 1, n) \in Seq(AlertsOf(m) \ Told)
  BY <1>2, SubSeqProperties
<1>4. PICK r \in Seq(AlertsOf(m) \ Told) : r = SubSeq(q, 1, n)
  BY <1>3
<1>5. r \in Seq(AlertsOf(m))
  BY SeqMonotonic
<1>6. \A i \in DOMAIN r : r[i] \notin Told
  BY LenProperties, ElementOfSeq
<1>7. Count(r, Told) = 0
  BY <1>5, <1>6, CountNone
<1>8. Fits(m, io, jo, al \o r, ba, out + Count(r, Told), f) /\ out \in Int
  BY <1>5, FitsAlerts, FitsIs
<1>9. QED
  BY <1>4, <1>7, <1>8

LEMMA FitsPosts ==
  ASSUME NEW m, NEW io, NEW jo, NEW ba, NEW out, NEW f,
         Fits(m, io, jo, alerts, ba, out, f), NEW q \in Seq(AlertsOf(m)),
         \A i \in DOMAIN q : q[i].kind \notin {"saved", "save_failed"},
         Posts(q)
  PROVE  Fits(m, io, jo, alerts', ba, out, f)
<1>1. PICK n \in 0..Len(q) : alerts' = alerts \o SubSeq(q, 1, n)
  BY DEF Posts
<1>2. QED
  BY <1>1, FitsQuiet

\* pausing asks for no results
LEMMA FitsPause ==
  ASSUME NEW m, NEW io, NEW ba, NEW out, NEW f,
         Fits(m, io, jobs, alerts, ba, out, f), NEW os \in SUBSET (1..m), DoPause(os)
  PROVE  Fits(m, io, jobs', alerts', ba, out, f)
<1>1. PICK stored \in SUBSET (1..m), rest \in SUBSET (1..m) :
        /\ stored = {o \in os : HasStorage(o)} /\ rest = os \ stored
  OBVIOUS
<1>2. PICK p, q : /\ p = [i \in 1..Cardinality(stored) |->
                            Request("release_paused", SetToSeq(stored)[i])]
                  /\ q = [i \in 1..Cardinality(rest) |-> Alert("paused", SetToSeq(rest)[i])]
  OBVIOUS
<1>3. jobs' = jobs \o p /\ Posts(q)
  BY <1>1, <1>2 DEF DoPause
<1>4. m \in Nat /\ out \in Int
  BY FitsIs
<1>5. p \in Seq(JobsOf(m)) /\ Count(p, SaveJobs) = 0
  BY <1>2, <1>4, SeveralJobs
<1>6. Fits(m, io, jobs \o p, alerts, ba, out, f)
  <2>1. Fits(m, io, jobs \o p, alerts, ba, out + Count(p, SaveJobs), f)
    BY <1>5, FitsJobs
  <2>2. QED
    BY <1>4, <1>5, <2>1
<1>7. q \in Seq(AlertsOf(m)) /\ \A i \in DOMAIN q : q[i].kind = "paused"
  BY <1>2, <1>4, SeveralAlerts
<1>8. QED
  BY <1>3, <1>6, <1>7, FitsPosts

\* one alert, one job, one handler
LEMMA FitsOne ==
  ASSUME NEW m, NEW io, NEW jo, NEW al, NEW ba, NEW out, NEW f,
         Fits(m, io, jo, al, ba, out, f)
  PROVE  /\ \A a \in AlertsOf(m) : a.kind \notin {"saved", "save_failed"} =>
              Fits(m, io, jo, Append(al, a), ba, out, f)
         /\ \A a \in AlertsOf(m) : Fits(m, io, jo, Append(al, a), ba, out + 1, f)
         /\ \A j \in JobsOf(m) : j.op # "save_job" => Fits(m, io, Append(jo, j), al, ba, out, f)
         /\ \A j \in JobsOf(m) : Fits(m, io, Append(jo, j), al, ba, out + 1, f)
         /\ \A h \in HandlersOf(m) : h.op \notin {"add", "save", "on_save"} =>
              Fits(m, Append(io, h), jo, al, ba, out, f)
         /\ \A h \in HandlersOf(m) : h.op # "add" => Fits(m, Append(io, h), jo, al, ba, out + 1, f)
<1>1. PICK cs \in Nat, ca \in Nat, cj \in Nat, cl \in Nat, cb \in Nat, ct \in Nat :
        /\ cs = Count(io, Saves) /\ ca = Count(io, AddsOf(Tags)) /\ cj = Count(jo, SaveJobs)
        /\ cl = Count(al, Told) /\ cb = Count(ba, Told) /\ ct = Cardinality(Turns(f))
  BY FitsIs
<1>2. /\ m \in Nat /\ out \in Int /\ f \in [Tags -> 0..MaxAdds]
      /\ io \in Seq(HandlersOf(m)) /\ jo \in Seq(JobsOf(m))
      /\ al \in Seq(AlertsOf(m)) /\ ba \in Seq(AlertsOf(m))
      /\ m + ca <= ct /\ out >= cs + cj + cl + cb
  BY <1>1, FitsIs
<1>3. ASSUME NEW a \in AlertsOf(m)
      PROVE  /\ a.kind \notin {"saved", "save_failed"} => Fits(m, io, jo, Append(al, a), ba, out, f)
             /\ Fits(m, io, jo, Append(al, a), ba, out + 1, f)
  <2>1. PICK r : r = Append(al, a)
    OBVIOUS
  <2>2. r \in Seq(AlertsOf(m)) /\ Count(r, Told) = Count(al, Told) + IF a \in Told THEN 1 ELSE 0
    BY <1>2, <2>1, CountAppend
  <2>3. PICK n \in {0, 1} : n = IF a \in Told THEN 1 ELSE 0
    OBVIOUS
  <2>4. out + 1 \in Int /\ out + 1 >= cs + cj + (cl + n) + cb
    BY <1>2
  <2>5. Count(r, Told) = cl + n
    BY <1>1, <2>2, <2>3
  <2>6. Fits(m, io, jo, r, ba, out + 1, f)
    BY <1>1, <1>2, <2>2, <2>4, <2>5, FitsIf
  <2>7. ASSUME a.kind \notin {"saved", "save_failed"} PROVE Fits(m, io, jo, r, ba, out, f)
    <3>1. n = 0
      BY <1>2, <2>3, <2>7, AlertIs
    <3>2. out >= cs + cj + (cl + n) + cb
      BY <1>2, <3>1
    <3>3. QED
      BY <1>1, <1>2, <2>2, <2>5, <3>2, FitsIf
  <2>8. QED
    BY <2>1, <2>6, <2>7
<1>4. ASSUME NEW j \in JobsOf(m)
      PROVE  /\ j.op # "save_job" => Fits(m, io, Append(jo, j), al, ba, out, f)
             /\ Fits(m, io, Append(jo, j), al, ba, out + 1, f)
  <2>1. PICK r : r = Append(jo, j)
    OBVIOUS
  <2>2. /\ r \in Seq(JobsOf(m))
        /\ Count(r, SaveJobs) = Count(jo, SaveJobs) + IF j \in SaveJobs THEN 1 ELSE 0
    BY <1>2, <2>1, CountAppend
  <2>3. PICK n \in {0, 1} : n = IF j \in SaveJobs THEN 1 ELSE 0
    OBVIOUS
  <2>4. out + 1 \in Int /\ out + 1 >= cs + (cj + n) + cl + cb
    BY <1>2
  <2>5. Count(r, SaveJobs) = cj + n
    BY <1>1, <2>2, <2>3
  <2>6. Fits(m, io, r, al, ba, out + 1, f)
    BY <1>1, <1>2, <2>2, <2>4, <2>5, FitsIf
  <2>7. ASSUME j.op # "save_job" PROVE Fits(m, io, r, al, ba, out, f)
    <3>1. n = 0
      BY <1>2, <2>3, <2>7, JobIs
    <3>2. out >= cs + (cj + n) + cl + cb
      BY <1>2, <3>1
    <3>3. QED
      BY <1>1, <1>2, <2>2, <2>5, <3>2, FitsIf
  <2>8. QED
    BY <2>1, <2>6, <2>7
<1>5. ASSUME NEW h \in HandlersOf(m), h.op # "add"
      PROVE  /\ h.op \notin {"save", "on_save"} => Fits(m, Append(io, h), jo, al, ba, out, f)
             /\ Fits(m, Append(io, h), jo, al, ba, out + 1, f)
  <2>1. PICK r : r = Append(io, h)
    OBVIOUS
  <2>2. /\ r \in Seq(HandlersOf(m))
        /\ Count(r, Saves) = Count(io, Saves) + IF h \in Saves THEN 1 ELSE 0
    BY <1>2, <2>1, CountAppend
  <2>3. PICK n \in {0, 1} : n = IF h \in Saves THEN 1 ELSE 0
    OBVIOUS
  <2>4. out + 1 \in Int /\ out + 1 >= (cs + n) + cj + cl + cb
    BY <1>2
  <2>5. Count(r, Saves) = cs + n
    BY <1>1, <2>2, <2>3
  <2>6. Count(r, AddsOf(Tags)) = ca
    <3>1. Count(r, AddsOf(Tags)) = Count(io, AddsOf(Tags)) + IF h \in AddsOf(Tags) THEN 1 ELSE 0
      BY <1>2, <2>1, CountAppend
    <3>2. h \notin AddsOf(Tags)
      BY <1>5 DEF AddsOf
    <3>3. QED
      BY <1>1, <3>1, <3>2
  <2>7. Fits(m, r, jo, al, ba, out + 1, f)
    BY <1>1, <1>2, <2>2, <2>4, <2>5, <2>6, FitsIf
  <2>8. ASSUME h.op \notin {"save", "on_save"} PROVE Fits(m, r, jo, al, ba, out, f)
    <3>1. n = 0
      BY <1>2, <2>3, <2>8, HandlerIs
    <3>2. out >= (cs + n) + cj + cl + cb
      BY <1>2, <3>1
    <3>3. QED
      BY <1>1, <1>2, <2>2, <2>5, <2>6, <3>2, FitsIf
  <2>9. QED
    BY <2>1, <2>7, <2>8
<1>6. QED
  BY <1>3, <1>4, <1>5

----------------------------------------------------------------------------
(* The engine's steps                                                             *)

SessionType(m) == [Hashes -> 1..m \cup {None}]
Torrents == [Objs -> TorrentType]

\* what holds of the engine's state, as far as the application's is concerned
EngineOK ==
    /\ Fits(made, ioq, jobs, alerts, batch, outstanding, asked)
    /\ session \in SessionType(made) /\ torrent \in Torrents /\ sesPaused \in BOOLEAN

\* and of the state after one of its steps
EngineOKNext ==
    /\ Fits(made', ioq', jobs', alerts', batch, outstanding, asked)
    /\ session' \in SessionType(made') /\ torrent' \in Torrents /\ sesPaused' \in BOOLEAN
    /\ made' = made \/ made' = made + 1

\* there is room for the torrents
LEMMA CreatedAreObjs ==
  ASSUME EngineOK
  PROVE  Created \subseteq Objs
<1>1. PICK c \in Nat, k \in Nat :
        c = Count(ioq, AddsOf(Tags)) /\ k = Cardinality(Turns(asked)) /\ made \in Nat
        /\ made + c <= k /\ asked \in [Tags -> 0..MaxAdds]
  BY FitsIs DEF EngineOK
<1>2. PICK z : z = MaxAdds * Cardinality(Tags) /\ k <= z
  BY <1>1, TurnsBounded
<1>3. z \in Nat
  BY <1>1, <1>2, TurnsBounded, MaxAddsAssumption
<1>4. made <= z
  BY <1>1, <1>2, <1>3
<1>5. QED
  BY <1>1, <1>2, <1>3, <1>4 DEF Created, Objs

LEMMA Fields ==
  ASSUME NEW r \in TorrentType, NEW b \in BOOLEAN, NEW c \in BOOLEAN, NEW d \in BOOLEAN
  PROVE  /\ \A hash \in Hashes : [r EXCEPT !.hash = hash, !.meta = b, !.auto = c] \in TorrentType
         /\ [r EXCEPT !.auto = b, !.dirty = c] \in TorrentType
         /\ [r EXCEPT !.allow = b, !.graceful = c, !.dirty = d] \in TorrentType
         /\ [r EXCEPT !.finished = b, !.dirty = c] \in TorrentType
         /\ [r EXCEPT !.dirty = b] \in TorrentType
         /\ [r EXCEPT !.meta = b] \in TorrentType
  BY DEF TorrentType

LEMMA OneTorrent ==
  ASSUME NEW f \in Torrents, NEW o, NEW r, o \in Objs => r \in TorrentType
  PROVE  [f EXCEPT ![o] = r] \in Torrents
  BY DEF Torrents

\* a handler that is no request to add and no result is taken off the queue
LEMMA RunsOther ==
  ASSUME EngineOK, NEW op, Runs(op), op \notin {"add", "save", "on_save"}
  PROVE  /\ Head(ioq) \in HandlersOf(made) /\ Head(ioq).op = op /\ made \in Nat
         /\ Fits(made, ioq', jobs, alerts, batch, outstanding, asked)
<1>1. ioq # <<>> /\ Head(ioq).op = op /\ ioq' = Tail(ioq)
  BY DEF Runs
<1>2. Fits(made, ioq, jobs, alerts, batch, outstanding, asked)
  BY DEF EngineOK
<1>3. /\ Head(ioq) \in HandlersOf(made)
      /\ Fits(made, Tail(ioq), jobs, alerts, batch, outstanding, asked)
  BY <1>1, <1>2, FitsRun
<1>4. made \in Nat
  BY <1>2, FitsIs
<1>5. QED
  BY <1>1, <1>3, <1>4

LEMMA AddTorrentKeeps ==
  ASSUME EngineOK, AddTorrent
  PROVE  EngineOKNext
<1>1. PICK h \in HandlersOf(made) :
        h = Head(ioq) /\ h.op = "add" /\ ioq # <<>> /\ ioq' = Tail(ioq)
        /\ Fits(made, ioq', jobs, alerts, batch, outstanding, asked)
        /\ Fits(made + 1, ioq', jobs, alerts, batch, outstanding, asked)
  BY FitsRun DEF EngineOK, AddTorrent, Runs
<1>2. /\ session \in SessionType(made) /\ torrent \in Torrents /\ sesPaused \in BOOLEAN
      /\ made \in Nat
  BY FitsIs DEF EngineOK
<1>3. h.tag \in Tags /\ HashOf[h.tag] \in Hashes
  BY <1>1, <1>2, HandlerIs, TagsAssumption
<1>4. jobs' = jobs /\ sesPaused' = sesPaused
  BY DEF AddTorrent
<1>5. CASE session[HashOf[h.tag]] # None
  <2>1. PICK a : a = [kind |-> "added", obj |-> session[HashOf[h.tag]], tag |-> h.tag]
    OBVIOUS
  <2>2. /\ alerts' = Append(alerts, a)
        /\ session' = session /\ torrent' = torrent /\ made' = made
    BY <1>1, <1>5, <2>1 DEF AddTorrent
  <2>3. session[HashOf[h.tag]] \in 1..made
    BY <1>2, <1>3, <1>5 DEF SessionType
  <2>4. a \in AlertsOf(made) /\ a.kind = "added"
    BY <1>3, <2>1, <2>3 DEF AlertsOf
  <2>5. Fits(made, ioq', jobs, Append(alerts, a), batch, outstanding, asked)
    BY <1>1, <2>4, FitsOne
  <2>6. QED
    BY <1>2, <1>4, <2>2, <2>5 DEF EngineOKNext
<1>6. CASE session[HashOf[h.tag]] = None
  <2>1. PICK a : a = [kind |-> "added", obj |-> made + 1, tag |-> h.tag]
    OBVIOUS
  <2>2. /\ alerts' = Append(alerts, a)
        /\ session' = [session EXCEPT ![HashOf[h.tag]] = made + 1] /\ made' = made + 1
        /\ \E managed \in BOOLEAN :
              torrent' = [torrent EXCEPT ![made'] =
                  [@ EXCEPT !.hash = HashOf[h.tag], !.meta = h.tag \in FileTags, !.auto = managed]]
    BY <1>1, <1>6, <2>1 DEF AddTorrent
  <2>3. session' \in SessionType(made + 1)
    BY <1>2, <1>3, <2>2 DEF SessionType
  <2>4. torrent' \in Torrents
    <3>1. PICK managed \in BOOLEAN :
            torrent' = [torrent EXCEPT ![made'] =
                [@ EXCEPT !.hash = HashOf[h.tag], !.meta = h.tag \in FileTags, !.auto = managed]]
      BY <2>2
    <3>2. PICK n, file : n = made' /\ file = (h.tag \in FileTags)
      OBVIOUS
    <3>3. PICK r : r = [torrent[n] EXCEPT !.hash = HashOf[h.tag], !.meta = file, !.auto = managed]
      OBVIOUS
    <3>4. file \in BOOLEAN
      BY <3>2
    <3>5. n \in Objs => r \in TorrentType
      BY <1>2, <1>3, <3>4, <3>3, Fields DEF Torrents
    <3>6. torrent' = [torrent EXCEPT ![n] = r]
      BY <3>1, <3>2, <3>3
    <3>7. QED
      BY <1>2, <3>5, <3>6, OneTorrent
  <2>5. a \in AlertsOf(made + 1) /\ a.kind = "added"
    BY <1>2, <1>3, <2>1 DEF AlertsOf
  <2>6. Fits(made + 1, ioq', jobs, Append(alerts, a), batch, outstanding, asked)
    BY <1>1, <2>5, FitsOne
  <2>7. QED
    BY <1>2, <1>4, <2>2, <2>3, <2>4, <2>6 DEF EngineOKNext
<1>7. QED
  BY <1>5, <1>6

LEMMA RemoveTorrentKeeps ==
  ASSUME EngineOK, RemoveTorrent
  PROVE  EngineOKNext
<1>1. PICK h \in HandlersOf(made) :
        h = Head(ioq) /\ h.op = "remove" /\ made \in Nat
        /\ Fits(made, ioq', jobs, alerts, batch, outstanding, asked)
  BY RunsOther DEF RemoveTorrent
<1>2. session \in SessionType(made) /\ torrent \in Torrents /\ sesPaused \in BOOLEAN
  BY DEF EngineOK
<1>3. h.obj \in 1..made
  BY <1>1, HandlerIs DEF Plain
<1>4. made' = made /\ sesPaused' = sesPaused /\ alerts' = alerts
  BY DEF RemoveTorrent
<1>5. CASE ~Live(h.obj)
  <2>1. session' = session /\ torrent' = torrent /\ jobs' = jobs
    BY <1>1, <1>5 DEF RemoveTorrent
  <2>2. QED
    BY <1>1, <1>2, <1>4, <2>1 DEF EngineOKNext
<1>6. CASE Live(h.obj)
  <2>1. /\ session' = [session EXCEPT ![torrent[h.obj].hash] = None]
        /\ torrent' = [torrent EXCEPT ![h.obj].aborted = TRUE]
        /\ jobs' = IF HasStorage(h.obj) THEN Append(jobs, Request("release", h.obj)) ELSE jobs
    BY <1>1, <1>6 DEF RemoveTorrent
  <2>2. session' \in SessionType(made)
    BY <1>2, <2>1 DEF SessionType
  <2>3. torrent' \in Torrents
    BY <1>2, <2>1 DEF Torrents, TorrentType
  <2>4. Request("release", h.obj) \in JobsOf(made) /\ Request("release", h.obj).op = "release"
    BY <1>1, <1>3, Made
  <2>5. Fits(made, ioq', Append(jobs, Request("release", h.obj)), alerts, batch, outstanding, asked)
    BY <1>1, <2>4, FitsOne
  <2>6. Fits(made, ioq', jobs', alerts, batch, outstanding, asked)
    BY <1>1, <2>1, <2>5
  <2>7. QED
    BY <1>2, <1>4, <2>2, <2>3, <2>6 DEF EngineOKNext
<1>7. QED
  BY <1>5, <1>6

LEMMA SetAutoManagedKeeps ==
  ASSUME EngineOK, SetAutoManaged
  PROVE  EngineOKNext
<1>1. PICK h \in HandlersOf(made) :
        h = Head(ioq) /\ h.op = "auto" /\ made \in Nat
        /\ Fits(made, ioq', jobs, alerts, batch, outstanding, asked)
  BY RunsOther DEF SetAutoManaged
<1>2. session \in SessionType(made) /\ torrent \in Torrents /\ sesPaused \in BOOLEAN
  BY DEF EngineOK
<1>3. PICK b \in BOOLEAN : b = h.to
  BY <1>1, HandlerIs
<1>4. /\ torrent' = [torrent EXCEPT ![h.obj] =
            [torrent[h.obj] EXCEPT !.auto = b,
                                   !.dirty = torrent[h.obj].dirty \/ torrent[h.obj].auto # b]]
      /\ made' = made /\ jobs' = jobs /\ sesPaused' = sesPaused /\ alerts' = alerts
      /\ session' = session
  BY <1>1, <1>3 DEF SetAutoManaged
<1>5. torrent' \in Torrents
  <2>1. PICK d \in BOOLEAN : d = (torrent[h.obj].dirty \/ torrent[h.obj].auto # b)
    OBVIOUS
  <2>2. PICK r : r = [torrent[h.obj] EXCEPT !.auto = b,
                        !.dirty = torrent[h.obj].dirty \/ torrent[h.obj].auto # b]
    OBVIOUS
  <2>3. r = [torrent[h.obj] EXCEPT !.auto = b, !.dirty = d]
    BY <2>1, <2>2
  <2>4. h.obj \in Objs => r \in TorrentType
    BY <1>2, <2>3, Fields DEF Torrents
  <2>5. torrent' = [torrent EXCEPT ![h.obj] = r]
    BY <1>4, <2>2
  <2>6. QED
    BY <1>2, <2>4, <2>5, OneTorrent
<1>6. QED
  BY <1>1, <1>2, <1>4, <1>5 DEF EngineOKNext

LEMMA PauseTorrentKeeps ==
  ASSUME EngineOK, PauseTorrent
  PROVE  EngineOKNext
<1>1. PICK graceful \in BOOLEAN :
        /\ Runs(IF graceful THEN "pause_gracefully" ELSE "pause")
        /\ LET o == Head(ioq).obj
           IN  IF ~torrent[o].allow
                 THEN UNCHANGED <<torrent, jobs, alerts>>
                 ELSE /\ torrent' = [torrent EXCEPT ![o] =
                             [@ EXCEPT !.allow = graceful, !.graceful = graceful, !.dirty = TRUE]]
                      /\ IF ~sesPaused \/ (torrent[o].graceful /\ ~graceful)
                           THEN DoPause({o})
                           ELSE UNCHANGED <<jobs, alerts>>
        /\ UNCHANGED <<session, made, sesPaused>>
  BY DEF PauseTorrent
<1>2. PICK op : op = IF graceful THEN "pause_gracefully" ELSE "pause"
  OBVIOUS
<1>3. op \in {"pause_gracefully", "pause"}
  BY <1>2
<1>4. PICK h \in HandlersOf(made) :
        h = Head(ioq) /\ h.op = op /\ made \in Nat
        /\ Fits(made, ioq', jobs, alerts, batch, outstanding, asked)
  BY <1>1, <1>2, <1>3, RunsOther
<1>5. session \in SessionType(made) /\ torrent \in Torrents /\ sesPaused \in BOOLEAN
  BY DEF EngineOK
<1>6. h.obj \in 1..made
  BY <1>3, <1>4, HandlerIs DEF Plain
<1>7. session' = session /\ made' = made /\ sesPaused' = sesPaused
  BY <1>1
<1>8. torrent' \in Torrents
  <2>1. \/ torrent' = torrent
        \/ torrent' = [torrent EXCEPT ![h.obj] =
                         [@ EXCEPT !.allow = graceful, !.graceful = graceful, !.dirty = TRUE]]
    BY <1>1, <1>4
  <2>2. PICK r : r = [torrent[h.obj] EXCEPT !.allow = graceful, !.graceful = graceful,
                                            !.dirty = TRUE]
    OBVIOUS
  <2>3. h.obj \in Objs => r \in TorrentType
    BY <1>5, <2>2, Fields DEF Torrents
  <2>4. torrent' = torrent \/ torrent' = [torrent EXCEPT ![h.obj] = r]
    BY <2>1, <2>2
  <2>5. QED
    BY <1>5, <2>3, <2>4, OneTorrent
<1>9. DoPause({h.obj}) \/ (jobs' = jobs /\ alerts' = alerts)
  BY <1>1, <1>4
<1>10. Fits(made, ioq', jobs', alerts', batch, outstanding, asked)
  <2>1. CASE DoPause({h.obj})
    <3>1. {h.obj} \in SUBSET (1..made)
      BY <1>6
    <3>2. QED
      BY <1>4, <2>1, <3>1, FitsPause
  <2>2. QED
    BY <1>4, <1>9, <2>1
<1>11. QED
  BY <1>5, <1>7, <1>8, <1>10 DEF EngineOKNext

LEMMA ResumeTorrentKeeps ==
  ASSUME EngineOK, ResumeTorrent
  PROVE  EngineOKNext
<1>1. PICK h \in HandlersOf(made) :
        h = Head(ioq) /\ h.op = "resume" /\ made \in Nat
        /\ Fits(made, ioq', jobs, alerts, batch, outstanding, asked)
  BY RunsOther DEF ResumeTorrent
<1>2. session \in SessionType(made) /\ torrent \in Torrents /\ sesPaused \in BOOLEAN
  BY DEF EngineOK
<1>3. /\ \/ torrent' = torrent
         \/ torrent' = [torrent EXCEPT ![h.obj] =
                [torrent[h.obj] EXCEPT !.allow = TRUE,
                                       !.graceful = torrent[h.obj].graceful /\ sesPaused,
                                       !.dirty = torrent[h.obj].dirty \/ ~sesPaused]]
      /\ made' = made /\ jobs' = jobs /\ sesPaused' = sesPaused /\ alerts' = alerts
      /\ session' = session
  BY <1>1 DEF ResumeTorrent
<1>4. torrent' \in Torrents
  <2>1. PICK g \in BOOLEAN, d \in BOOLEAN : /\ g = (torrent[h.obj].graceful /\ sesPaused)
                                            /\ d = (torrent[h.obj].dirty \/ ~sesPaused)
    OBVIOUS
  <2>2. PICK r : r = [torrent[h.obj] EXCEPT !.allow = TRUE,
                        !.graceful = torrent[h.obj].graceful /\ sesPaused,
                        !.dirty = torrent[h.obj].dirty \/ ~sesPaused]
    OBVIOUS
  <2>3. r = [torrent[h.obj] EXCEPT !.allow = TRUE, !.graceful = g, !.dirty = d]
    BY <2>1, <2>2
  <2>4. h.obj \in Objs => r \in TorrentType
    BY <1>2, <2>3, Fields DEF Torrents
  <2>5. torrent' = torrent \/ torrent' = [torrent EXCEPT ![h.obj] = r]
    BY <1>3, <2>2
  <2>6. QED
    BY <1>2, <2>4, <2>5, OneTorrent
<1>5. QED
  BY <1>1, <1>2, <1>3, <1>4 DEF EngineOKNext

\* a queue of one alert
LEMMA OneAlert ==
  ASSUME NEW m \in Nat, NEW o \in 1..m, NEW kind \in {"metadata", "finished", "paused"}, NEW q,
         q = <<Alert(kind, o)>>
  PROVE  /\ q \in Seq(AlertsOf(m))
         /\ \A i \in DOMAIN q : q[i].kind \notin {"saved", "save_failed"}
<1>1. Alert(kind, o) \in AlertsOf(m) /\ Alert(kind, o).kind = kind
  BY Made
<1>2. PICK a \in AlertsOf(m) : a = Alert(kind, o) /\ a.kind = kind
  BY <1>1
<1>3. q = <<a>> /\ DOMAIN q = {1} /\ q[1] = a
  BY <1>2
<1>4. QED
  BY <1>2, <1>3, CountOne

\* a handler that brings a result, or asks for one, is taken off the queue
LEMMA RunsResult ==
  ASSUME EngineOK, NEW op, Runs(op), op \in {"save", "on_save"}
  PROVE  /\ Head(ioq) \in HandlersOf(made) /\ Head(ioq).obj \in 1..made /\ made \in Nat
         /\ Fits(made, ioq', jobs, alerts, batch, outstanding - 1, asked)
         /\ Fits(made, ioq', jobs, alerts, batch, outstanding, asked)
<1>1. ioq # <<>> /\ Head(ioq).op = op /\ ioq' = Tail(ioq)
  BY DEF Runs
<1>2. Fits(made, ioq, jobs, alerts, batch, outstanding, asked)
  BY DEF EngineOK
<1>3. /\ Head(ioq) \in HandlersOf(made)
      /\ Fits(made, Tail(ioq), jobs, alerts, batch, outstanding, asked)
      /\ Fits(made, Tail(ioq), jobs, alerts, batch, outstanding - 1, asked)
  BY <1>1, <1>2, FitsRun
<1>4. made \in Nat
  BY <1>2, FitsIs
<1>5. Head(ioq).obj \in 1..made
  BY <1>1, <1>3, <1>4, HandlerIs DEF Plain
<1>6. QED
  BY <1>1, <1>3, <1>4, <1>5

\* which the result takes the place of
LEMMA ResultIsTold ==
  ASSUME NEW m, NEW io, NEW jo, NEW al, NEW ba, NEW out \in Int, NEW f,
         Fits(m, io, jo, al, ba, out - 1, f)
  PROVE  /\ \A a \in AlertsOf(m) : Fits(m, io, jo, Append(al, a), ba, out, f)
         /\ \A j \in JobsOf(m) : Fits(m, io, Append(jo, j), al, ba, out, f)
         /\ \A h \in HandlersOf(m) : h.op # "add" => Fits(m, Append(io, h), jo, al, ba, out, f)
<1>1. (out - 1) + 1 = out
  OBVIOUS
<1>2. QED
  BY <1>1, FitsOne

LEMMA SaveResumeDataKeeps ==
  ASSUME EngineOK, SaveResumeData
  PROVE  EngineOKNext
<1>1. PICK o : /\ o = Head(ioq).obj /\ o \in 1..made /\ made \in Nat
               /\ Fits(made, ioq', jobs, alerts, batch, outstanding - 1, asked)
  BY RunsResult DEF SaveResumeData
<1>2. /\ session \in SessionType(made) /\ torrent \in Torrents /\ sesPaused \in BOOLEAN
      /\ outstanding \in Int
  BY FitsIs DEF EngineOK
<1>3. session' = session /\ made' = made /\ sesPaused' = sesPaused
  BY DEF SaveResumeData
<1>4. \/ /\ alerts' = Append(alerts, Alert("save_failed", o))
         /\ torrent' = torrent /\ jobs' = jobs
      \/ /\ torrent' = [torrent EXCEPT ![o].dirty = TRUE]
         /\ alerts' = Append(alerts, Alert("saved", o)) /\ jobs' = jobs
      \/ /\ torrent' = [torrent EXCEPT ![o].dirty = TRUE]
         /\ jobs' = Append(jobs, Request("save_job", o)) /\ alerts' = alerts
  BY <1>1 DEF SaveResumeData, Fails
<1>5. torrent' \in Torrents
  BY <1>2, <1>4 DEF Torrents, TorrentType
<1>6. /\ Alert("save_failed", o) \in AlertsOf(made) /\ Alert("saved", o) \in AlertsOf(made)
      /\ Request("save_job", o) \in JobsOf(made)
  BY <1>1, Made
<1>7. Fits(made, ioq', jobs', alerts', batch, outstanding, asked)
  <2>1. /\ \A a \in AlertsOf(made) :
              Fits(made, ioq', jobs, Append(alerts, a), batch, outstanding, asked)
        /\ \A j \in JobsOf(made) :
              Fits(made, ioq', Append(jobs, j), alerts, batch, outstanding, asked)
    BY <1>1, <1>2, ResultIsTold
  <2>2. QED
    BY <1>4, <1>6, <2>1
<1>8. QED
  BY <1>2, <1>3, <1>5, <1>7 DEF EngineOKNext

LEMMA OnSaveResumeDataKeeps ==
  ASSUME EngineOK, OnSaveResumeData
  PROVE  EngineOKNext
<1>1. PICK o : /\ o = Head(ioq).obj /\ o \in 1..made /\ made \in Nat
               /\ Fits(made, ioq', jobs, alerts, batch, outstanding - 1, asked)
  BY RunsResult DEF OnSaveResumeData
<1>2. /\ session \in SessionType(made) /\ torrent \in Torrents /\ sesPaused \in BOOLEAN
      /\ outstanding \in Int
  BY FitsIs DEF EngineOK
<1>3. session' = session /\ made' = made /\ sesPaused' = sesPaused /\ jobs' = jobs
  BY DEF OnSaveResumeData
<1>4. \/ /\ alerts' = Append(alerts, Alert("saved", o))
         /\ torrent' = [torrent EXCEPT ![o].dirty = TRUE]
      \/ /\ alerts' = Append(alerts, Alert("save_failed", o)) /\ torrent' = torrent
  BY <1>1 DEF OnSaveResumeData, Fails
<1>5. torrent' \in Torrents
  BY <1>2, <1>4 DEF Torrents, TorrentType
<1>6. Alert("save_failed", o) \in AlertsOf(made) /\ Alert("saved", o) \in AlertsOf(made)
  BY <1>1, Made
<1>7. Fits(made, ioq', jobs, alerts', batch, outstanding, asked)
  <2>1. \A a \in AlertsOf(made) :
          Fits(made, ioq', jobs, Append(alerts, a), batch, outstanding, asked)
    BY <1>1, <1>2, ResultIsTold
  <2>2. QED
    BY <1>4, <1>6, <2>1
<1>8. QED
  BY <1>2, <1>3, <1>5, <1>7 DEF EngineOKNext

LEMMA PauseSessionKeeps ==
  ASSUME EngineOK, PauseSession
  PROVE  EngineOKNext
<1>1. made \in Nat /\ Fits(made, ioq', jobs, alerts, batch, outstanding, asked)
  BY RunsOther DEF PauseSession
<1>2. session \in SessionType(made) /\ torrent \in Torrents /\ sesPaused \in BOOLEAN
  BY DEF EngineOK
<1>3. session' = session /\ made' = made /\ sesPaused' \in BOOLEAN
  BY DEF PauseSession
<1>4. CASE torrent' = torrent /\ jobs' = jobs /\ alerts' = alerts
  BY <1>1, <1>2, <1>3, <1>4 DEF EngineOKNext
<1>5. CASE /\ torrent' = [o \in Objs |-> [torrent[o] EXCEPT !.dirty = @ \/ o \in Listed]]
           /\ DoPause(Listed)
  <2>1. torrent' \in Torrents
    <3>1. ASSUME NEW o \in Objs
          PROVE  [torrent[o] EXCEPT !.dirty = @ \/ o \in Listed] \in TorrentType
      <4>1. PICK r : r = torrent[o]
        OBVIOUS
      <4>2. PICK d \in BOOLEAN : d = (r.dirty \/ o \in Listed)
        OBVIOUS
      <4>3. [r EXCEPT !.dirty = d] \in TorrentType
        BY <1>2, <4>1, Fields DEF Torrents
      <4>4. [r EXCEPT !.dirty = d] = [r EXCEPT !.dirty = @ \/ o \in Listed]
        BY <4>2
      <4>5. QED
        BY <4>1, <4>3, <4>4
    <3>2. QED
      BY <1>5, <3>1 DEF Torrents
  <2>2. Listed \in SUBSET (1..made)
    BY DEF Listed, Created
  <2>3. Fits(made, ioq', jobs', alerts', batch, outstanding, asked)
    BY <1>1, <1>5, <2>2, FitsPause
  <2>4. QED
    BY <1>2, <1>3, <2>1, <2>3 DEF EngineOKNext
<1>6. QED
  BY <1>4, <1>5 DEF PauseSession

LEMMA PostTorrentUpdatesKeeps ==
  ASSUME EngineOK, PostTorrentUpdates
  PROVE  EngineOKNext
<1>1. made \in Nat /\ Fits(made, ioq', jobs, alerts, batch, outstanding, asked)
  BY RunsOther DEF PostTorrentUpdates
<1>2. session \in SessionType(made) /\ torrent \in Torrents /\ sesPaused \in BOOLEAN
  BY DEF EngineOK
<1>3. /\ session' = session /\ made' = made /\ sesPaused' = sesPaused /\ jobs' = jobs
      /\ torrent' = [o \in Objs |-> [torrent[o] EXCEPT !.dirty = FALSE]]
  BY DEF PostTorrentUpdates
<1>4. torrent' \in Torrents
  <2>1. \A o \in Objs : [torrent[o] EXCEPT !.dirty = FALSE] \in TorrentType
    BY <1>2, Fields DEF Torrents
  <2>2. QED
    BY <1>3, <2>1 DEF Torrents
<1>5. PICK news : /\ news = {o \in Created : torrent[o].dirty /\ Live(o)}
  OBVIOUS
<1>6. PICK status :
        status = {[obj |-> o, paused |-> Paused(o), auto |-> torrent[o].auto] : o \in news}
  OBVIOUS
<1>7. alerts' = IF news = {} THEN alerts
                ELSE Append(alerts, [kind |-> "updates", status |-> status])
  BY <1>5, <1>6 DEF PostTorrentUpdates
<1>8. status \in SUBSET StatusOf(made)
  <2>1. ASSUME NEW o \in news
        PROVE  [obj |-> o, paused |-> Paused(o), auto |-> torrent[o].auto] \in StatusOf(made)
    <3>1. Paused(o) \in BOOLEAN /\ torrent[o].auto \in BOOLEAN
      <4>1. o \in Objs
        BY CreatedAreObjs, <1>5
      <4>2. torrent[o].auto \in BOOLEAN
        BY <1>2, <4>1 DEF Torrents, TorrentType
      <4>3. Paused(o) \in BOOLEAN
        BY DEF Paused
      <4>4. QED
        BY <4>2, <4>3
    <3>2. o \in 1..made
      BY <1>5 DEF Created
    <3>3. QED
      BY <3>1, <3>2 DEF StatusOf
  <2>2. QED
    BY <1>6, <2>1
<1>9. Fits(made, ioq', jobs, alerts', batch, outstanding, asked)
  <2>1. PICK a : a = [kind |-> "updates", status |-> status]
    OBVIOUS
  <2>2. a \in AlertsOf(made) /\ a.kind = "updates"
    BY <1>8, <2>1 DEF AlertsOf
  <2>3. Fits(made, ioq', jobs, Append(alerts, a), batch, outstanding, asked)
    BY <1>1, <2>2, FitsOne
  <2>4. QED
    BY <1>1, <1>7, <2>1, <2>3
<1>10. QED
  BY <1>2, <1>3, <1>4, <1>9 DEF EngineOKNext

LEMMA DiskThreadKeeps ==
  ASSUME EngineOK, DiskThread
  PROVE  EngineOKNext
<1>1. /\ Fits(made, ioq, jobs, alerts, batch, outstanding, asked)
      /\ made \in Nat /\ outstanding \in Int
  BY FitsIs DEF EngineOK
<1>2. session \in SessionType(made) /\ torrent \in Torrents /\ sesPaused \in BOOLEAN
  BY DEF EngineOK
<1>3. /\ session' = session /\ torrent' = torrent /\ made' = made /\ sesPaused' = sesPaused
      /\ alerts' = alerts /\ jobs # <<>> /\ jobs' = Tail(jobs)
  BY DEF DiskThread
<1>4. PICK j \in JobsOf(made) : j = Head(jobs)
  BY <1>1, <1>3, FitsJobs
<1>5. /\ j.op # "save_job" => Fits(made, ioq, Tail(jobs), alerts, batch, outstanding, asked)
      /\ j.op = "save_job" => Fits(made, ioq, Tail(jobs), alerts, batch, outstanding - 1, asked)
  <2>1. Fits(made, ioq, Tail(jobs), alerts, batch,
             outstanding - (IF j.op = "save_job" THEN 1 ELSE 0), asked)
    BY <1>1, <1>3, <1>4, FitsJobs
  <2>2. outstanding - 0 = outstanding
    BY <1>1
  <2>3. QED
    BY <2>1, <2>2
<1>6. PICK op : op = CASE j.op = "save_job"       -> "on_save"
                       [] j.op = "release_paused" -> "on_paused"
                       [] OTHER                   -> "on_released"
  OBVIOUS
<1>7. PICK h : h = [j EXCEPT !.op = op] /\ ioq' = Append(ioq, h)
  BY <1>4, <1>6 DEF DiskThread
<1>8. /\ op \in {"on_save", "on_paused", "on_released"}
      /\ op = "on_save" => j.op = "save_job"
  BY <1>6
<1>9. h \in HandlersOf(made) /\ h.op = op
  <2>1. h.op = op /\ h.obj = j.obj /\ h \in [op : Plain, obj : 1..made]
    BY <1>7, <1>8 DEF JobsOf, Plain
  <2>2. QED
    BY <2>1 DEF HandlersOf
<1>10. Fits(made, ioq', Tail(jobs), alerts, batch, outstanding, asked)
  <2>1. CASE j.op = "save_job"
    <3>1. Fits(made, ioq, Tail(jobs), alerts, batch, outstanding - 1, asked) /\ h.op # "add"
      BY <1>5, <1>8, <1>9, <2>1
    <3>2. Fits(made, Append(ioq, h), Tail(jobs), alerts, batch, outstanding, asked)
      BY <1>1, <1>9, <3>1, ResultIsTold
    <3>3. QED
      BY <1>7, <3>2
  <2>2. CASE j.op # "save_job"
    <3>1. /\ Fits(made, ioq, Tail(jobs), alerts, batch, outstanding, asked)
          /\ h.op \notin {"add", "save", "on_save"}
      BY <1>5, <1>8, <1>9, <2>2
    <3>2. Fits(made, Append(ioq, h), Tail(jobs), alerts, batch, outstanding, asked)
      BY <1>9, <3>1, FitsOne
    <3>3. QED
      BY <1>7, <3>2
  <2>3. QED
    BY <2>1, <2>2
<1>11. QED
  BY <1>2, <1>3, <1>10 DEF EngineOKNext

LEMMA OnTorrentPausedKeeps ==
  ASSUME EngineOK, OnTorrentPaused
  PROVE  EngineOKNext
<1>1. PICK h \in HandlersOf(made) :
        h = Head(ioq) /\ h.op = "on_paused" /\ made \in Nat
        /\ Fits(made, ioq', jobs, alerts, batch, outstanding, asked)
  BY RunsOther DEF OnTorrentPaused
<1>2. session \in SessionType(made) /\ torrent \in Torrents /\ sesPaused \in BOOLEAN
  BY DEF EngineOK
<1>3. h.obj \in 1..made
  BY <1>1, HandlerIs DEF Plain
<1>4. PICK q : q = <<Alert("paused", h.obj)>>
  OBVIOUS
<1>5. q \in Seq(AlertsOf(made)) /\ \A i \in DOMAIN q : q[i].kind \notin {"saved", "save_failed"}
  BY <1>1, <1>3, <1>4, OneAlert
<1>6. Posts(q) /\ session' = session /\ torrent' = torrent /\ made' = made /\ jobs' = jobs
      /\ sesPaused' = sesPaused
  BY <1>1, <1>4 DEF OnTorrentPaused
<1>7. Fits(made, ioq', jobs, alerts', batch, outstanding, asked)
  BY <1>1, <1>5, <1>6, FitsPosts
<1>8. QED
  BY <1>2, <1>6, <1>7 DEF EngineOKNext

LEMMA OnFilesReleasedKeeps ==
  ASSUME EngineOK, OnFilesReleased
  PROVE  EngineOKNext
<1>1. made \in Nat /\ Fits(made, ioq', jobs, alerts, batch, outstanding, asked)
  BY RunsOther DEF OnFilesReleased
<1>2. QED
  BY <1>1 DEF OnFilesReleased, EngineOK, EngineOKNext

LEMMA MetadataKeeps ==
  ASSUME EngineOK, NEW o \in Created, Metadata(o)
  PROVE  EngineOKNext
<1>1. Fits(made, ioq, jobs, alerts, batch, outstanding, asked) /\ made \in Nat
  BY FitsIs DEF EngineOK
<1>2. session \in SessionType(made) /\ torrent \in Torrents /\ sesPaused \in BOOLEAN
  BY DEF EngineOK
<1>3. PICK q : q = <<Alert("metadata", o)>>
  OBVIOUS
<1>4. q \in Seq(AlertsOf(made)) /\ \A i \in DOMAIN q : q[i].kind \notin {"saved", "save_failed"}
  BY <1>1, <1>3, OneAlert DEF Created
<1>5. Posts(q) /\ session' = session /\ made' = made /\ jobs' = jobs /\ ioq' = ioq
      /\ sesPaused' = sesPaused /\ torrent' = [torrent EXCEPT ![o].meta = TRUE]
  BY <1>3 DEF Metadata
<1>6. torrent' \in Torrents
  BY <1>2, <1>5 DEF Torrents, TorrentType
<1>7. Fits(made, ioq, jobs, alerts', batch, outstanding, asked)
  BY <1>1, <1>4, <1>5, FitsPosts
<1>8. QED
  BY <1>2, <1>5, <1>6, <1>7 DEF EngineOKNext

LEMMA FinishKeeps ==
  ASSUME EngineOK, NEW o \in Created, Finish(o)
  PROVE  EngineOKNext
<1>1. Fits(made, ioq, jobs, alerts, batch, outstanding, asked) /\ made \in Nat /\ o \in 1..made
  BY FitsIs DEF EngineOK, Created
<1>2. session \in SessionType(made) /\ torrent \in Torrents /\ sesPaused \in BOOLEAN
  BY DEF EngineOK
<1>3. PICK q : q = <<Alert("finished", o)>>
  OBVIOUS
<1>4. q \in Seq(AlertsOf(made)) /\ \A i \in DOMAIN q : q[i].kind \notin {"saved", "save_failed"}
  BY <1>1, <1>3, OneAlert
<1>5. Posts(q) /\ session' = session /\ made' = made /\ ioq' = ioq /\ sesPaused' = sesPaused
      /\ jobs' = Append(jobs, Request("release", o))
      /\ torrent' = [torrent EXCEPT ![o] = [@ EXCEPT !.finished = TRUE, !.dirty = TRUE]]
  BY <1>3 DEF Finish
<1>6. torrent' \in Torrents
  <2>1. PICK r : r = [torrent[o] EXCEPT !.finished = TRUE, !.dirty = TRUE]
    OBVIOUS
  <2>2. o \in Objs => r \in TorrentType
    BY <1>2, <2>1, Fields DEF Torrents
  <2>3. torrent' = [torrent EXCEPT ![o] = r]
    BY <1>5, <2>1
  <2>4. QED
    BY <1>2, <2>2, <2>3, OneTorrent
<1>7. Request("release", o) \in JobsOf(made) /\ Request("release", o).op = "release"
  BY <1>1, Made
<1>8. Fits(made, ioq, jobs', alerts, batch, outstanding, asked)
  BY <1>1, <1>5, <1>7, FitsOne
<1>9. PICK jo : jo = jobs'
  OBVIOUS
<1>10. Fits(made, ioq, jo, alerts', batch, outstanding, asked)
  BY <1>4, <1>5, <1>8, <1>9, FitsPosts
<1>11. QED
  BY <1>2, <1>5, <1>6, <1>9, <1>10 DEF EngineOKNext

LEMMA AutoManageKeeps ==
  ASSUME EngineOK, NEW o \in Created, AutoManage(o)
  PROVE  EngineOKNext
<1>1. Fits(made, ioq, jobs, alerts, batch, outstanding, asked) /\ made \in Nat
  BY FitsIs DEF EngineOK
<1>2. session \in SessionType(made) /\ torrent \in Torrents /\ sesPaused \in BOOLEAN
  BY DEF EngineOK
<1>3. PICK b \in BOOLEAN :
        /\ torrent' = [torrent EXCEPT ![o] =
               [@ EXCEPT !.allow = b, !.graceful = ~b, !.dirty = TRUE]]
        /\ DoPause({o}) \/ (jobs' = jobs /\ alerts' = alerts)
  BY DEF AutoManage
<1>4. session' = session /\ made' = made /\ ioq' = ioq /\ sesPaused' = sesPaused
  BY DEF AutoManage
<1>5. torrent' \in Torrents
  <2>1. PICK r : r = [torrent[o] EXCEPT !.allow = b, !.graceful = ~b, !.dirty = TRUE]
    OBVIOUS
  <2>2. (~b) \in BOOLEAN
    OBVIOUS
  <2>3. o \in Objs => r \in TorrentType
    BY <1>2, <2>1, <2>2, Fields DEF Torrents
  <2>4. torrent' = [torrent EXCEPT ![o] = r]
    BY <1>3, <2>1
  <2>5. QED
    BY <1>2, <2>3, <2>4, OneTorrent
<1>6. Fits(made, ioq, jobs', alerts', batch, outstanding, asked)
  <2>1. CASE DoPause({o})
    <3>1. {o} \in SUBSET (1..made)
      BY DEF Created
    <3>2. QED
      BY <1>1, <2>1, <3>1, FitsPause
  <2>2. QED
    BY <1>1, <1>3, <2>1
<1>7. QED
  BY <1>2, <1>4, <1>5, <1>6 DEF EngineOKNext

LEMMA EngineKeeps ==
  ASSUME EngineOK, EngineNext
  PROVE  EngineOKNext
<1>1. CASE NetworkThread
  BY <1>1, AddTorrentKeeps, RemoveTorrentKeeps, SetAutoManagedKeeps, PauseTorrentKeeps,
     ResumeTorrentKeeps, SaveResumeDataKeeps, PauseSessionKeeps, PostTorrentUpdatesKeeps,
     OnSaveResumeDataKeeps, OnTorrentPausedKeeps, OnFilesReleasedKeeps, Zenon DEF NetworkThread
<1>2. CASE DiskThread
  BY <1>2, DiskThreadKeeps
<1>3. CASE Swarm
  BY <1>3, MetadataKeeps, FinishKeeps, AutoManageKeeps, Zenon DEF Swarm
<1>4. QED
  BY <1>1, <1>2, <1>3 DEF EngineNext

----------------------------------------------------------------------------
(* The application's steps                                                        *)

MapsOK(m) ==
    /\ torrents_ \subseteq [tag : Tags, obj : 1..m, auto : BOOLEAN, paused : BOOLEAN]
    /\ files_ \subseteq [key : Tags, path : Tags \cup {None}, obj : 1..m]
    /\ non_files_ \subseteq 1..m
    /\ torrent_tags_ \in [Tags -> Tags \cup {None}]
    /\ dir \subseteq Monitored

IInv ==
    /\ EngineOK /\ MapsOK(made)
    /\ phase = "closed" => outstanding <= 0

\* handlers that ask for no results
LEMMA FitsQuietPost ==
  ASSUME NEW m, NEW io, NEW jo, NEW al, NEW ba, NEW out, NEW f,
         Fits(m, io, jo, al, ba, out, f), NEW q \in Seq(HandlersOf(m)),
         \A i \in DOMAIN q : q[i].op \notin {"add", "save", "on_save"}
  PROVE  Fits(m, io \o q, jo, al, ba, out, f)
<1>1. \A i \in DOMAIN q : q[i] \notin Saves /\ q[i].op # "add"
  BY DEF Saves
<1>2. Count(q, Saves) = 0
  BY <1>1, CountNone
<1>3. out \in Int
  BY FitsIs
<1>4. Fits(m, io \o q, jo, al, ba, out + Count(q, Saves), f)
  BY <1>1, FitsPost
<1>5. QED
  BY <1>2, <1>3, <1>4

\* as many requests to add as tags are asked for once more
LEMMA FitsAsked ==
  ASSUME NEW m, NEW io, NEW jo, NEW al, NEW ba, NEW out, NEW f,
         Fits(m, io, jo, al, ba, out, f), NEW new \in SUBSET Tags,
         \A t \in new : f[t] < MaxAdds,
         NEW q \in Seq([op : {"add"}, obj : {None}, tag : Tags]), Len(q) = Cardinality(new)
  PROVE  Fits(m, io \o q, jo, al, ba, out, MoreTurns(f, new))
<1>1. PICK cs \in Nat, ca \in Nat, cj \in Nat, cl \in Nat, cb \in Nat, ct \in Nat :
        /\ cs = Count(io, Saves) /\ ca = Count(io, AddsOf(Tags)) /\ cj = Count(jo, SaveJobs)
        /\ cl = Count(al, Told) /\ cb = Count(ba, Told) /\ ct = Cardinality(Turns(f))
  BY FitsIs
<1>2. /\ m \in Nat /\ out \in Int /\ f \in [Tags -> 0..MaxAdds]
      /\ io \in Seq(HandlersOf(m)) /\ jo \in Seq(JobsOf(m))
      /\ al \in Seq(AlertsOf(m)) /\ ba \in Seq(AlertsOf(m))
      /\ m + ca <= ct /\ out >= cs + cj + cl + cb
  BY <1>1, FitsIs
<1>3. PICK g, n : g = MoreTurns(f, new) /\ n = Cardinality(new) /\ n \in Nat
  BY <1>2, TurnsTaken
<1>4. g \in [Tags -> 0..MaxAdds] /\ Cardinality(Turns(g)) = ct + n
  BY <1>1, <1>2, <1>3, TurnsTaken
<1>5. q \in Seq(HandlersOf(m))
  <2>1. [op : {"add"}, obj : {None}, tag : Tags] \subseteq HandlersOf(m)
    BY DEF HandlersOf
  <2>2. QED
    BY <2>1, SeqMonotonic
<1>6. \A i \in DOMAIN q : q[i] \in AddsOf(Tags) /\ q[i] \notin Saves
  <2>1. \A i \in DOMAIN q : q[i] \in [op : {"add"}, obj : {None}, tag : Tags]
    BY LenProperties, ElementOfSeq
  <2>2. QED
    BY <2>1 DEF AddsOf, Saves
<1>7. Count(q, AddsOf(Tags)) = n /\ Count(q, Saves) = 0
  <2>1. Count(q, AddsOf(Tags)) = Len(q)
    BY <1>5, <1>6, CountAll
  <2>2. Count(q, Saves) = 0
    BY <1>5, <1>6, CountNone
  <2>3. QED
    BY <1>3, <2>1, <2>2
<1>8. PICK r \in Seq(HandlersOf(m)) : r = io \o q
  BY <1>2, <1>5, CountConcat
<1>9. Count(r, AddsOf(Tags)) = ca + n
  <2>1. Count(r, AddsOf(Tags)) = Count(io, AddsOf(Tags)) + Count(q, AddsOf(Tags))
    BY <1>2, <1>5, <1>8, CountConcat
  <2>2. QED
    BY <1>1, <1>7, <2>1
<1>10. Count(r, Saves) = cs
  <2>1. Count(r, Saves) = Count(io, Saves) + Count(q, Saves)
    BY <1>2, <1>5, <1>8, CountConcat
  <2>2. QED
    BY <1>1, <1>7, <2>1
<1>11. m + (ca + n) <= ct + n
  BY <1>2, <1>3
<1>12. Fits(m, r, jo, al, ba, out, g)
  BY <1>1, <1>2, <1>4, <1>9, <1>10, <1>11, FitsIf
<1>13. QED
  BY <1>3, <1>8, <1>12

\* what an application step keeps, when only the queues, the maps and the count change
LEMMA AppStepKeeps ==
  ASSUME IInv, UNCHANGED inside, Fits(made, ioq', jobs, alerts', batch', outstanding', asked'),
         MapsOK(made)', phase' # "closed"
  PROVE  IInv'
  BY DEF IInv, EngineOK, inside

LEMMA AddKeeps ==
  ASSUME IInv, NEW tag \in Tags, Add(tag)
  PROVE  IInv'
<1>1. Fits(made, ioq, jobs, alerts, batch, outstanding, asked)
  BY DEF IInv, EngineOK
<1>2. PICK h : h = [op |-> "add", obj |-> None, tag |-> tag]
  OBVIOUS
<1>3. /\ asked[tag] < MaxAdds /\ asked' = [asked EXCEPT ![tag] = @ + 1]
      /\ ioq' = ioq \o <<h>> /\ alerts' = alerts /\ batch' = batch /\ outstanding' = outstanding
      /\ phase' = phase /\ phase = "idle" /\ UNCHANGED <<inside, maps, dir>>
  BY <1>2 DEF Add, Post, Ready
<1>4. PICK q : q = <<h>>
  OBVIOUS
<1>5. q \in Seq([op : {"add"}, obj : {None}, tag : Tags]) /\ Len(q) = 1
  BY <1>2, <1>4
<1>6. Cardinality({tag}) = 1
  BY FS_Singleton
<1>7. Fits(made, ioq \o q, jobs, alerts, batch, outstanding, MoreTurns(asked, {tag}))
  BY <1>1, <1>3, <1>5, <1>6, FitsAsked
<1>8. asked' = MoreTurns(asked, {tag})
  <2>1. asked \in [Tags -> 0..MaxAdds]
    BY <1>1, FitsIs
  <2>2. QED
    BY <1>3, <2>1 DEF MoreTurns
<1>9. MapsOK(made)'
  BY <1>3 DEF IInv, MapsOK, maps, inside
<1>10. QED
  BY <1>3, <1>4, <1>7, <1>8, <1>9, AppStepKeeps

\* short queues
LEMMA Short ==
  ASSUME NEW S, NEW x \in S, NEW y \in S
  PROVE  /\ <<>> \in Seq(S) /\ DOMAIN <<>> = {}
         /\ <<x>> \in Seq(S) /\ DOMAIN <<x>> = {1} /\ <<x>>[1] = x
         /\ <<x, y>> \in Seq(S) /\ DOMAIN <<x, y>> = {1, 2} /\ <<x, y>>[1] = x /\ <<x, y>>[2] = y
  OBVIOUS

LEMMA ShortConcat ==
  ASSUME NEW x, NEW y
  PROVE  <<x>> \o <<>> = <<x>> /\ <<x>> \o <<y>> = <<x, y>>
<1> DEFINE S == {x, y}
<1>1. x \in S /\ y \in S
  OBVIOUS
<1> HIDE DEF S
<1>2. /\ <<x>> \in Seq(S) /\ <<y>> \in Seq(S) /\ <<x, y>> \in Seq(S)
      /\ Len(<<x>>) = 1 /\ Len(<<y>>) = 1 /\ Len(<<x, y>>) = 2
  BY <1>1
<1>3. <<x>> \o <<>> = <<x>>
  BY <1>2, ConcatEmptySeq
<1>4. <<x>> \o <<y>> = <<x, y>>
  <2>1. PICK p \in Seq(S), q \in Seq(S), s \in Seq(S) :
          /\ p = <<x>> /\ q = <<y>> /\ s = <<x, y>>
          /\ Len(p) = 1 /\ Len(q) = 1 /\ Len(s) = 2
    BY <1>2
  <2>2. p[1] = x /\ q[1] = y /\ s[1] = x /\ s[2] = y
    BY <2>1
  <2>3. p \o q \in Seq(S) /\ Len(p \o q) = Len(p) + Len(q)
    BY ConcatProperties
  <2>4. PICK r : r = p \o q
    OBVIOUS
  <2>5. r \in Seq(S) /\ Len(r) = 2
    <3>1. r \in Seq(S) /\ Len(r) = Len(p) + Len(q)
      BY <2>3, <2>4, Zenon
    <3>2. QED
      BY <2>1, <3>1
  <2>6. r[1] = p[1] /\ r[2] = q[1]
    <3>1. \A i \in 1..2 : r[i] = IF i <= 1 THEN p[i] ELSE q[i - 1]
      BY <2>1, <2>4, ConcatProperties
    <3>2. QED
      BY <3>1
  <2>7. \A i \in 1..2 : r[i] = s[i]
    BY <2>2, <2>6
  <2>8. r = s
    BY <2>1, <2>5, <2>7, SeqEqual
  <2>9. QED
    BY <2>1, <2>4, <2>8
<1>5. QED
  BY <1>3, <1>4

LEMMA RemovalPosted ==
  ASSUME EngineOK, NEW o \in Created, NEW q, q = <<>> \/ q = <<Request("remove", o)>>
  PROVE  Fits(made, ioq \o q, jobs, alerts, batch, outstanding, asked)
<1>1. Fits(made, ioq, jobs, alerts, batch, outstanding, asked) /\ made \in Nat
  BY FitsIs DEF EngineOK
<1>2. PICK h \in HandlersOf(made) : h = Request("remove", o) /\ h.op = "remove"
  BY <1>1, Made DEF Created, Plain
<1>3. q \in Seq(HandlersOf(made)) /\ \A i \in DOMAIN q : q[i].op \notin {"add", "save", "on_save"}
  <2>1. CASE q = <<>>
    BY <2>1
  <2>2. CASE q = <<Request("remove", o)>>
    BY <1>2, <2>2, Short
  <2>3. QED
    BY <2>1, <2>2
<1>4. QED
  BY <1>1, <1>3, FitsQuietPost

LEMMA DelKeeps ==
  ASSUME IInv, NEW tag \in Tags, Del(tag)
  PROVE  IInv'
<1>1. EngineOK /\ MapsOK(made) /\ Fits(made, ioq, jobs, alerts, batch, outstanding, asked)
  BY DEF IInv, EngineOK
<1>2. /\ UNCHANGED inside /\ alerts' = alerts /\ outstanding' = outstanding /\ batch' = batch
      /\ asked' = asked /\ phase' = phase /\ phase = "idle"
  BY DEF Del, Calls, Ready
<1>3. CASE Named(tag) = {}
  <2>1. UNCHANGED <<ioq, maps, dir>>
    BY <1>3 DEF Del
  <2>2. MapsOK(made)'
    BY <1>1, <1>2, <2>1 DEF MapsOK, maps, inside
  <2>3. QED
    BY <1>1, <1>2, <2>1, <2>2, AppStepKeeps
<1>4. CASE Named(tag) # {}
  <2>1. PICK e \in Named(tag), deletesFile \in BOOLEAN :
          /\ dir' = IF deletesFile THEN dir \ {f.path : f \in {g \in files_ : g.key = e.tag}}
                     ELSE dir
          /\ torrents_' = torrents_ \ {e}
          /\ files_' = {f \in files_ : f.key # e.tag}
          /\ non_files_' = non_files_ \ {e.obj}
          /\ torrent_tags_' = [torrent_tags_ EXCEPT ![e.tag] = None, ![tag] = None]
          /\ Post(Removal(e.obj))
    BY <1>4 DEF Del
  <2>2. e \in torrents_ /\ e.obj \in 1..made
    BY <1>1, <2>1 DEF Named, EntryOf, MapsOK
  <2>3. MapsOK(made)'
    <3>1. dir' \subseteq Monitored
      BY <1>1, <2>1 DEF MapsOK
    <3>2. torrent_tags_' \in [Tags -> Tags \cup {None}]
      BY <1>1, <2>1 DEF MapsOK
    <3>3. made' = made
      BY <1>2 DEF inside
    <3>4. /\ torrents_' \subseteq torrents_ /\ files_' \subseteq files_
          /\ non_files_' \subseteq non_files_
      BY <2>1
    <3>5. QED
      BY <1>1, <3>1, <3>2, <3>3, <3>4 DEF MapsOK
  <2>4. PICK q : q = Removal(e.obj) /\ ioq' = ioq \o q
    BY <2>1 DEF Post
  <2>5. q = <<>> \/ q = <<Request("remove", e.obj)>>
    BY <2>4 DEF Removal
  <2>6. Fits(made, ioq', jobs, alerts, batch, outstanding, asked)
    BY <1>1, <2>2, <2>4, <2>5, RemovalPosted DEF Created
  <2>7. QED
    BY <1>2, <2>3, <2>6, AppStepKeeps
<1>5. QED
  BY <1>3, <1>4

\* what pause() and resume() ask for
LEMMA Asked2 ==
  ASSUME EngineOK, NEW o \in Created, NEW b \in BOOLEAN, NEW q,
         NEW h \in {Request("pause_gracefully", o), Request("pause", o), Request("resume", o)},
         q = <<AutoRequest(o, b)>> \/ q = <<AutoRequest(o, b), h>>
  PROVE  Fits(made, ioq \o q, jobs, alerts, batch, outstanding, asked)
<1>1. Fits(made, ioq, jobs, alerts, batch, outstanding, asked) /\ made \in Nat
  BY FitsIs DEF EngineOK
<1>2. PICK a \in HandlersOf(made) : a = AutoRequest(o, b) /\ a.op = "auto"
  BY <1>1, Made DEF Created
<1>3. h \in HandlersOf(made) /\ h.op \in {"pause_gracefully", "pause", "resume"}
  BY <1>1, Made DEF Created, Plain
<1>4. q \in Seq(HandlersOf(made)) /\ \A i \in DOMAIN q : q[i].op \notin {"add", "save", "on_save"}
  <2>1. CASE q = <<a>>
    BY <1>2, <2>1, Short
  <2>2. CASE q = <<a, h>>
    BY <1>2, <1>3, <2>2, Short
  <2>3. QED
    BY <1>2, <2>1, <2>2
<1>5. QED
  BY <1>1, <1>4, FitsQuietPost

LEMMA PauseKeeps ==
  ASSUME IInv, NEW tag \in Tags, Pause(tag)
  PROVE  IInv'
<1>1. EngineOK /\ MapsOK(made) /\ Fits(made, ioq, jobs, alerts, batch, outstanding, asked)
  BY DEF IInv, EngineOK
<1>2. /\ UNCHANGED <<inside, maps, dir>> /\ alerts' = alerts /\ outstanding' = outstanding
      /\ batch' = batch /\ asked' = asked /\ phase' = phase /\ phase = "idle"
  BY DEF Pause, Calls, Ready
<1>3. Fits(made, ioq', jobs, alerts, batch, outstanding, asked)
  <2>1. CASE ioq' = ioq
    BY <1>1, <2>1
  <2>2. CASE \E e \in Named(tag) : Post(PauseRequests(e.obj))
    <3>1. PICK e \in Named(tag) : Post(PauseRequests(e.obj))
      BY <2>2
    <3>2. e.obj \in Created
      BY <1>1 DEF Named, EntryOf, MapsOK, Created
    <3>3. PICK q : q = PauseRequests(e.obj) /\ ioq' = ioq \o q
      BY <3>1 DEF Post
    <3>4. q = <<AutoRequest(e.obj, FALSE), Request("pause_gracefully", e.obj)>>
      BY <3>3 DEF PauseRequests
    <3>5. QED
      BY <1>1, <3>2, <3>3, <3>4, Asked2
  <2>3. QED
    BY <2>1, <2>2 DEF Pause
<1>4. MapsOK(made)'
  BY <1>1, <1>2 DEF MapsOK, maps, inside
<1>5. QED
  BY <1>2, <1>3, <1>4, AppStepKeeps

LEMMA ResumeKeeps ==
  ASSUME IInv, NEW tag \in Tags, Resume(tag)
  PROVE  IInv'
<1>1. EngineOK /\ MapsOK(made) /\ Fits(made, ioq, jobs, alerts, batch, outstanding, asked)
  BY DEF IInv, EngineOK
<1>2. /\ UNCHANGED <<inside, maps, dir>> /\ alerts' = alerts /\ outstanding' = outstanding
      /\ batch' = batch /\ asked' = asked /\ phase' = phase /\ phase = "idle"
  BY DEF Resume, Calls, Ready
<1>3. Fits(made, ioq', jobs, alerts, batch, outstanding, asked)
  <2>1. CASE ioq' = ioq
    BY <1>1, <2>1
  <2>2. CASE \E e \in Named(tag) :
                Post(<<AutoRequest(e.obj, TRUE)>> \o
                     IF e.auto /\ e.paused THEN <<Request("resume", e.obj)>> ELSE <<>>)
    <3>1. PICK e, q :
            /\ e \in Named(tag)
            /\ q = <<AutoRequest(e.obj, TRUE)>> \o
                   IF e.auto /\ e.paused THEN <<Request("resume", e.obj)>> ELSE <<>>
            /\ ioq' = ioq \o q
      BY <2>2 DEF Post
    <3>2. e.obj \in Created
      BY <1>1, <3>1 DEF Named, EntryOf, MapsOK, Created
    <3>3. \/ q = <<AutoRequest(e.obj, TRUE)>>
          \/ q = <<AutoRequest(e.obj, TRUE), Request("resume", e.obj)>>
      <4>1. \/ q = <<AutoRequest(e.obj, TRUE)>> \o <<Request("resume", e.obj)>>
            \/ q = <<AutoRequest(e.obj, TRUE)>> \o <<>>
        BY <3>1, Zenon
      <4>2. QED
        BY <4>1, ShortConcat
    <3>4. QED
      BY <1>1, <3>1, <3>2, <3>3, Asked2
  <2>3. QED
    BY <2>1, <2>2 DEF Resume
<1>4. MapsOK(made)'
  BY <1>1, <1>2 DEF MapsOK, maps, inside
<1>5. QED
  BY <1>2, <1>3, <1>4, AppStepKeeps

LEMMA UpdateKeeps ==
  ASSUME IInv, Update
  PROVE  IInv'
<1>1. /\ EngineOK /\ MapsOK(made) /\ made \in Nat
      /\ Fits(made, ioq, jobs, alerts, batch, outstanding, asked)
  BY FitsIs DEF IInv, EngineOK
<1>2. PICK q : q = <<[op |-> "updates", obj |-> None]>> /\ ioq' = ioq \o q
  BY DEF Update, Post
<1>3. /\ UNCHANGED <<inside, maps, dir>> /\ alerts' = <<>> /\ batch' = alerts /\ phase' = "updating"
      /\ outstanding' = outstanding /\ asked' = asked
  BY DEF Update, bounds
<1>4. PICK h : h = [op |-> "updates", obj |-> None] /\ q = <<h>>
  BY <1>2
<1>5. h \in HandlersOf(made) /\ h.op = "updates"
  BY <1>4 DEF HandlersOf
<1>6. q \in Seq(HandlersOf(made)) /\ \A i \in DOMAIN q : q[i].op \notin {"add", "save", "on_save"}
  BY <1>4, <1>5, Short
<1>7. Fits(made, ioq \o q, jobs, <<>>, alerts, outstanding, asked)
  BY <1>1, <1>6, FitsQuietPost, FitsAlerts
<1>8. MapsOK(made)'
  BY <1>1, <1>3 DEF MapsOK, maps, inside
<1>9. QED
  BY <1>2, <1>3, <1>7, <1>8, AppStepKeeps

\* the handler of an alert takes it off the batch
LEMMA HandlesOne ==
  ASSUME IInv, NEW kind, Handles(kind)
  PROVE  /\ made \in Nat /\ outstanding \in Int
         /\ Head(batch) \in AlertsOf(made) /\ Head(batch).kind = kind
         /\ kind \notin {"saved", "save_failed"} =>
              Fits(made, ioq, jobs, alerts, batch', outstanding, asked)
         /\ kind \in {"saved", "save_failed"} =>
              Fits(made, ioq, jobs, alerts, batch', outstanding - 1, asked)
         /\ UNCHANGED inside /\ alerts' = alerts /\ phase' = "updating" /\ asked' = asked
         /\ EngineOK /\ MapsOK(made)
<1>1. /\ EngineOK /\ MapsOK(made) /\ made \in Nat /\ outstanding \in Int
      /\ Fits(made, ioq, jobs, alerts, batch, outstanding, asked)
  BY FitsIs DEF IInv, EngineOK
<1>2. /\ batch # <<>> /\ Head(batch).kind = kind /\ batch' = Tail(batch)
      /\ UNCHANGED inside /\ alerts' = alerts /\ phase' = "updating" /\ asked' = asked
  BY DEF Handles, bounds
<1>3. PICK a : a = Head(batch)
  OBVIOUS
<1>4. /\ a \in AlertsOf(made)
      /\ Fits(made, ioq, jobs, alerts, Tail(batch),
              outstanding - (IF a.kind \in {"saved", "save_failed"} THEN 1 ELSE 0), asked)
  BY <1>1, <1>2, <1>3, FitsAlerts
<1>5. outstanding - 0 = outstanding
  BY <1>1
<1>6. CASE kind \in {"saved", "save_failed"}
  BY <1>1, <1>2, <1>3, <1>4, <1>6
<1>7. CASE kind \notin {"saved", "save_failed"}
  BY <1>1, <1>2, <1>3, <1>4, <1>5, <1>7
<1>8. QED
  BY <1>6, <1>7

LEMMA Found ==
  ASSUME NEW map, NEW o, NEW e \in Lookups(map, o), e # None
  PROVE  e \in map
  BY DEF Lookups

LEMMA InsertFileOK ==
  ASSUME MapsOK(made), NEW key \in Tags, NEW path \in Tags \cup {None}, NEW o \in 1..made,
         InsertFile(key, path, o)
  PROVE  files_' \subseteq [key : Tags, path : Tags \cup {None}, obj : 1..made]
  BY DEF InsertFile, MapsOK

LEMMA HandleAddedKeeps ==
  ASSUME IInv, HandleAdded
  PROVE  IInv'
<1>1. Handles("added")
  BY DEF HandleAdded
<1>2. PICK a : a = Head(batch)
  OBVIOUS
<1>3. /\ made \in Nat /\ a \in AlertsOf(made) /\ a.kind = "added"
      /\ Fits(made, ioq, jobs, alerts, batch', outstanding, asked)
      /\ UNCHANGED inside /\ alerts' = alerts /\ phase' = "updating" /\ asked' = asked
      /\ EngineOK /\ MapsOK(made)
  BY <1>1, <1>2, HandlesOne
<1>4. a.obj \in 1..made /\ a.tag \in Tags
  BY <1>3, AlertIs
<1>5. made' = made /\ dir' = dir /\ ioq' = ioq /\ outstanding' = outstanding
  BY <1>3 DEF HandleAdded, inside
<1>6. PICK fresh : fresh = [tag |-> a.tag, obj |-> a.obj,
                     auto   |-> Live(a.obj) /\ torrent[a.obj].auto,
                     paused |-> Live(a.obj) /\ Paused(a.obj)]
  OBVIOUS
<1>7. fresh \in [tag : Tags, obj : 1..made, auto : BOOLEAN, paused : BOOLEAN]
  <2>1. PICK b \in BOOLEAN, c \in BOOLEAN :
          b = (Live(a.obj) /\ torrent[a.obj].auto) /\ c = (Live(a.obj) /\ Paused(a.obj))
    OBVIOUS
  <2>2. fresh = [tag |-> a.tag, obj |-> a.obj, auto |-> b, paused |-> c]
    BY <1>6, <2>1
  <2>3. QED
    BY <1>4, <2>2
<1>8. PICK known \in Lookups(torrents_, a.obj) :
        IF EntryOf(a.tag) = {} /\ known = None
          THEN /\ torrents_' = torrents_ \cup {fresh}
               /\ torrent_tags_' = [torrent_tags_ EXCEPT ![a.tag] = a.tag]
               /\ IF a.tag \in FileTags
                    THEN /\ InsertFile(a.tag, a.tag, a.obj)
                         /\ UNCHANGED non_files_
                    ELSE /\ non_files_' = non_files_ \cup {a.obj}
                         /\ UNCHANGED files_
          ELSE /\ UNCHANGED <<torrents_, files_, non_files_>>
               /\ IF known = None
                    THEN UNCHANGED torrent_tags_
                    ELSE torrent_tags_' = [torrent_tags_ EXCEPT ![a.tag] = known.tag]
  BY <1>2, <1>6 DEF HandleAdded
<1>9. MapsOK(made)'
  <2>1. CASE EntryOf(a.tag) = {} /\ known = None
    <3>1. torrents_' \subseteq [tag : Tags, obj : 1..made, auto : BOOLEAN, paused : BOOLEAN]
      BY <1>3, <1>7, <1>8, <2>1 DEF MapsOK
    <3>2. torrent_tags_' \in [Tags -> Tags \cup {None}]
      BY <1>3, <1>4, <1>8, <2>1 DEF MapsOK
    <3>3. InsertFile(a.tag, a.tag, a.obj) =>
            files_' \subseteq [key : Tags, path : Tags \cup {None}, obj : 1..made]
      BY <1>3, <1>4, InsertFileOK
    <3>4. /\ files_' \subseteq [key : Tags, path : Tags \cup {None}, obj : 1..made]
          /\ non_files_' \subseteq 1..made
      <4>1. \/ InsertFile(a.tag, a.tag, a.obj) /\ non_files_' = non_files_
            \/ files_' = files_ /\ non_files_' = non_files_ \cup {a.obj}
        BY <1>8, <2>1
      <4>2. QED
        BY <1>3, <1>4, <3>3, <4>1 DEF MapsOK
    <3>5. QED
      BY <1>3, <1>5, <3>1, <3>2, <3>4 DEF MapsOK
  <2>2. CASE ~(EntryOf(a.tag) = {} /\ known = None)
    <3>1. known # None => known.tag \in Tags
      <4>1. known # None => known \in torrents_
        BY Found
      <4>2. QED
        BY <1>3, <4>1 DEF MapsOK
    <3>2. torrent_tags_' \in [Tags -> Tags \cup {None}]
      BY <1>3, <1>4, <1>8, <2>2, <3>1 DEF MapsOK
    <3>3. torrents_' = torrents_ /\ files_' = files_ /\ non_files_' = non_files_
      BY <1>8, <2>2
    <3>4. QED
      BY <1>3, <1>5, <3>2, <3>3 DEF MapsOK
  <2>3. QED
    BY <2>1, <2>2
<1>10. QED
  BY <1>3, <1>5, <1>9, AppStepKeeps

LEMMA SavedPathOK ==
  ASSUME NEW o
  PROVE  SavedPath(o) \in Tags \cup {None}
<1>1. SavedAs(o) \subseteq Tags
  BY MonitoredAssumption DEF SavedAs, Tags
<1>2. QED
  BY <1>1 DEF SavedPath

LEMMA HandleMetadataKeeps ==
  ASSUME IInv, HandleMetadata
  PROVE  IInv'
<1>1. Handles("metadata")
  BY DEF HandleMetadata
<1>2. PICK a, o : a = Head(batch) /\ o = a.obj
  OBVIOUS
<1>3. /\ made \in Nat /\ a \in AlertsOf(made) /\ a.kind = "metadata"
      /\ Fits(made, ioq, jobs, alerts, batch', outstanding, asked)
      /\ UNCHANGED inside /\ alerts' = alerts /\ phase' = "updating" /\ asked' = asked
      /\ EngineOK /\ MapsOK(made)
  BY <1>1, <1>2, HandlesOne
<1>4. o \in 1..made
  BY <1>2, <1>3, AlertIs
<1>5. /\ made' = made /\ ioq' = ioq /\ outstanding' = outstanding
      /\ torrents_' = torrents_ /\ torrent_tags_' = torrent_tags_
  BY <1>3 DEF HandleMetadata, inside
<1>6. \/ UNCHANGED <<files_, non_files_, dir>>
      \/ /\ dir' = dir \cup SavedAs(o)
         /\ \E e \in Lookups(torrents_, o) :
              IF e = None
                THEN UNCHANGED <<files_, non_files_>>
                ELSE /\ InsertFile(e.tag, SavedPath(o), o)
                     /\ non_files_' = non_files_ \ {o}
  BY <1>2 DEF HandleMetadata
<1>7. dir' \subseteq Monitored
  BY <1>3, <1>6 DEF SavedAs, MapsOK
<1>8. /\ files_' \subseteq [key : Tags, path : Tags \cup {None}, obj : 1..made]
      /\ non_files_' \subseteq 1..made
  <2>1. CASE files_' = files_ /\ non_files_' = non_files_
    BY <1>3, <2>1 DEF MapsOK
  <2>2. CASE \E e \in Lookups(torrents_, o) :
                /\ e # None
                /\ InsertFile(e.tag, SavedPath(o), o) /\ non_files_' = non_files_ \ {o}
    <3>1. PICK e \in Lookups(torrents_, o) :
                /\ e # None
                /\ InsertFile(e.tag, SavedPath(o), o) /\ non_files_' = non_files_ \ {o}
      BY <2>2
    <3>2. e.tag \in Tags
      <4>1. e \in torrents_
        BY <3>1, Found
      <4>2. QED
        BY <1>3, <4>1 DEF MapsOK
    <3>3. files_' \subseteq [key : Tags, path : Tags \cup {None}, obj : 1..made]
      BY <1>3, <1>4, <3>1, <3>2, InsertFileOK, SavedPathOK
    <3>4. QED
      BY <1>3, <3>1, <3>3 DEF MapsOK
  <2>3. QED
    BY <1>6, <2>1, <2>2
<1>9. MapsOK(made)'
  BY <1>3, <1>5, <1>7, <1>8 DEF MapsOK
<1>10. QED
  BY <1>3, <1>5, <1>9, AppStepKeeps

\* one request for a result, which is counted, or none, which may be
LEMMA SavePosted ==
  ASSUME NEW m, NEW io, NEW jo, NEW al, NEW ba, NEW out, NEW f,
         Fits(m, io, jo, al, ba, out, f), NEW o \in 1..m, NEW q,
         q = <<>> \/ q = <<Request("save", o)>>
  PROVE  Fits(m, io \o q, jo, al, ba, out + 1, f)
<1>1. /\ io \in Seq(HandlersOf(m)) /\ m \in Nat /\ out \in Int
  BY FitsIs
<1>2. PICK h \in HandlersOf(m) : h = Request("save", o) /\ h.op = "save"
  BY <1>1, Made DEF Plain
<1>3. CASE q = <<h>>
  <2>1. Append(io, h) = io \o <<h>>
    BY <1>1, AppendIsConcat
  <2>2. Fits(m, Append(io, h), jo, al, ba, out + 1, f)
    BY <1>2, FitsOne
  <2>3. QED
    BY <1>3, <2>1, <2>2
<1>4. CASE q = <<>>
  <2>1. io \o <<>> = io
    BY <1>1, ConcatEmptySeq
  <2>2. Fits(m, io, jo, al, ba, out + 1, f)
    <3>1. PICK cs \in Nat, ca \in Nat, cj \in Nat, cl \in Nat, cb \in Nat, ct \in Nat :
            /\ cs = Count(io, Saves) /\ ca = Count(io, AddsOf(Tags)) /\ cj = Count(jo, SaveJobs)
            /\ cl = Count(al, Told) /\ cb = Count(ba, Told) /\ ct = Cardinality(Turns(f))
      BY FitsIs
    <3>2. /\ m \in Nat /\ out \in Int /\ f \in [Tags -> 0..MaxAdds]
          /\ io \in Seq(HandlersOf(m)) /\ jo \in Seq(JobsOf(m))
          /\ al \in Seq(AlertsOf(m)) /\ ba \in Seq(AlertsOf(m))
          /\ m + ca <= ct /\ out >= cs + cj + cl + cb
      BY <3>1, FitsIs
    <3>3. out + 1 \in Int /\ out + 1 >= cs + cj + cl + cb
      BY <3>2
    <3>4. QED
      BY <3>1, <3>2, <3>3, FitsIf
  <2>3. QED
    BY <1>4, <2>1, <2>2
<1>5. QED
  BY <1>2, <1>3, <1>4

LEMMA HandleAskForResumeDataKeeps ==
  ASSUME IInv, HandleAskForResumeData
  PROVE  IInv'
<1>1. PICK kind \in {"finished", "paused"} : Handles(kind)
  BY DEF HandleAskForResumeData
<1>2. PICK a, o, q : /\ a = Head(batch) /\ o = a.obj
                     /\ q = IF Live(o) THEN <<Request("save", o)>> ELSE <<>>
  OBVIOUS
<1>3. /\ made \in Nat /\ a \in AlertsOf(made) /\ a.kind = kind /\ outstanding \in Int
      /\ Fits(made, ioq, jobs, alerts, batch', outstanding, asked)
      /\ UNCHANGED inside /\ alerts' = alerts /\ phase' = "updating" /\ asked' = asked
      /\ EngineOK /\ MapsOK(made)
  BY <1>1, <1>2, HandlesOne
<1>4. o \in 1..made
  BY <1>1, <1>2, <1>3, AlertIs
<1>5. ioq' = ioq \o q /\ outstanding' = outstanding + 1 /\ UNCHANGED <<maps, dir>>
  BY <1>2 DEF HandleAskForResumeData, Post, Counted
<1>6. q = <<>> \/ q = <<Request("save", o)>>
  BY <1>2
<1>7. Fits(made, ioq', jobs, alerts, batch', outstanding', asked)
  BY <1>3, <1>4, <1>5, <1>6, SavePosted
<1>8. MapsOK(made)'
  BY <1>3, <1>5 DEF MapsOK, maps, inside
<1>9. QED
  BY <1>3, <1>7, <1>8, AppStepKeeps

LEMMA HandleResumeDataKeeps ==
  ASSUME IInv, HandleResumeData
  PROVE  IInv'
<1>1. PICK kind \in {"saved", "save_failed"} : Handles(kind)
  BY DEF HandleResumeData
<1>2. PICK a, o : a = Head(batch) /\ o = a.obj
  OBVIOUS
<1>3. /\ made \in Nat /\ a \in AlertsOf(made) /\ a.kind = kind
      /\ Fits(made, ioq, jobs, alerts, batch', outstanding - 1, asked)
      /\ UNCHANGED inside /\ alerts' = alerts /\ phase' = "updating" /\ asked' = asked
      /\ EngineOK /\ MapsOK(made)
  BY <1>1, <1>2, HandlesOne
<1>4. o \in 1..made
  BY <1>1, <1>2, <1>3, AlertIs
<1>5. outstanding' = outstanding - 1 /\ UNCHANGED <<maps, dir>>
  BY DEF HandleResumeData
<1>6. ioq' = ioq \/ \E q : ioq' = ioq \o q /\ (q = <<>> \/ q = <<Request("remove", o)>>)
  <2>1. CASE Live(o) /\ o \notin non_files_
    <3>1. PICK f \in Lookups(files_, o) : Post(IF f = None THEN <<Request("remove", o)>> ELSE <<>>)
      BY <1>2, <2>1 DEF HandleResumeData
    <3>2. QED
      BY <3>1 DEF Post
  <2>2. CASE ~(Live(o) /\ o \notin non_files_)
    BY <1>2, <2>2 DEF HandleResumeData
  <2>3. QED
    BY <2>1, <2>2
<1>7. Fits(made, ioq', jobs, alerts, batch', outstanding', asked)
  <2>1. CASE ioq' = ioq
    BY <1>3, <1>5, <2>1
  <2>2. CASE \E q : ioq' = ioq \o q /\ (q = <<>> \/ q = <<Request("remove", o)>>)
    <3>1. PICK q : ioq' = ioq \o q /\ (q = <<>> \/ q = <<Request("remove", o)>>)
      BY <2>2
    <3>2. PICK h \in HandlersOf(made) : h = Request("remove", o) /\ h.op = "remove"
      BY <1>3, <1>4, Made DEF Plain
    <3>3. /\ q \in Seq(HandlersOf(made))
          /\ \A i \in DOMAIN q : q[i].op \notin {"add", "save", "on_save"}
      <4>1. CASE q = <<>>
        BY <4>1
      <4>2. CASE q = <<h>>
        BY <3>2, <4>2, Short
      <4>3. QED
        BY <3>1, <3>2, <4>1, <4>2
    <3>4. Fits(made, ioq \o q, jobs, alerts, batch', outstanding - 1, asked)
      BY <1>3, <3>3, FitsQuietPost
    <3>5. QED
      BY <1>5, <3>1, <3>4
  <2>3. QED
    BY <1>6, <2>1, <2>2
<1>8. MapsOK(made)'
  BY <1>3, <1>5 DEF MapsOK, maps, inside
<1>9. QED
  BY <1>3, <1>7, <1>8, AppStepKeeps

LEMMA HandleStateUpdateKeeps ==
  ASSUME IInv, HandleStateUpdate
  PROVE  IInv'
<1>1. Handles("updates")
  BY DEF HandleStateUpdate
<1>2. PICK a : a = Head(batch)
  OBVIOUS
<1>3. /\ made \in Nat /\ a \in AlertsOf(made) /\ a.kind = "updates"
      /\ Fits(made, ioq, jobs, alerts, batch', outstanding, asked)
      /\ UNCHANGED inside /\ alerts' = alerts /\ phase' = "updating" /\ asked' = asked
      /\ EngineOK /\ MapsOK(made)
  BY <1>1, <1>2, HandlesOne
<1>4. a.status \in SUBSET StatusOf(made)
  BY <1>3, AlertIs
<1>5. /\ ioq' = ioq /\ outstanding' = outstanding
      /\ UNCHANGED <<files_, non_files_, torrent_tags_, dir>>
  BY DEF HandleStateUpdate
<1>6. PICK missed \in SUBSET Head(batch).status :
        LET news(e) == {s \in Head(batch).status \ missed : SameHandle(s.obj, e.obj)}
            cached(e) == IF news(e) = {} THEN e
                         ELSE LET s == CHOOSE s \in news(e) : TRUE
                              IN  [e EXCEPT !.auto = s.auto, !.paused = s.paused]
        IN  torrents_' = {cached(e) : e \in torrents_}
  BY DEF HandleStateUpdate
<1>7. torrents_' \subseteq [tag : Tags, obj : 1..made, auto : BOOLEAN, paused : BOOLEAN]
  <2> DEFINE news(e) == {s \in Head(batch).status \ missed : SameHandle(s.obj, e.obj)}
             one(e) == CHOOSE s \in news(e) : TRUE
             cached(e) == IF news(e) = {} THEN e
                          ELSE [e EXCEPT !.auto = one(e).auto, !.paused = one(e).paused]
  <2>1. torrents_' = {cached(e) : e \in torrents_}
    BY <1>6, Zenon
  <2>2. ASSUME NEW e \in torrents_
        PROVE  cached(e) \in [tag : Tags, obj : 1..made, auto : BOOLEAN, paused : BOOLEAN]
    <3>1. e \in [tag : Tags, obj : 1..made, auto : BOOLEAN, paused : BOOLEAN]
      BY <1>3 DEF MapsOK
    <3>2. news(e) \subseteq StatusOf(made)
      BY <1>2, <1>4
    <3>3. news(e) # {} => one(e) \in news(e)
      OBVIOUS
    <3> HIDE DEF news, one
    <3>4. news(e) # {} => one(e).auto \in BOOLEAN /\ one(e).paused \in BOOLEAN
      BY <3>2, <3>3 DEF StatusOf
    <3>5. QED
      BY <3>1, <3>4
  <2> HIDE DEF cached
  <2>3. QED
    BY <2>1, <2>2
<1>8. MapsOK(made)'
  BY <1>3, <1>5, <1>7 DEF MapsOK, inside
<1>9. QED
  BY <1>3, <1>5, <1>8, AppStepKeeps

\* the steps of the scan and of the destructor
LEMMA ScanStepIs ==
  ASSUME IInv, NEW from, NEW to, ScanStep(from, to)
  PROVE  /\ made \in Nat /\ outstanding \in Int /\ asked \in [Tags -> 0..MaxAdds]
         /\ Fits(made, ioq, jobs, alerts, batch, outstanding, asked)
         /\ UNCHANGED inside /\ made' = made /\ batch' = batch /\ phase' = to /\ dir' = dir
         /\ torrents_' = torrents_ /\ non_files_' = non_files_ /\ torrent_tags_' = torrent_tags_
         /\ EngineOK /\ MapsOK(made)
  BY FitsIs DEF IInv, EngineOK, ScanStep, inside

LEMMA EndUpdateKeeps ==
  ASSUME IInv, EndUpdate
  PROVE  IInv'
<1>1. PICK to \in {"idle", "scan"} : ScanStep("updating", to)
  BY DEF EndUpdate, AppStep
<1>2. /\ ioq' = ioq /\ alerts' = alerts /\ files_' = files_ /\ outstanding' = outstanding
      /\ asked' = asked
  BY DEF EndUpdate
<1>3. /\ Fits(made, ioq, jobs, alerts, batch, outstanding, asked)
      /\ UNCHANGED inside /\ made' = made /\ batch' = batch /\ phase' = to /\ dir' = dir
      /\ torrents_' = torrents_ /\ non_files_' = non_files_ /\ torrent_tags_' = torrent_tags_
      /\ MapsOK(made)
  BY <1>1, ScanStepIs
<1>4. MapsOK(made)'
  BY <1>2, <1>3 DEF MapsOK
<1>5. QED
  BY <1>1, <1>2, <1>3, <1>4, AppStepKeeps

LEMMA ScanAddsKeeps ==
  ASSUME IInv, ScanAdds
  PROVE  IInv'
<1>1. /\ made \in Nat /\ outstanding \in Int /\ asked \in [Tags -> 0..MaxAdds]
      /\ Fits(made, ioq, jobs, alerts, batch, outstanding, asked)
      /\ UNCHANGED inside /\ made' = made /\ batch' = batch /\ phase' = "scanning" /\ dir' = dir
      /\ torrents_' = torrents_ /\ non_files_' = non_files_ /\ torrent_tags_' = torrent_tags_
      /\ MapsOK(made)
  BY ScanStepIs DEF ScanAdds, AppStep
<1>2. PICK new : new = {f \in dir : ~\E e \in files_ : e.key = f}
  OBVIOUS
<1>3. new \in SUBSET Tags
  BY <1>1, <1>2, MonitoredAssumption DEF MapsOK, Tags
<1>4. PICK q : q = [i \in 1 .. Cardinality(new) |->
                       [op |-> "add", obj |-> None, tag |-> SetToSeq(new)[i]]]
  OBVIOUS
<1>5. /\ \A f \in new : asked[f] < MaxAdds
      /\ asked' = MoreTurns(asked, new)
      /\ ioq' = ioq \o q /\ alerts' = alerts /\ files_' = files_ /\ outstanding' = outstanding
  BY <1>2, <1>4 DEF ScanAdds, Post, MoreTurns
<1>6. IsFiniteSet(new)
  BY <1>3, TagsAssumption, FS_Subset
<1>7. PICK n, s : n = Cardinality(new) /\ s = SetToSeq(new) /\ n \in Nat /\ s \in [1..n -> new]
  BY <1>6, Numbered
<1>8. q \in Seq([op : {"add"}, obj : {None}, tag : Tags]) /\ Len(q) = n
  <2>1. q = [i \in 1..n |-> [op |-> "add", obj |-> None, tag |-> s[i]]]
    BY <1>4, <1>7
  <2>2. PICK T : T = [op : {"add"}, obj : {None}, tag : Tags]
    OBVIOUS
  <2>3. q \in [1..n -> T]
    BY <1>3, <1>7, <2>1, <2>2
  <2>4. q \in Seq(T) /\ Len(q) = n
    BY <1>7, <2>3, ASequence
  <2>5. QED
    BY <2>2, <2>4
<1>9. Fits(made, ioq \o q, jobs, alerts, batch, outstanding, MoreTurns(asked, new))
  BY <1>1, <1>3, <1>5, <1>7, <1>8, FitsAsked
<1>10. MapsOK(made)'
  BY <1>1, <1>5 DEF MapsOK
<1>11. QED
  BY <1>1, <1>5, <1>9, <1>10, AppStepKeeps

LEMMA ScanPausesKeeps ==
  ASSUME IInv, ScanPauses
  PROVE  IInv'
<1>1. PICK to \in {"saving", "scanning"} : ScanStep("scanning", to)
  BY DEF ScanPauses, AppStep
<1>2. /\ made \in Nat /\ outstanding \in Int
      /\ Fits(made, ioq, jobs, alerts, batch, outstanding, asked)
      /\ UNCHANGED inside /\ made' = made /\ batch' = batch /\ phase' = to /\ dir' = dir
      /\ torrents_' = torrents_ /\ non_files_' = non_files_ /\ torrent_tags_' = torrent_tags_
      /\ EngineOK /\ MapsOK(made)
  BY <1>1, ScanStepIs
<1>3. alerts' = alerts /\ outstanding' = outstanding /\ asked' = asked
  BY DEF ScanPauses
<1>4. files_' \subseteq files_
  BY DEF ScanPauses
<1>5. Fits(made, ioq', jobs, alerts, batch, outstanding, asked)
  <2>1. CASE ioq' = ioq
    BY <1>2, <2>1
  <2>2. CASE \E e \in files_ : Post(<<AutoRequest(e.obj, FALSE), Request("pause", e.obj)>>)
    <3>1. PICK e \in files_ : Post(<<AutoRequest(e.obj, FALSE), Request("pause", e.obj)>>)
      BY <2>2
    <3>2. e.obj \in Created
      BY <1>2 DEF MapsOK, Created
    <3>3. PICK q : q = <<AutoRequest(e.obj, FALSE), Request("pause", e.obj)>> /\ ioq' = ioq \o q
      BY <3>1 DEF Post
    <3>4. QED
      BY <1>2, <3>2, <3>3, Asked2
  <2>3. QED
    BY <2>1, <2>2 DEF ScanPauses
<1>6. MapsOK(made)'
  BY <1>2, <1>4 DEF MapsOK
<1>7. QED
  BY <1>1, <1>2, <1>3, <1>5, <1>6, AppStepKeeps

LEMMA ScanSavesKeeps ==
  ASSUME IInv, ScanSaves
  PROVE  IInv'
<1>1. /\ made \in Nat /\ outstanding \in Int
      /\ Fits(made, ioq, jobs, alerts, batch, outstanding, asked)
      /\ UNCHANGED inside /\ made' = made /\ batch' = batch /\ phase' = "scanning" /\ dir' = dir
      /\ torrents_' = torrents_ /\ non_files_' = non_files_ /\ torrent_tags_' = torrent_tags_
      /\ MapsOK(made)
  BY ScanStepIs DEF ScanSaves
<1>2. alerts' = alerts /\ asked' = asked
  BY DEF ScanSaves
<1>3. PICK e \in files_ :
        /\ \/ Post(<<Request("save", e.obj)>>) /\ Counted(1)
           \/ UNCHANGED <<ioq, outstanding>>
        /\ files_' = files_ \ {e}
  BY DEF ScanSaves
<1>4. e.obj \in 1..made
  BY <1>1 DEF MapsOK
<1>5. Fits(made, ioq', jobs, alerts, batch, outstanding', asked)
  <2>1. CASE Post(<<Request("save", e.obj)>>) /\ Counted(1)
    <3>1. PICK q : q = <<Request("save", e.obj)>> /\ ioq' = ioq \o q
      BY <2>1 DEF Post
    <3>2. outstanding' = outstanding + 1
      BY <2>1 DEF Counted
    <3>3. QED
      BY <1>1, <1>4, <3>1, <3>2, SavePosted
  <2>2. CASE UNCHANGED <<ioq, outstanding>>
    BY <1>1, <2>2
  <2>3. QED
    BY <1>3, <2>1, <2>2
<1>6. MapsOK(made)'
  BY <1>1, <1>3 DEF MapsOK
<1>7. QED
  BY <1>1, <1>2, <1>5, <1>6, AppStepKeeps

LEMMA ScanEndsKeeps ==
  ASSUME IInv, ScanEnds
  PROVE  IInv'
<1>1. /\ Fits(made, ioq, jobs, alerts, batch, outstanding, asked)
      /\ UNCHANGED inside /\ made' = made /\ batch' = batch /\ phase' = "idle" /\ dir' = dir
      /\ torrents_' = torrents_ /\ non_files_' = non_files_ /\ torrent_tags_' = torrent_tags_
      /\ MapsOK(made)
  BY ScanStepIs DEF ScanEnds, AppStep
<1>2. /\ ioq' = ioq /\ alerts' = alerts /\ files_' = files_ /\ outstanding' = outstanding
      /\ asked' = asked
  BY DEF ScanEnds
<1>3. MapsOK(made)'
  BY <1>1, <1>2 DEF MapsOK
<1>4. QED
  BY <1>1, <1>2, <1>3, AppStepKeeps

LEMMA CloseKeeps ==
  ASSUME IInv, Close
  PROVE  IInv'
<1>1. /\ made \in Nat
      /\ Fits(made, ioq, jobs, alerts, batch, outstanding, asked)
      /\ UNCHANGED inside /\ made' = made /\ batch' = batch /\ phase' = "closing" /\ dir' = dir
      /\ torrents_' = torrents_ /\ non_files_' = non_files_ /\ torrent_tags_' = torrent_tags_
      /\ MapsOK(made)
  BY ScanStepIs DEF Close, AppStep
<1>2. PICK h : h = [op |-> "pause_session", obj |-> None]
  OBVIOUS
<1>3. PICK q : q = <<h>> /\ ioq' = ioq \o q
  BY <1>2 DEF Close, Post
<1>4. alerts' = alerts /\ files_' = files_ /\ outstanding' = outstanding /\ asked' = asked
  BY DEF Close
<1>5. h \in HandlersOf(made) /\ h.op = "pause_session"
  BY <1>2 DEF HandlersOf
<1>6. q \in Seq(HandlersOf(made)) /\ \A i \in DOMAIN q : q[i].op \notin {"add", "save", "on_save"}
  BY <1>3, <1>5, Short
<1>7. Fits(made, ioq \o q, jobs, alerts, batch, outstanding, asked)
  BY <1>1, <1>6, FitsQuietPost
<1>8. MapsOK(made)'
  BY <1>1, <1>4 DEF MapsOK
<1>9. QED
  BY <1>1, <1>3, <1>4, <1>7, <1>8, AppStepKeeps

LEMMA CloseAsksKeeps ==
  ASSUME IInv, CloseAsks
  PROVE  IInv'
<1>1. /\ made \in Nat /\ outstanding \in Int
      /\ Fits(made, ioq, jobs, alerts, batch, outstanding, asked)
      /\ UNCHANGED inside /\ made' = made /\ batch' = batch /\ phase' = "waiting" /\ dir' = dir
      /\ torrents_' = torrents_ /\ non_files_' = non_files_ /\ torrent_tags_' = torrent_tags_
      /\ MapsOK(made)
  BY ScanStepIs DEF CloseAsks, AppStep
<1>2. alerts' = alerts /\ files_' = files_ /\ asked' = asked
  BY DEF CloseAsks
<1>3. PICK need \in SUBSET {o \in Listed : torrent[o].meta} :
        /\ Post([i \in 1 .. Cardinality(need) |-> Request("save", SetToSeq(need)[i])])
        /\ Counted(Cardinality(need))
  BY DEF CloseAsks
<1>4. PICK q : q = [i \in 1 .. Cardinality(need) |-> Request("save", SetToSeq(need)[i])]
  OBVIOUS
<1>5. need \in SUBSET (1..made)
  BY DEF Listed, Created
<1>6. /\ q \in Seq(HandlersOf(made)) /\ Count(q, Saves) = Cardinality(need)
      /\ \A i \in DOMAIN q : q[i].op # "add"
  <2>1. /\ q \in Seq(HandlersOf(made)) /\ Count(q, Saves) = Cardinality(need)
        /\ \A i \in DOMAIN q : q[i].op = "save"
    BY <1>1, <1>4, <1>5, SeveralRequests
  <2>2. QED
    BY <2>1
<1>7. ioq' = ioq \o q /\ outstanding' = outstanding + Count(q, Saves)
  BY <1>3, <1>4, <1>6 DEF Post, Counted
<1>8. Fits(made, ioq \o q, jobs, alerts, batch, outstanding + Count(q, Saves), asked)
  BY <1>1, <1>6, FitsPost
<1>9. MapsOK(made)'
  BY <1>1, <1>2 DEF MapsOK
<1>10. QED
  BY <1>1, <1>2, <1>7, <1>8, <1>9, AppStepKeeps

\* the results the destructor counts are those that are told
LEMMA ResultsAre ==
  ASSUME NEW m \in Nat, NEW q \in Seq(AlertsOf(m))
  PROVE  Results(q) = Count(q, Told)
<1>1. \A i \in DOMAIN q : q[i] \in AlertsOf(m)
  BY LenProperties, ElementOfSeq
<1>2. \A i \in DOMAIN q : q[i].kind \in {"saved", "save_failed"} <=> q[i] \in Told
  BY <1>1, AlertIs
<1>3. {i \in DOMAIN q : q[i].kind \in {"saved", "save_failed"}} = Places(q, Told)
  BY <1>2 DEF Places
<1>4. QED
  BY <1>3 DEF Results, Count

LEMMA CloseWaitsKeeps ==
  ASSUME IInv, CloseWaits
  PROVE  IInv'
<1>1. /\ made \in Nat /\ Fits(made, ioq, jobs, alerts, batch, outstanding, asked)
      /\ UNCHANGED inside /\ made' = made /\ batch' = batch /\ phase' = "waiting" /\ dir' = dir
      /\ torrents_' = torrents_ /\ non_files_' = non_files_ /\ torrent_tags_' = torrent_tags_
      /\ MapsOK(made)
  BY ScanStepIs DEF CloseWaits, AppStep
<1>2. Results(alerts) = Count(alerts, Told)
  BY <1>1, FitsIs, ResultsAre
<1>3. /\ outstanding' = outstanding - Count(alerts, Told) /\ alerts' = <<>>
      /\ ioq' = ioq /\ files_' = files_ /\ asked' = asked
  BY <1>2 DEF CloseWaits
<1>4. Fits(made, ioq, jobs, <<>>, batch, outstanding - Count(alerts, Told), asked)
  BY <1>1, FitsAlerts
<1>5. MapsOK(made)'
  BY <1>1, <1>3 DEF MapsOK
<1>6. QED
  BY <1>1, <1>3, <1>4, <1>5, AppStepKeeps

LEMMA CloseEndsKeeps ==
  ASSUME IInv, CloseEnds
  PROVE  IInv'
<1>1. /\ Fits(made, ioq, jobs, alerts, batch, outstanding, asked)
      /\ UNCHANGED inside /\ made' = made /\ batch' = batch /\ phase' = "closed" /\ dir' = dir
      /\ torrents_' = torrents_ /\ non_files_' = non_files_ /\ torrent_tags_' = torrent_tags_
      /\ EngineOK /\ MapsOK(made)
  BY ScanStepIs DEF CloseEnds, AppStep
<1>2. /\ ioq' = ioq /\ alerts' = alerts /\ files_' = files_ /\ outstanding' = outstanding
      /\ asked' = asked /\ outstanding <= 0
  BY DEF CloseEnds
<1>3. MapsOK(made)'
  BY <1>1, <1>2 DEF MapsOK
<1>4. EngineOK'
  BY <1>1, <1>2 DEF EngineOK, inside
<1>5. QED
  BY <1>2, <1>3, <1>4 DEF IInv

----------------------------------------------------------------------------
(* The theorems                                                                   *)

LEMMA InitOK ==
  ASSUME Init
  PROVE  IInv
<1>1. /\ ioq = <<>> /\ jobs = <<>> /\ alerts = <<>> /\ batch = <<>> /\ made = 0
      /\ outstanding = 0 /\ asked = [t \in Tags |-> 0] /\ phase = "idle"
  BY DEF Init, EngineInit
<1>2. PICK e, f, m : e = <<>> /\ f = asked /\ m = made
  OBVIOUS
<1>3. f \in [Tags -> 0..MaxAdds]
  BY <1>1, <1>2, MaxAddsAssumption
<1>4. Cardinality(Turns(f)) \in Nat
  BY <1>3, TurnsBounded
<1>5. Count(e, AddsOf(Tags)) = 0 /\ Count(e, Saves) = 0 /\ Count(e, SaveJobs) = 0
      /\ Count(e, Told) = 0
  BY <1>2, CountEmpty
<1>6. /\ e \in Seq(HandlersOf(m)) /\ e \in Seq(JobsOf(m)) /\ e \in Seq(AlertsOf(m)) /\ m \in Nat
  BY <1>1, <1>2
<1>7. m + 0 <= Cardinality(Turns(f)) /\ 0 >= 0 + 0 + 0 + 0 /\ 0 \in Int
  BY <1>1, <1>2, <1>4
<1>8. Fits(m, e, e, e, e, 0, f)
  BY <1>3, <1>5, <1>6, <1>7, FitsIf
<1>9. Fits(made, ioq, jobs, alerts, batch, outstanding, asked)
  BY <1>1, <1>2, <1>8
<1>10. session \in SessionType(made) /\ sesPaused \in BOOLEAN
  BY DEF Init, EngineInit, SessionType
<1>11. torrent \in Torrents
  <2>1. CASE Tags = {}
    <3>1. Cardinality(Tags) = 0
      BY <2>1, FS_EmptySet
    <3>2. MaxAdds * 0 = 0
      BY MaxAddsAssumption
    <3>3. Objs = {}
      BY <3>1, <3>2 DEF Objs
    <3>4. QED
      BY <3>3 DEF Init, EngineInit, Torrents, TorrentType
  <2>2. CASE Tags # {}
    <3>1. PICK t \in Tags : HashOf[t] \in Hashes
      BY <2>2, TagsAssumption
    <3>2. (CHOOSE h \in Hashes : TRUE) \in Hashes
      BY <3>1
    <3>3. QED
      BY <3>2 DEF Init, EngineInit, Torrents, TorrentType
  <2>3. QED
    BY <2>1, <2>2
<1>12. MapsOK(made)
  BY DEF Init, MapsOK
<1>13. QED
  BY <1>1, <1>9, <1>10, <1>11, <1>12 DEF IInv, EngineOK

\* what the engine does keeps the application's invariant
LEMMA EngineStepKeeps ==
  ASSUME IInv, Engine
  PROVE  IInv'
<1>1. EngineOK /\ MapsOK(made) /\ EngineNext /\ UNCHANGED appVars /\ phase # "closed"
  BY DEF IInv, Engine, Running
<1>2. EngineOKNext
  BY <1>1, EngineKeeps
<1>3. /\ torrents_' = torrents_ /\ files_' = files_ /\ non_files_' = non_files_
      /\ torrent_tags_' = torrent_tags_ /\ outstanding' = outstanding /\ batch' = batch
      /\ phase' = phase /\ dir' = dir /\ asked' = asked
  BY <1>1 DEF appVars, maps, bounds
<1>4. EngineOK'
  BY <1>2, <1>3 DEF EngineOK, EngineOKNext
<1>5. MapsOK(made')
  <2>1. made \in Nat
    BY <1>1, FitsIs DEF EngineOK
  <2>2. PICK n : n = made' /\ (n = made \/ n = made + 1)
    BY <1>2 DEF EngineOKNext
  <2>3. 1..made \subseteq 1..n
    BY <2>1, <2>2
  <2>4. MapsOK(n)
    BY <1>1, <2>3 DEF MapsOK
  <2>5. QED
    BY <2>2, <2>4
<1>6. MapsOK(made)'
  BY <1>3, <1>5 DEF MapsOK
<1>7. QED
  BY <1>1, <1>3, <1>4, <1>6 DEF IInv

LEMMA TakeFileKeeps ==
  ASSUME IInv, NEW f \in Monitored, TakeFile(f)
  PROVE  IInv'
<1>1. /\ UNCHANGED <<engineVars, maps, outstanding, batch, phase, bounds>>
      /\ dir' = dir \ {f}
  BY DEF TakeFile
<1>2. QED
  BY <1>1 DEF IInv, EngineOK, MapsOK, engineVars, inside, maps, bounds

LEMMA NextKeeps ==
  ASSUME IInv, [Next]_vars
  PROVE  IInv'
<1>1. CASE User
  BY <1>1, AddKeeps, DelKeeps, PauseKeeps, ResumeKeeps, UpdateKeeps, CloseKeeps, Zenon DEF User
<1>2. CASE Application
  BY <1>2, HandleAddedKeeps, HandleMetadataKeeps, HandleAskForResumeDataKeeps,
     HandleResumeDataKeeps, HandleStateUpdateKeeps, EndUpdateKeeps, ScanAddsKeeps,
     ScanPausesKeeps, ScanSavesKeeps, ScanEndsKeeps, CloseAsksKeeps, CloseWaitsKeeps,
     CloseEndsKeeps, Zenon DEF Application
<1>3. CASE Engine
  BY <1>3, EngineStepKeeps
<1>4. CASE \E f \in Monitored : TakeFile(f)
  BY <1>4, TakeFileKeeps
<1>5. CASE UNCHANGED vars
  BY <1>5 DEF IInv, EngineOK, MapsOK, vars, engineVars, inside, appVars, maps, bounds
<1>6. QED
  BY <1>1, <1>2, <1>3, <1>4, <1>5 DEF Next

\* The invariant the theorems below follow from.
THEOREM Invariance == Spec => []IInv
<1>1. Init => IInv
  BY InitOK
<1>2. IInv /\ [Next]_vars => IInv'
  BY NextKeeps
<1>3. QED
  BY <1>1, <1>2, PTL DEF Spec

\* The results under way are those the invariant counts.
LEMMA PendingIs ==
  ASSUME IInv
  PROVE  Pending \in Nat /\ Pending <= outstanding /\ outstanding \in Nat
<1>1. PICK io, jo, al, ba, m, out :
        /\ io = ioq /\ jo = jobs /\ al = alerts /\ ba = batch /\ m = made /\ out = outstanding
        /\ Fits(m, io, jo, al, ba, out, asked)
  BY DEF IInv, EngineOK
<1>2. PICK cs \in Nat, cj \in Nat, cl \in Nat, cb \in Nat :
        /\ cs = Count(io, Saves) /\ cj = Count(jo, SaveJobs)
        /\ cl = Count(al, Told) /\ cb = Count(ba, Told)
        /\ out \in Int /\ out >= cs + cj + cl + cb
  BY <1>1, FitsIs
<1>3. /\ io \in Seq(HandlersOf(m)) /\ jo \in Seq(JobsOf(m)) /\ m \in Nat
      /\ al \in Seq(AlertsOf(m)) /\ ba \in Seq(AlertsOf(m))
  BY <1>1, FitsIs
<1>4. Under(io, {"save", "on_save"}) = cs
  <2>1. \A i \in DOMAIN io : io[i] \in HandlersOf(m)
    BY <1>3, LenProperties, ElementOfSeq
  <2>2. \A i \in DOMAIN io : io[i].op \in {"save", "on_save"} <=> io[i] \in Saves
    BY <1>3, <2>1, HandlerIs
  <2>3. {i \in DOMAIN io : io[i].op \in {"save", "on_save"}} = Places(io, Saves)
    BY <2>2 DEF Places
  <2>4. QED
    BY <1>2, <2>3 DEF Under, Count
<1>5. Under(jo, {"save_job"}) = cj
  <2>1. \A i \in DOMAIN jo : jo[i] \in JobsOf(m)
    BY <1>3, LenProperties, ElementOfSeq
  <2>2. \A i \in DOMAIN jo : jo[i].op \in {"save_job"} <=> jo[i] \in SaveJobs
    BY <1>3, <2>1, JobIs
  <2>3. {i \in DOMAIN jo : jo[i].op \in {"save_job"}} = Places(jo, SaveJobs)
    BY <2>2 DEF Places
  <2>4. QED
    BY <1>2, <2>3 DEF Under, Count
<1>6. Results(al) = cl /\ Results(ba) = cb
  BY <1>2, <1>3, ResultsAre
<1>7. Pending = cs + cj + cl + cb
  BY <1>1, <1>4, <1>5, <1>6 DEF Pending
<1>8. QED
  BY <1>1, <1>2, <1>7

\* Every resume-data alert that will come is counted: update() and the destructor
\* between them never stop waiting while one is under way.
THEOREM NoneForgotten == Spec => []EnoughAwaited
<1>1. IInv => EnoughAwaited
  BY PendingIs DEF EnoughAwaited
<1>2. QED
  BY <1>1, Invariance, PTL

\* The destructor returns when no resume data is lost, in the alert queue or on its
\* way there.
THEOREM NoneLost == Spec => []NoResumeDataLeft
<1>1. IInv => NoResumeDataLeft
  <2>1. SUFFICES ASSUME IInv, phase = "closed"
                 PROVE  Pending = 0
    BY DEF NoResumeDataLeft
  <2>2. PICK p \in Nat, n \in Nat : p = Pending /\ n = outstanding /\ p <= n
    BY <2>1, PendingIs
  <2>3. n <= 0
    BY <2>1, <2>2 DEF IInv
  <2>4. QED
    BY <2>2, <2>3
<1>2. QED
  BY <1>1, Invariance, PTL

\* Type correctness of the wrapper's and the session's state.
THEOREM TypeCorrect == Spec => []TypeOK
<1>1. IInv => TypeOK
  <2>1. SUFFICES ASSUME IInv
                 PROVE  TypeOK
    OBVIOUS
  <2>2. EngineOK /\ MapsOK(made) /\ Fits(made, ioq, jobs, alerts, batch, outstanding, asked)
    BY <2>1 DEF IInv, EngineOK
  <2>3. /\ made \in Nat /\ ioq \in Seq(HandlersOf(made)) /\ jobs \in Seq(JobsOf(made))
        /\ alerts \in Seq(AlertsOf(made)) /\ batch \in Seq(AlertsOf(made))
    BY <2>2, FitsIs
  <2>4. made \in 0..Cardinality(Objs)
    <3>1. PICK z : z = MaxAdds * Cardinality(Tags) /\ z \in Nat
      BY MaxAddsAssumption, TagsAssumption, FS_CardinalityType
    <3>2. Objs = 1..z /\ Cardinality(1..z) = z
      BY <3>1, FS_Interval DEF Objs
    <3>3. Created \subseteq 1..z
      BY <2>2, <3>2, CreatedAreObjs
    <3>4. made <= z
      BY <2>3, <3>1, <3>3 DEF Created
    <3>5. QED
      BY <2>3, <3>1, <3>2, <3>4
  <2>5. session \in [Hashes -> Created \cup {None}]
    BY <2>2 DEF EngineOK, SessionType, Created
  <2>6. \A h \in ToSet(ioq) \cup ToSet(jobs) : h.obj \in Created \cup {None}
    <3>1. ToSet(ioq) \subseteq HandlersOf(made) /\ ToSet(jobs) \subseteq JobsOf(made)
      BY <2>3, LenProperties, ElementOfSeq DEF ToSet
    <3>2. \A h \in HandlersOf(made) : h.obj \in Created \cup {None}
      BY DEF HandlersOf, Created
    <3>3. \A j \in JobsOf(made) : j.obj \in Created
      BY DEF JobsOf, Created
    <3>4. QED
      BY <3>1, <3>2, <3>3
  <2>7. \A a \in ToSet(alerts) \cup ToSet(batch) : a.kind = "updates" \/ a.obj \in Created
    <3>1. ToSet(alerts) \subseteq AlertsOf(made) /\ ToSet(batch) \subseteq AlertsOf(made)
      BY <2>3, LenProperties, ElementOfSeq DEF ToSet
    <3>2. \A a \in AlertsOf(made) : a.kind = "updates" \/ a.obj \in Created
      BY <2>3, AlertIs DEF Created
    <3>3. QED
      BY <3>1, <3>2
  <2>8. /\ \A e \in torrents_ :
             e.tag \in Tags /\ e.obj \in Created /\ {e.auto, e.paused} \subseteq BOOLEAN
        /\ \A e \in files_ : e.key \in Tags /\ e.path \in Tags \cup {None} /\ e.obj \in Created
        /\ non_files_ \subseteq Created /\ torrent_tags_ \in [Tags -> Tags \cup {None}]
        /\ dir \subseteq Monitored
    BY <2>2 DEF MapsOK, Created
  <2>9. outstanding \in Nat
    BY <2>1, PendingIs
  <2>10. QED
    BY <2>4, <2>5, <2>6, <2>7, <2>8, <2>9 DEF TypeOK
<1>2. QED
  BY <1>1, Invariance, PTL
=============================================================================
