------------------------ MODULE TrackerAnnounce_proofs ------------------------
(***************************************************************************)
(* The safety of TrackerAnnounce for any trackers, tiers, limits and times:    *)
(* the list and m_last_working_tracker through every reordering, the updating   *)
(* flags, and that no wake-up is lost, which rests on what the timer's expiry    *)
(* says of the next announce (Clock).                                        *)
(***************************************************************************)
EXTENDS TrackerAnnounce, FiniteSetTheorems, SequenceTheorems, WellFoundedInduction, TLAPS

----------------------------------------------------------------------------
(* Naturals, and sequences with an element removed, inserted or moved               *)

LEMMA LeastNatural ==
  ASSUME NEW S \in SUBSET Nat, S # {}
  PROVE  \E n \in S : \A m \in S : n <= m
<1>1. PICK R : R = OpToRel(<, Nat)
  OBVIOUS
<1>2. PICK n \in S : \A m \in S : ~ (<<m, n>> \in R)
  BY <1>1, NatLessThanWellFounded, WFMin
<1>3. \A m \in S : m < n => <<m, n>> \in R
  BY <1>1 DEF OpToRel
<1>4. \A m \in S : ~(m < n)
  BY <1>2, <1>3, Zenon
<1>5. n \in Nat /\ \A m \in S : m \in Nat
  BY <1>2
<1>6. \A m \in S : n <= m
  BY <1>4, <1>5
<1>7. QED
  BY <1>6

\* where the element at j came from when the one at i has moved to k
From(i, k, j) ==
    IF j = k THEN i
    ELSE IF k < j /\ j <= i THEN j - 1
    ELSE IF i <= j /\ j < k THEN j + 1
    ELSE j

\* two sequences, one after the other
LEMMA Joined ==
  ASSUME NEW a \in Seq(Trackers), NEW b \in Seq(Trackers)
  PROVE  /\ a \o b \in Seq(Trackers) /\ Len(a \o b) = Len(a) + Len(b)
         /\ \A j \in 1..Len(a) : (a \o b)[j] = a[j]
         /\ \A j \in (Len(a) + 1)..(Len(a) + Len(b)) : (a \o b)[j] = b[j - Len(a)]
<1>1. Len(a) \in Nat /\ Len(b) \in Nat
  BY LenProperties
<1>2. /\ a \o b \in Seq(Trackers) /\ Len(a \o b) = Len(a) + Len(b)
      /\ \A j \in 1..(Len(a) + Len(b)) : (a \o b)[j] = IF j <= Len(a) THEN a[j] ELSE b[j - Len(a)]
  BY ConcatProperties
<1>3. (\A j \in 1..Len(a) : j \in 1..(Len(a) + Len(b)) /\ j <= Len(a))
      /\ \A j \in (Len(a) + 1)..(Len(a) + Len(b)) : j \in 1..(Len(a) + Len(b)) /\ ~(j <= Len(a))
  BY <1>1
<1>4. QED
  BY <1>2, <1>3, Zenon

\* the part of a sequence from m to n
LEMMA Cut ==
  ASSUME NEW s \in Seq(Trackers), NEW m \in Nat \ {0}, NEW n \in 0..Len(s), m <= n + 1,
         NEW c, c = SubSeq(s, m, n)
  PROVE  /\ c \in Seq(Trackers) /\ Len(c) = n - m + 1
         /\ \A j \in 1..(n - m + 1) : c[j] = s[m + j - 1]
<1>1. Len(s) \in Nat /\ \A j \in m..n : s[j] \in Trackers
  BY ElementOfSeq, LenProperties
<1>2. /\ c \in Seq(Trackers) /\ Len(c) = IF m <= n THEN n - m + 1 ELSE 0
      /\ \A j \in 1..(n - m + 1) : c[j] = s[m + j - 1]
  BY <1>1, SubSeqProperties
<1>3. QED
  BY <1>1, <1>2

LEMMA Removed ==
  ASSUME NEW s \in Seq(Trackers), NEW i \in 1..Len(s)
  PROVE  /\ RemoveAt(s, i) \in Seq(Trackers) /\ Len(RemoveAt(s, i)) = Len(s) - 1
         /\ \A j \in 1..(Len(s) - 1) :
              RemoveAt(s, i)[j] = IF j < i THEN s[j] ELSE s[j + 1]
<1>r. PICK r : r = RemoveAt(s, i)
  OBVIOUS
<1> DEFINE n == Len(s)
<1>0. n \in Nat /\ i \in 1..n
  BY LenProperties
<1>1. PICK a : a = SubSeq(s, 1, i - 1)
  OBVIOUS
<1>2. PICK b : b = SubSeq(s, i + 1, n)
  OBVIOUS
<1>3. /\ a \in Seq(Trackers) /\ Len(a) = i - 1
      /\ \A j \in 1..(i - 1) : a[j] = s[j]
  <2>1. /\ a \in Seq(Trackers) /\ Len(a) = i - 1 - 1 + 1
        /\ \A j \in 1..(i - 1 - 1 + 1) : a[j] = s[1 + j - 1]
    BY <1>0, <1>1, Cut
  <2>2. QED
    BY <1>0, <2>1
<1>4. /\ b \in Seq(Trackers) /\ Len(b) = n - i
      /\ \A j \in 1..(n - i) : b[j] = s[i + j]
  <2>1. /\ b \in Seq(Trackers) /\ Len(b) = n - (i + 1) + 1
        /\ \A j \in 1..(n - (i + 1) + 1) : b[j] = s[i + 1 + j - 1]
    BY <1>0, <1>2, Cut
  <2>2. QED
    BY <1>0, <2>1
<1>5. r = a \o b
  BY <1>r, <1>1, <1>2 DEF RemoveAt
<1>6. /\ r \in Seq(Trackers) /\ Len(r) = Len(a) + Len(b)
      /\ \A j \in 1..Len(a) : r[j] = a[j]
      /\ \A j \in (Len(a) + 1)..(Len(a) + Len(b)) : r[j] = b[j - Len(a)]
  <2>1. a \in Seq(Trackers) /\ b \in Seq(Trackers)
    BY <1>3, <1>4
  <2>2. QED
    BY <1>5, <2>1, Joined, Zenon
<1> HIDE DEF n
<1>7. /\ \A j \in 1..(i - 1) : r[j] = s[j]
      /\ \A j \in i..(n - 1) : r[j] = s[j + 1]
  <2>1. \A j \in i..(n - 1) : r[j] = b[j - (i - 1)]
    <3>1. \A j \in i..(n - 1) : j \in (Len(a) + 1)..(Len(a) + Len(b)) /\ j - Len(a) = j - (i - 1)
      BY <1>0, <1>3, <1>4
    <3>2. QED
      BY <1>6, <3>1
  <2>2. \A j \in i..(n - 1) : j - (i - 1) \in 1..(n - i) /\ i + (j - (i - 1)) = j + 1
    BY <1>0
  <2>3. \A j \in i..(n - 1) : b[j - (i - 1)] = s[j + 1]
    BY <1>4, <2>2
  <2>4. QED
    BY <1>3, <1>6, <2>1, <2>3
<1>8. Len(r) = n - 1
  BY <1>0, <1>3, <1>4, <1>6
<1>9. ASSUME NEW j \in 1..(n - 1)
      PROVE  r[j] = IF j < i THEN s[j] ELSE s[j + 1]
  <2>1. j < i => j \in 1..(i - 1)
    BY <1>0
  <2>2. ~(j < i) => j \in i..(n - 1)
    BY <1>0
  <2>3. QED
    BY <1>7, <2>1, <2>2
<1>10. QED
  BY <1>r, <1>6, <1>8, <1>9 DEF n

LEMMA Inserted ==
  ASSUME NEW s \in Seq(Trackers), NEW k \in 1..(Len(s) + 1), NEW t \in Trackers
  PROVE  /\ InsertAt(s, k, t) \in Seq(Trackers) /\ Len(InsertAt(s, k, t)) = Len(s) + 1
         /\ \A j \in 1..(Len(s) + 1) :
              InsertAt(s, k, t)[j] = IF j < k THEN s[j] ELSE IF j = k THEN t ELSE s[j - 1]
<1>r. PICK r : r = InsertAt(s, k, t)
  OBVIOUS
<1> DEFINE n == Len(s)
<1>0. n \in Nat /\ k \in 1..(n + 1)
  BY LenProperties
<1>1. PICK a : a = SubSeq(s, 1, k - 1)
  OBVIOUS
<1>2. PICK b : b = SubSeq(s, k, n)
  OBVIOUS
<1>3. PICK c : c = <<t>>
  OBVIOUS
<1>4. PICK d : d = a \o c
  OBVIOUS
<1>5. /\ a \in Seq(Trackers) /\ Len(a) = k - 1
      /\ \A j \in 1..(k - 1) : a[j] = s[j]
  <2>1. /\ a \in Seq(Trackers) /\ Len(a) = k - 1 - 1 + 1
        /\ \A j \in 1..(k - 1 - 1 + 1) : a[j] = s[1 + j - 1]
    BY <1>0, <1>1, Cut
  <2>2. QED
    BY <1>0, <2>1
<1>6. /\ b \in Seq(Trackers) /\ Len(b) = n - k + 1
      /\ \A j \in 1..(n - k + 1) : b[j] = s[k + j - 1]
  BY <1>0, <1>2, Cut
<1>7. c \in Seq(Trackers) /\ Len(c) = 1 /\ c[1] = t
  BY <1>3
<1>8. r = d \o b
  BY <1>r, <1>1, <1>2, <1>3, <1>4 DEF InsertAt
<1>9. /\ d \in Seq(Trackers) /\ Len(d) = k
      /\ \A j \in 1..(k - 1) : d[j] = s[j]
      /\ d[k] = t
  <2>1. /\ d \in Seq(Trackers) /\ Len(d) = Len(a) + Len(c)
        /\ \A j \in 1..Len(a) : d[j] = a[j]
        /\ \A j \in (Len(a) + 1)..(Len(a) + Len(c)) : d[j] = c[j - Len(a)]
    <3>1. a \in Seq(Trackers) /\ c \in Seq(Trackers)
      BY <1>5, <1>7
    <3>2. QED
      BY <1>4, <3>1, Joined, Zenon
  <2>2. k \in (Len(a) + 1)..(Len(a) + Len(c)) /\ k - Len(a) = 1
    BY <1>0, <1>5, <1>7
  <2>3. d[k] = t
    BY <1>7, <2>1, <2>2
  <2>4. Len(d) = k
    BY <1>0, <1>5, <1>7, <2>1
  <2>5. \A j \in 1..(k - 1) : d[j] = s[j]
    BY <1>5, <2>1
  <2>6. QED
    BY <2>1, <2>3, <2>4, <2>5
<1>10. /\ r \in Seq(Trackers) /\ Len(r) = Len(d) + Len(b)
       /\ \A j \in 1..Len(d) : r[j] = d[j]
       /\ \A j \in (Len(d) + 1)..(Len(d) + Len(b)) : r[j] = b[j - Len(d)]
  <2>1. d \in Seq(Trackers) /\ b \in Seq(Trackers)
    BY <1>6, <1>9
  <2>2. QED
    BY <1>8, <2>1, Joined, Zenon
<1> HIDE DEF n
<1>11. /\ \A j \in 1..(k - 1) : r[j] = s[j]
       /\ r[k] = t
       /\ \A j \in (k + 1)..(n + 1) : r[j] = s[j - 1]
  <2>1. \A j \in (k + 1)..(n + 1) : r[j] = b[j - k]
    BY <1>0, <1>6, <1>9, <1>10
  <2>2. \A j \in (k + 1)..(n + 1) : j - k \in 1..(n - k + 1) /\ k + (j - k) - 1 = j - 1
    BY <1>0
  <2>3. \A j \in (k + 1)..(n + 1) : b[j - k] = s[j - 1]
    BY <1>6, <2>2
  <2>4. r[k] = t
    BY <1>0, <1>9, <1>10
  <2>5. \A j \in 1..(k - 1) : j \in 1..Len(d)
    BY <1>0, <1>9
  <2>6. QED
    BY <1>9, <1>10, <2>1, <2>3, <2>4, <2>5
<1>12. Len(r) = n + 1
  BY <1>0, <1>6, <1>9, <1>10
<1>13. ASSUME NEW j \in 1..(n + 1)
       PROVE  r[j] = IF j < k THEN s[j] ELSE IF j = k THEN t ELSE s[j - 1]
  <2>1. j < k => j \in 1..(k - 1)
    BY <1>0
  <2>2. ~(j < k) /\ j # k => j \in (k + 1)..(n + 1)
    BY <1>0
  <2>3. QED
    BY <1>11, <2>1, <2>2
<1>14. QED
  BY <1>r, <1>10, <1>12, <1>13 DEF n

\* q is s with the element at i moved to k
Moved(s, i, k, q) ==
    /\ q \in Seq(Trackers) /\ Len(q) = Len(s)
    /\ \A j \in 1..Len(s) : From(i, k, j) \in 1..Len(s) /\ q[j] = s[From(i, k, j)]

LEMMA MovedTo ==
  ASSUME NEW s \in Seq(Trackers), NEW i \in 1..Len(s), NEW k \in 1..Len(s)
  PROVE  Moved(s, i, k, InsertAt(RemoveAt(s, i), k, s[i]))
<1>q. PICK q : q = InsertAt(RemoveAt(s, i), k, s[i])
  OBVIOUS
<1> DEFINE n == Len(s)
<1>0. n \in Nat /\ s[i] \in Trackers /\ i \in 1..n /\ k \in 1..n
  BY ElementOfSeq, LenProperties
<1>1. PICK r : r = RemoveAt(s, i)
  OBVIOUS
<1>2. /\ r \in Seq(Trackers) /\ Len(r) = n - 1
      /\ \A j \in 1..(n - 1) : r[j] = IF j < i THEN s[j] ELSE s[j + 1]
  BY <1>1, Removed
<1>3. /\ q \in Seq(Trackers) /\ Len(q) = Len(r) + 1
      /\ \A j \in 1..(Len(r) + 1) :
           q[j] = IF j < k THEN r[j] ELSE IF j = k THEN s[i] ELSE r[j - 1]
  <2>1. k \in 1..(Len(r) + 1)
    BY <1>0, <1>2
  <2>2. q = InsertAt(r, k, s[i])
    BY <1>q, <1>1
  <2>3. r \in Seq(Trackers) /\ s[i] \in Trackers
    BY <1>0, <1>2
  <2>4. \A t \in Trackers :
          /\ InsertAt(r, k, t) \in Seq(Trackers) /\ Len(InsertAt(r, k, t)) = Len(r) + 1
          /\ \A j \in 1..(Len(r) + 1) :
               InsertAt(r, k, t)[j] = IF j < k THEN r[j] ELSE IF j = k THEN t ELSE r[j - 1]
    BY <2>1, <2>3, Inserted
  <2>5. QED
    BY <2>2, <2>3, <2>4, Zenon
<1> HIDE DEF n
<1>4. Len(q) = n /\ \A j \in 1..n :
           q[j] = IF j < k THEN r[j] ELSE IF j = k THEN s[i] ELSE r[j - 1]
  BY <1>0, <1>2, <1>3
<1>5. ASSUME NEW j \in 1..n
      PROVE  From(i, k, j) \in 1..n /\ q[j] = s[From(i, k, j)]
  <2>1. From(i, k, j) \in 1..n
    BY <1>0 DEF From
  <2>2. CASE j < k
    <3>1. j \in 1..(n - 1) /\ q[j] = r[j]
      BY <1>0, <1>4, <2>2
    <3>2. q[j] = IF j < i THEN s[j] ELSE s[j + 1]
      BY <1>2, <3>1
    <3>3. From(i, k, j) = IF j < i THEN j ELSE j + 1
      BY <1>0, <2>2 DEF From
    <3>4. QED
      BY <2>1, <3>2, <3>3
  <2>3. CASE j = k
    BY <1>4, <2>1, <2>3 DEF From
  <2>4. CASE j > k
    <3>1. j - 1 \in 1..(n - 1) /\ q[j] = r[j - 1]
      BY <1>0, <1>4, <2>4
    <3>2. q[j] = IF j - 1 < i THEN s[j - 1] ELSE s[j - 1 + 1]
      BY <1>2, <3>1
    <3>3. From(i, k, j) = IF j - 1 < i THEN j - 1 ELSE j - 1 + 1
      BY <1>0, <2>4 DEF From
    <3>4. QED
      BY <2>1, <3>2, <3>3
  <2>5. QED
    BY <1>0, <2>2, <2>3, <2>4
<1>6. Moved(s, i, k, q)
  BY <1>3, <1>4, <1>5 DEF n, Moved
<1>7. QED
  BY <1>q, <1>6

LEMMA LeastOf ==
  ASSUME NEW S \in SUBSET Nat, S # {}
  PROVE  Min(S) \in S /\ \A m \in S : Min(S) <= m
<1>1. PICK n \in S : \A m \in S : n <= m
  BY LeastNatural
<1>2. QED
  BY <1>1 DEF Min

LEMMA GreatestOf ==
  ASSUME NEW n \in Nat, NEW S \in SUBSET (1..n), S # {}
  PROVE  Max(S) \in S /\ \A m \in S : m <= Max(S)
<1> DEFINE T == {n - i : i \in S}
<1>1. T \in SUBSET Nat /\ T # {}
  OBVIOUS
<1>2. PICK k \in T : \A m \in T : k <= m
  BY <1>1, LeastNatural
<1>3. PICK g \in S : k = n - g
  OBVIOUS
<1>4. \A m \in S : n - m \in T /\ m \in Int /\ g \in Int
  OBVIOUS
<1> HIDE DEF T
<1>5. \A m \in S : g >= m
  BY <1>2, <1>3, <1>4
<1>6. Max(S) \in S /\ \A m \in S : Max(S) >= m
  BY <1>5 DEF Max
<1>7. QED
  BY <1>6

LEMMA MaxOfTwo ==
  ASSUME NEW a \in Nat, NEW b \in Nat
  PROVE  /\ Max({a, b}) \in Nat
         /\ Max({a, b}) = IF a >= b THEN a ELSE b
<1>1. \E x \in {a, b} : \A y \in {a, b} : x >= y
  OBVIOUS
<1>2. Max({a, b}) \in {a, b} /\ \A y \in {a, b} : Max({a, b}) >= y
  BY <1>1 DEF Max
<1>3. QED
  BY <1>2

----------------------------------------------------------------------------
(* The time of the next announce                                                  *)

EntryType == [tier : Nat, next : Nat, min : Nat, fails : 0..(FailWrap - 1),
              updating : BOOLEAN, startSent : BOOLEAN, completeSent : BOOLEAN]
Later(x) == Max({x.next, x.min})

LEMMA LaterIs ==
  ASSUME NEW x \in EntryType
  PROVE  /\ Later(x) \in Nat /\ x.next \in Nat /\ x.min \in Nat
         /\ Later(x) = IF x.next >= x.min THEN x.next ELSE x.min
  BY MaxOfTwo DEF Later, EntryType

\* it is the earliest of those that are awaited
LEMMA NextIs ==
  ASSUME NEW s \in Seq(Trackers), NEW es \in [Trackers -> EntryType]
  PROVE  /\ Awaited(s, es) \subseteq Trackers
         /\ Awaited(s, es) = {} => NextAnnounce(s, es) = Never
         /\ Awaited(s, es) # {} =>
              /\ NextAnnounce(s, es) \in Nat
              /\ \E t \in Awaited(s, es) : NextAnnounce(s, es) = Later(es[t])
              /\ \A t \in Awaited(s, es) : NextAnnounce(s, es) <= Later(es[t])
<1> DEFINE A == Awaited(s, es)
           times == {Later(es[t]) : t \in A}
<1>1. A \subseteq Trackers
  <2>1. ToSet(s) \subseteq Trackers
    BY ElementOfSeq, LenProperties DEF ToSet
  <2>2. QED
    BY <2>1 DEF Awaited
<1>2. NextAnnounce(s, es) = IF times = {} THEN Never ELSE Min(times)
  BY DEF NextAnnounce, Later
<1> HIDE DEF A
<1>3. times \in SUBSET Nat
  BY <1>1, LaterIs
<1>4. times = {} <=> A = {}
  OBVIOUS
<1>5. A # {} => Min(times) \in times /\ \A m \in times : Min(times) <= m
  BY <1>3, <1>4, LeastOf
<1>6. \A t \in A : Later(es[t]) \in times
  OBVIOUS
<1>7. \A m \in times : m \in Nat /\ \E t \in A : m = Later(es[t])
  BY <1>3
<1> HIDE DEF times
<1>8. A = {} => NextAnnounce(s, es) = Never
  BY <1>2, <1>4
<1>9. A # {} => NextAnnounce(s, es) = Min(times)
  BY <1>2, <1>4
<1>10. QED
  BY <1>1, <1>5, <1>6, <1>7, <1>8, <1>9 DEF A

----------------------------------------------------------------------------
(* The list                                                                       *)

Sorted(s, es) == \A i, j \in DOMAIN s : i < j => es[s[i]].tier <= es[s[j]].tier
ListOK(s, es) == s \in Seq(Trackers) /\ IsInjective(s) /\ Sorted(s, es)

LEMMA Elements ==
  ASSUME NEW s \in Seq(Trackers)
  PROVE  /\ Len(s) \in Nat /\ DOMAIN s = 1..Len(s)
         /\ ToSet(s) \subseteq Trackers
         /\ \A i \in 1..Len(s) : s[i] \in Trackers /\ s[i] \in ToSet(s)
         /\ \A t \in ToSet(s) : \E i \in 1..Len(s) : s[i] = t
<1>1. Len(s) \in Nat /\ DOMAIN s = 1..Len(s)
  BY LenProperties
<1>2. \A i \in 1..Len(s) : s[i] \in Trackers
  BY ElementOfSeq
<1>3. QED
  BY <1>1, <1>2 DEF ToSet

\* where t is, and what comes before it
LEMMA IndexIs ==
  ASSUME NEW s \in Seq(Trackers), IsInjective(s), NEW i \in 1..Len(s)
  PROVE  Index(s, s[i]) = i /\ Before(s, s[i]) = {s[j] : j \in 1..(i - 1)}
<1>1. DOMAIN s = 1..Len(s)
  BY Elements
<1>2. \A j \in DOMAIN s : s[j] = s[i] => j = i
  BY <1>1 DEF IsInjective
<1>3. Index(s, s[i]) = i
  BY <1>1, <1>2 DEF Index
<1>4. QED
  BY <1>3 DEF Before

\* the tiers are all the order depends on
LEMMA SameTiers ==
  ASSUME NEW s, NEW es, NEW fs, ListOK(s, es),
         \A t \in Trackers : fs[t].tier = es[t].tier
  PROVE  ListOK(s, fs)
<1>1. \A i \in DOMAIN s : s[i] \in Trackers
  BY Elements DEF ListOK
<1>2. \A i \in DOMAIN s : fs[s[i]].tier = es[s[i]].tier
  BY <1>1
<1>3. QED
  BY <1>2 DEF ListOK, Sorted

\* a tracker moves to the place of one of its tier
LEMMA MovedInTier ==
  ASSUME NEW s, NEW es \in [Trackers -> EntryType], ListOK(s, es),
         NEW i \in 1..Len(s), NEW k \in 1..Len(s), es[s[k]].tier = es[s[i]].tier,
         NEW q, Moved(s, i, k, q)
  PROVE  ListOK(q, es) /\ ToSet(q) = ToSet(s)
<1> DEFINE n == Len(s)
<1>1. s \in Seq(Trackers)
  BY DEF ListOK
<1>2. n \in Nat /\ DOMAIN s = 1..n /\ \A j \in 1..n : s[j] \in Trackers
  BY <1>1, Elements
<1>3. /\ q \in Seq(Trackers) /\ Len(q) = n
      /\ \A j \in 1..n : From(i, k, j) \in 1..n /\ q[j] = s[From(i, k, j)]
  BY Zenon DEF Moved
<1>4. DOMAIN q = 1..n
  BY <1>3, Elements
<1> HIDE DEF n
<1>5. i \in 1..n /\ k \in 1..n
  BY DEF n
<1>6. IsInjective(q)
  <2>1. \A a, b \in 1..n : From(i, k, a) = From(i, k, b) => a = b
    BY <1>2, <1>5 DEF From
  <2>2. \A a, b \in 1..n : s[a] = s[b] => a = b
    BY <1>2 DEF ListOK, IsInjective
  <2>3. ASSUME NEW a \in 1..n, NEW b \in 1..n, q[a] = q[b] PROVE a = b
    <3>1. /\ From(i, k, a) \in 1..n /\ q[a] = s[From(i, k, a)]
          /\ From(i, k, b) \in 1..n /\ q[b] = s[From(i, k, b)]
      BY <1>3, Zenon
    <3>2. From(i, k, a) = From(i, k, b)
      BY <2>2, <2>3, <3>1, Zenon
    <3>3. QED
      BY <2>1, <3>2, Zenon
  <2>4. QED
    BY <1>4, <2>3 DEF IsInjective
<1>7. PICK tier : tier = [j \in 1..n |-> es[s[j]].tier]
  OBVIOUS
<1>0. tier \in [1..n -> Nat] /\ \A j \in 1..n : tier[j] = es[s[j]].tier
  <2>1. \A j \in 1..n : es[s[j]].tier \in Nat
    BY <1>2 DEF EntryType
  <2>2. QED
    BY <1>7, <2>1
<1>8. \A a, b \in 1..n : a < b => tier[a] <= tier[b]
  <2>1. \A a, b \in 1..n : a < b => es[s[a]].tier <= es[s[b]].tier
    BY <1>2, Zenon DEF ListOK, Sorted
  <2>2. QED
    BY <1>0, <2>1, Zenon
<1>9. tier[k] = tier[i]
  BY <1>5, <1>0
<1>10. \A a, b \in 1..n : a <= b => tier[a] <= tier[b]
  BY <1>2, <1>8, <1>0
<1>11. ASSUME NEW j \in 1..n
       PROVE  es[q[j]].tier = tier[j]
  <2>1. From(i, k, j) \in 1..n /\ es[q[j]].tier = tier[From(i, k, j)]
    BY <1>3, <1>0
  <2>2. tier[From(i, k, j)] = tier[j]
    <3>1. CASE j = k
      BY <1>9, <3>1 DEF From
    <3>2. CASE k < j /\ j <= i
      <4>1. From(i, k, j) = j - 1 /\ j - 1 \in 1..n /\ k <= j - 1 /\ j - 1 <= i
        BY <1>2, <1>5, <3>2 DEF From
      <4>2. tier[k] <= tier[j] /\ tier[j] <= tier[i]
            /\ tier[k] <= tier[j - 1] /\ tier[j - 1] <= tier[i]
        BY <1>2, <1>5, <1>10, <3>2, <4>1
      <4>3. tier[j] \in Nat /\ tier[j - 1] \in Nat /\ tier[i] \in Nat
        BY <1>5, <1>0, <4>1
      <4>4. QED
        BY <1>9, <4>1, <4>2, <4>3
    <3>3. CASE i <= j /\ j < k
      <4>1. From(i, k, j) = j + 1 /\ j + 1 \in 1..n /\ i <= j + 1 /\ j + 1 <= k
        BY <1>2, <1>5, <3>3 DEF From
      <4>2. tier[i] <= tier[j] /\ tier[j] <= tier[k]
            /\ tier[i] <= tier[j + 1] /\ tier[j + 1] <= tier[k]
        BY <1>2, <1>5, <1>10, <3>3, <4>1
      <4>3. tier[j] \in Nat /\ tier[j + 1] \in Nat /\ tier[i] \in Nat
        BY <1>5, <1>0, <4>1
      <4>4. QED
        BY <1>9, <4>1, <4>2, <4>3
    <3>4. CASE j # k /\ ~(k < j /\ j <= i) /\ ~(i <= j /\ j < k)
      <4>1. From(i, k, j) = j
        BY <3>4 DEF From
      <4>2. QED
        BY <4>1
    <3>5. QED
      BY <3>1, <3>2, <3>3, <3>4
  <2>3. QED
    BY <2>1, <2>2
<1>12. Sorted(q, es)
  BY <1>4, <1>8, <1>11 DEF Sorted
<1>13. ToSet(q) = ToSet(s)
  <2>1. \A j \in 1..n : \E a \in 1..n : From(i, k, a) = j
    <3>1. SUFFICES ASSUME NEW j \in 1..n PROVE \E a \in 1..n : From(i, k, a) = j
      OBVIOUS
    <3>2. From(k, i, j) \in 1..n /\ From(i, k, From(k, i, j)) = j
      BY <1>2, <1>5 DEF From
    <3>3. QED
      BY <3>2
  <2>2. \A j \in 1..n : \E a \in 1..n : q[a] = s[j]
    BY <1>3, <2>1, Zenon
  <2>3. \A a \in 1..n : \E j \in 1..n : q[a] = s[j]
    BY <1>3, Zenon
  <2>4. ToSet(q) = {q[a] : a \in 1..n} /\ ToSet(s) = {s[j] : j \in 1..n}
    BY <1>2, <1>4, Zenon DEF ToSet
  <2>5. PICK A, B : A = ToSet(q) /\ B = ToSet(s)
    OBVIOUS
  <2>6. \A x : x \in A <=> \E a \in 1..n : x = q[a]
    BY <2>4, <2>5
  <2>7. \A x : x \in B <=> \E j \in 1..n : x = s[j]
    BY <2>4, <2>5
  <2>8. ASSUME NEW x, x \in A PROVE x \in B
    <3>1. PICK a \in 1..n : x = q[a]
      BY <2>6, <2>8
    <3>2. PICK j \in 1..n : q[a] = s[j]
      BY <2>3
    <3>3. QED
      BY <2>7, <3>1, <3>2
  <2>9. ASSUME NEW x, x \in B PROVE x \in A
    <3>1. PICK j \in 1..n : x = s[j]
      BY <2>7, <2>9
    <3>2. PICK a \in 1..n : q[a] = s[j]
      BY <2>2
    <3>3. QED
      BY <2>6, <3>1, <3>2
  <2>10. A = B
    BY <2>8, <2>9
  <2>11. QED
    BY <2>5, <2>10
<1>14. QED
  BY <1>3, <1>6, <1>12, <1>13 DEF ListOK

\* a tracker that is not there is inserted at the end of its tier
LEMMA InitialSegment ==
  ASSUME NEW n \in Nat, NEW P \in SUBSET (1..n), \A a, b \in 1..n : a < b /\ b \in P => a \in P
  PROVE  /\ Cardinality(P) \in 0..n
         /\ P = 1..Cardinality(P)
<1> DEFINE Rest == {a \in 1..(n + 1) : a \notin P}
<1>1. n + 1 \in Rest /\ Rest \in SUBSET Nat
  OBVIOUS
<1>2. PICK r \in Rest : \A a \in Rest : r <= a
  BY <1>1, LeastNatural
<1>3. r \in 1..(n + 1) /\ r \notin P
  BY <1>2
<1>4. \A a \in 1..n : a < r => a \in P
  BY <1>2, <1>3
<1>5. \A a \in P : a < r
  <2>1. SUFFICES ASSUME NEW a \in P, ~(a < r) PROVE FALSE
    OBVIOUS
  <2>2. a \in 1..n /\ r < a
    BY <1>3, <2>1
  <2>3. r \in 1..n
    BY <1>3, <2>2
  <2>4. QED
    BY <1>3, <2>2, <2>3
<1> HIDE DEF Rest
<1>6. r - 1 \in 0..n /\ \A a \in 1..(r - 1) : a \in 1..n /\ a < r
  BY <1>3
<1>7. \A a \in P : a \in 1..(r - 1)
  BY <1>3, <1>5
<1>8. P = 1..(r - 1)
  BY <1>4, <1>6, <1>7, Zenon
<1>9. Cardinality(1..(r - 1)) = r - 1
  BY <1>6, FS_Interval
<1>10. QED
  BY <1>6, <1>8, <1>9

LEMMA PlaceIs ==
  ASSUME ListOK(order, entry), entry \in [Trackers -> EntryType], NEW tier \in Nat
  PROVE  /\ Place(tier) \in 1..(Len(order) + 1)
         /\ \A j \in 1..Len(order) : entry[order[j]].tier <= tier <=> j < Place(tier)
<1> DEFINE n == Len(order)
           P == {j \in 1..n : entry[order[j]].tier <= tier}
<1>1. order \in Seq(Trackers) /\ Sorted(order, entry)
  BY DEF ListOK
<1>2. n \in Nat /\ DOMAIN order = 1..n /\ \A j \in 1..n : order[j] \in Trackers
  BY <1>1, Elements
<1>3. \A j \in 1..n : entry[order[j]].tier \in Nat
  BY <1>2 DEF EntryType
<1>4. \A a, b \in 1..n : a < b /\ b \in P => a \in P
  <2>1. SUFFICES ASSUME NEW a \in 1..n, NEW b \in 1..n, a < b, entry[order[b]].tier <= tier
                 PROVE  entry[order[a]].tier <= tier
    OBVIOUS
  <2>2. entry[order[a]].tier <= entry[order[b]].tier
    BY <1>1, <1>2, <2>1 DEF Sorted
  <2>3. entry[order[a]].tier \in Nat /\ entry[order[b]].tier \in Nat
    BY <1>3
  <2>4. QED
    BY <2>1, <2>2, <2>3
<1>5. Place(tier) = 1 + Cardinality(P)
  BY <1>2 DEF Place
<1>6. P \in SUBSET (1..n)
  OBVIOUS
<1>7. \A j \in 1..n : j \in P <=> entry[order[j]].tier <= tier
  OBVIOUS
<1> HIDE DEF n, P
<1>8. Cardinality(P) \in 0..n /\ P = 1..Cardinality(P)
  BY <1>2, <1>4, <1>6, InitialSegment
<1>9. PICK c \in 0..n : c = Cardinality(P)
  BY <1>8
<1>10. \A j \in 1..n : j \in P <=> j < 1 + c
  <2>1. P = 1..c
    BY <1>8, <1>9
  <2>2. QED
    BY <1>2, <2>1
<1>11. Place(tier) = 1 + c
  BY <1>5, <1>9
<1>12. \A j \in 1..n : entry[order[j]].tier <= tier <=> j < Place(tier)
  BY <1>7, <1>10, <1>11
<1>13. Place(tier) \in 1..(n + 1)
  BY <1>2, <1>9, <1>11
<1>14. QED
  BY <1>12, <1>13 DEF n

\* q is s with t at k, the end of its tier in the entries fs
Added(s, es, k, t, q, fs) ==
    /\ t \in Trackers /\ t \notin ToSet(s) /\ fs[t].tier \in Nat
    /\ k \in 1..(Len(s) + 1)
    /\ \A j \in 1..Len(s) : es[s[j]].tier <= fs[t].tier <=> j < k
    /\ q \in Seq(Trackers) /\ Len(q) = Len(s) + 1
    /\ \A j \in 1..(Len(s) + 1) : q[j] = IF j < k THEN s[j] ELSE IF j = k THEN t ELSE s[j - 1]
    /\ \A u \in Trackers \ {t} : fs[u] = es[u]

LEMMA InsertedInTier ==
  ASSUME NEW s, NEW es \in [Trackers -> EntryType], ListOK(s, es),
         NEW k, NEW t, NEW q, NEW fs, Added(s, es, k, t, q, fs)
  PROVE  ListOK(q, fs) /\ ToSet(s) \subseteq ToSet(q) /\ t \in ToSet(q)
<1>0. /\ t \in Trackers /\ t \notin ToSet(s) /\ fs[t].tier \in Nat
      /\ k \in 1..(Len(s) + 1)
      /\ \A j \in 1..Len(s) : es[s[j]].tier <= fs[t].tier <=> j < k
      /\ q \in Seq(Trackers) /\ Len(q) = Len(s) + 1
      /\ \A j \in 1..(Len(s) + 1) : q[j] = IF j < k THEN s[j] ELSE IF j = k THEN t ELSE s[j - 1]
      /\ \A u \in Trackers \ {t} : fs[u] = es[u]
  BY Zenon DEF Added
<1>a. PICK tier \in Nat : tier = fs[t].tier
  BY <1>0
<1> DEFINE n == Len(s)
<1>1. s \in Seq(Trackers) /\ Sorted(s, es) /\ IsInjective(s)
  BY DEF ListOK
<1>2. /\ n \in Nat /\ DOMAIN s = 1..n
      /\ \A j \in 1..n : s[j] \in Trackers /\ s[j] \in ToSet(s)
      /\ \A u \in ToSet(s) : \E j \in 1..n : s[j] = u
  BY <1>1, Elements
<1>3. DOMAIN q = 1..(n + 1) /\ \A j \in 1..(n + 1) : q[j] \in ToSet(q)
  BY <1>0, Elements
<1>4. k \in 1..(n + 1)
  BY <1>0
<1>5. /\ \A j \in 1..n : es[s[j]].tier <= tier <=> j < k
      /\ \A j \in 1..(n + 1) : q[j] = IF j < k THEN s[j] ELSE IF j = k THEN t ELSE s[j - 1]
  BY <1>0, <1>a
<1> HIDE DEF n
<1>6. \A j \in 1..n : s[j] # t /\ fs[s[j]] = es[s[j]] /\ es[s[j]].tier \in Nat
  BY <1>0, <1>2 DEF EntryType
<1>7. \A j \in 1..(n + 1) :
         /\ j < k => j \in 1..n
         /\ j > k => j - 1 \in 1..n /\ j - 1 >= k
         /\ j < k \/ j = k \/ j > k
  BY <1>2, <1>4
<1>8. \A a, b \in 1..n : s[a] = s[b] => a = b
  BY <1>1, <1>2, Zenon DEF IsInjective
<1>9. \A a, b \in 1..n : a < b => es[s[a]].tier <= es[s[b]].tier
  BY <1>1, <1>2, Zenon DEF Sorted
<1>10. ASSUME NEW a \in 1..(n + 1), NEW b \in 1..(n + 1), a < b
       PROVE  fs[q[a]].tier <= fs[q[b]].tier /\ q[a] # q[b]
  <2>1. CASE b < k
    <3>1. a < k /\ a \in 1..n /\ b \in 1..n
      BY <1>4, <1>7, <1>10, <2>1
    <3>2. q[a] = s[a] /\ q[b] = s[b] /\ a # b
      BY <1>5, <1>10, <2>1, <3>1
    <3>3. QED
      BY <1>6, <1>8, <1>9, <1>10, <3>1, <3>2
  <2>2. CASE b = k
    <3>1. a < k /\ a \in 1..n
      BY <1>4, <1>7, <1>10, <2>2
    <3>2. q[a] = s[a] /\ q[b] = t
      BY <1>4, <1>5, <2>2, <3>1
    <3>3. es[s[a]].tier <= tier
      BY <1>5, <3>1
    <3>4. fs[s[a]] = es[s[a]] /\ s[a] # t
      BY <1>6, <3>1
    <3>5. QED
      BY <1>a, <3>2, <3>3, <3>4
  <2>3. CASE b > k /\ a > k
    <3>1. a - 1 \in 1..n /\ b - 1 \in 1..n /\ a - 1 < b - 1 /\ ~(a < k) /\ a # k /\ ~(b < k) /\ b # k
      BY <1>4, <1>7, <1>10, <2>3
    <3>2. q[a] = s[a - 1] /\ q[b] = s[b - 1]
      BY <1>5, <3>1
    <3>3. es[s[a - 1]].tier <= es[s[b - 1]].tier /\ a - 1 # b - 1
      BY <1>9, <3>1
    <3>4. s[a - 1] # s[b - 1]
      BY <1>8, <3>1, <3>3
    <3>5. QED
      BY <1>6, <3>1, <3>2, <3>3, <3>4
  <2>4. CASE b > k /\ a = k
    <3>1. b - 1 \in 1..n /\ ~(b - 1 < k) /\ ~(b < k) /\ b # k /\ ~(a < k)
      BY <1>4, <1>7, <1>10, <2>4
    <3>2. q[a] = t /\ q[b] = s[b - 1]
      BY <1>5, <2>4, <3>1
    <3>3. ~(es[s[b - 1]].tier <= tier) /\ es[s[b - 1]].tier \in Nat
      BY <1>5, <1>6, <3>1
    <3>4. fs[s[b - 1]] = es[s[b - 1]] /\ s[b - 1] # t
      BY <1>6, <3>1
    <3>5. QED
      BY <1>a, <3>2, <3>3, <3>4
  <2>5. CASE b > k /\ a < k
    <3>1. a \in 1..n /\ b - 1 \in 1..n /\ a < b - 1 /\ ~(b < k) /\ b # k
      BY <1>4, <1>7, <1>10, <2>5
    <3>2. q[a] = s[a] /\ q[b] = s[b - 1]
      BY <1>5, <2>5, <3>1
    <3>3. es[s[a]].tier <= es[s[b - 1]].tier /\ a # b - 1
      BY <1>9, <3>1
    <3>4. s[a] # s[b - 1]
      BY <1>8, <3>1, <3>3
    <3>5. QED
      BY <1>6, <3>1, <3>2, <3>3, <3>4
  <2>6. QED
    BY <1>2, <1>4, <2>1, <2>2, <2>3, <2>4, <2>5
<1>11. Sorted(q, fs)
  BY <1>3, <1>10 DEF Sorted
<1>12. IsInjective(q)
  <2>1. SUFFICES ASSUME NEW a \in 1..(n + 1), NEW b \in 1..(n + 1), q[a] = q[b], a # b PROVE FALSE
    BY <1>3 DEF IsInjective
  <2>2. a < b \/ b < a
    BY <1>2, <2>1
  <2>3. QED
    BY <1>10, <2>1, <2>2
<1>13. t \in ToSet(q)
  <2>1. q[k] = t
    BY <1>4, <1>5
  <2>2. QED
    BY <1>3, <1>4, <2>1
<1>14. ASSUME NEW u \in ToSet(s) PROVE u \in ToSet(q)
  <2>1. PICK j \in 1..n : s[j] = u
    BY <1>2
  <2>2. CASE j < k
    <3>1. j \in 1..(n + 1) /\ q[j] = u
      BY <1>2, <1>5, <2>1, <2>2
    <3>2. QED
      BY <1>3, <3>1
  <2>3. CASE ~(j < k)
    <3>1. j + 1 \in 1..(n + 1) /\ ~(j + 1 < k) /\ j + 1 # k /\ j + 1 - 1 = j
      BY <1>2, <1>4, <2>3
    <3>2. q[j + 1] = u
      BY <1>5, <2>1, <3>1
    <3>3. QED
      BY <1>3, <3>1, <3>2
  <2>4. QED
    BY <2>2, <2>3
<1>15. QED
  BY <1>0, <1>11, <1>12, <1>13, <1>14 DEF ListOK

\* m_last_working_tracker goes along when a tracker moves back
LEMMA WorkingFollows ==
  ASSUME NEW s \in Seq(Trackers), NEW i \in 1..Len(s), NEW k \in 1..Len(s), i <= k,
         lastWorking \in 0..Len(s), NEW q, Moved(s, i, k, q)
  PROVE  /\ Shifted(i, k) \in 0..Len(s)
         /\ Shifted(i, k) = NoTracker <=> lastWorking = NoTracker
         /\ lastWorking # NoTracker => q[Shifted(i, k)] = s[lastWorking]
<1>1. PICK lw : lw = lastWorking
  OBVIOUS
<1>2. PICK sh : sh = Shifted(i, k)
  OBVIOUS
<1>3. sh = IF lw = i THEN k ELSE IF lw \in (i + 1)..k THEN lw - 1 ELSE lw
  BY <1>1, <1>2 DEF Shifted
<1>4. PICK n : n = Len(s)
  OBVIOUS
<1>5. n \in Nat /\ lw \in 0..n /\ i \in 1..n /\ k \in 1..n /\ i <= k
  BY <1>1, <1>4, Elements
<1>6. sh \in 0..n /\ (sh = 0 <=> lw = 0)
  BY <1>3, <1>5
<1>7. lw # 0 => sh \in 1..n /\ From(i, k, sh) = lw
  BY <1>3, <1>5 DEF From
<1>8. lw # 0 => q[sh] = s[lw]
  BY <1>4, <1>7 DEF Moved
<1>9. QED
  BY <1>1, <1>2, <1>4, <1>6, <1>8 DEF NoTracker

----------------------------------------------------------------------------
(* The requests                                                                   *)

Exact(es, rs) == \A t \in Trackers : Len(rs[t]) = IF es[t].updating THEN 1 ELSE 0
Asks(s, es, rs) ==
    /\ es \in [Trackers -> EntryType] /\ rs \in [Trackers -> Seq(Events)]
    /\ Exact(es, rs)
    /\ \A t \in Trackers : es[t].updating => t \in ToSet(s)

LEMMA BeforeIn ==
  ASSUME NEW s \in Seq(Trackers), NEW t \in ToSet(s)
  PROVE  Before(s, t) \subseteq ToSet(s)
<1>1. PICK i \in 1..Len(s) : s[i] = t
  BY Elements
<1>2. DOMAIN s = 1..Len(s) /\ Len(s) \in Nat
  BY Elements
<1>3. Index(s, t) \in 1..Len(s)
  BY <1>1, <1>2 DEF Index
<1>4. \A j \in 1..(Index(s, t) - 1) : j \in 1..Len(s)
  BY <1>2, <1>3
<1>5. \A j \in 1..Len(s) : s[j] \in ToSet(s)
  BY Elements
<1>6. QED
  BY <1>4, <1>5 DEF Before

\* what announcing does to the entries and the requests
LEMMA RequestsDo ==
  ASSUME NEW s \in Seq(Trackers), order' = s, NEW es, NEW rs, NEW e \in Events, Asks(s, es, rs),
         Requests(es, rs, e)
  PROVE  \E A \in SUBSET ToSet(s) :
           /\ \A t \in A : CanAnnounce(t, es[t])
           /\ entry' = [t \in Trackers |->
                IF t \in A THEN [es[t] EXCEPT !.updating = TRUE, !.next = Retry, !.min = MinRetry]
                           ELSE es[t]]
           /\ \E told \in [Trackers -> Events] :
                requests' = [t \in Trackers |-> IF t \in A THEN Append(rs[t], told[t]) ELSE rs[t]]
           /\ ~Returns(Event(e)) => A = Asked(s, es)
<1>1. es \in [Trackers -> EntryType] /\ rs \in [Trackers -> Seq(Events)]
  BY DEF Asks
<1>2. PICK told : told = [t \in Trackers |-> EventFor(es[t], Event(e))]
  OBVIOUS
<1>3. told \in [Trackers -> Events]
  <2>1. Event(e) \in Events
    BY DEF Event, Events
  <2>2. \A t \in Trackers : EventFor(es[t], Event(e)) \in Events
    BY <2>1 DEF EventFor, Events
  <2>3. QED
    BY <1>2, <2>2
<1>4. CASE Returns(Event(e))
  <2>1. entry' = es /\ requests' = rs
    BY <1>4 DEF Requests
  <2>2. entry' = [t \in Trackers |-> es[t]] /\ requests' = [t \in Trackers |-> rs[t]]
    BY <1>1, <2>1
  <2>3. PICK A : A = {}
    OBVIOUS
  <2>4. /\ A \in SUBSET ToSet(s) /\ \A t \in A : CanAnnounce(t, es[t])
        /\ entry' = [t \in Trackers |->
             IF t \in A THEN [es[t] EXCEPT !.updating = TRUE, !.next = Retry, !.min = MinRetry]
                        ELSE es[t]]
        /\ requests' = [t \in Trackers |-> IF t \in A THEN Append(rs[t], told[t]) ELSE rs[t]]
    BY <2>2, <2>3
  <2>5. QED
    BY <1>3, <1>4, <2>4, Zenon
<1>5. CASE ~Returns(Event(e))
  <2>1. PICK A : A = Asked(s, es)
    OBVIOUS
  <2>2. A \in SUBSET ToSet(s) /\ \A t \in A : CanAnnounce(t, es[t])
    BY <2>1 DEF Asked
  <2>3. /\ entry' = [t \in Trackers |->
             IF t \in A THEN [es[t] EXCEPT !.updating = TRUE, !.next = Retry, !.min = MinRetry]
                        ELSE es[t]]
        /\ requests' = [t \in Trackers |->
             IF t \in A THEN Append(rs[t], EventFor(es[t], Event(e))) ELSE rs[t]]
    BY <1>5, <2>1, Zenon DEF Requests
  <2>4. requests' = [t \in Trackers |-> IF t \in A THEN Append(rs[t], told[t]) ELSE rs[t]]
    BY <1>2, <2>3
  <2>5. QED
    BY <1>3, <2>1, <2>2, <2>3, <2>4
<1>6. QED
  BY <1>4, <1>5

LEMMA RequestsOK ==
  ASSUME NEW s \in Seq(Trackers), order' = s, NEW es, NEW rs, NEW e \in Events, Asks(s, es, rs),
         Requests(es, rs, e)
  PROVE  /\ Asks(s, entry', requests')
         /\ \A t \in Trackers : entry'[t].fails = es[t].fails /\ entry'[t].tier = es[t].tier
<1>1. PICK A \in SUBSET ToSet(s) :
           /\ \A t \in A : CanAnnounce(t, es[t])
           /\ entry' = [t \in Trackers |->
                IF t \in A THEN [es[t] EXCEPT !.updating = TRUE, !.next = Retry, !.min = MinRetry]
                           ELSE es[t]]
           /\ \E told \in [Trackers -> Events] :
                requests' = [t \in Trackers |-> IF t \in A THEN Append(rs[t], told[t]) ELSE rs[t]]
           /\ ~Returns(Event(e)) => A = Asked(s, es)
  BY RequestsDo, Zenon
<1>2. PICK told \in [Trackers -> Events] :
           requests' = [t \in Trackers |-> IF t \in A THEN Append(rs[t], told[t]) ELSE rs[t]]
  BY <1>1
<1>3. es \in [Trackers -> EntryType] /\ rs \in [Trackers -> Seq(Events)] /\ Exact(es, rs)
      /\ \A t \in Trackers : es[t].updating => t \in ToSet(s)
  BY DEF Asks
<1>4. \A t \in Trackers :
         entry'[t] = IF t \in A
                       THEN [es[t] EXCEPT !.updating = TRUE, !.next = Retry, !.min = MinRetry]
                       ELSE es[t]
  BY <1>1
<1>5. ASSUME NEW t \in Trackers
      PROVE  /\ [es[t] EXCEPT !.updating = TRUE, !.next = Retry, !.min = MinRetry] \in EntryType
             /\ [es[t] EXCEPT !.updating = TRUE, !.next = Retry, !.min = MinRetry].updating
             /\ [es[t] EXCEPT !.updating = TRUE, !.next = Retry, !.min = MinRetry].fails
                  = es[t].fails
             /\ [es[t] EXCEPT !.updating = TRUE, !.next = Retry, !.min = MinRetry].tier = es[t].tier
  <2>1. es[t] \in EntryType
    BY <1>3
  <2>2. QED
    BY <2>1, TimesAssumption DEF EntryType
<1>6. \A t \in Trackers : entry'[t].fails = es[t].fails /\ entry'[t].tier = es[t].tier
  BY <1>4, <1>5
<1>7. entry' \in [Trackers -> EntryType]
  BY <1>1, <1>3, <1>5
<1>8. requests' \in [Trackers -> Seq(Events)]
  <2>1. \A t \in Trackers : Append(rs[t], told[t]) \in Seq(Events) /\ rs[t] \in Seq(Events)
    BY <1>3, AppendProperties
  <2>2. QED
    BY <1>2, <2>1
<1>9. \A t \in Trackers : entry'[t].updating => t \in ToSet(s)
  BY <1>3, <1>4
<1>10. ASSUME NEW t \in Trackers
       PROVE  Len(requests'[t]) = IF entry'[t].updating THEN 1 ELSE 0
  <2>1. requests'[t] = IF t \in A THEN Append(rs[t], told[t]) ELSE rs[t]
    BY <1>2
  <2>2. Len(rs[t]) = IF es[t].updating THEN 1 ELSE 0
    BY <1>3 DEF Exact
  <2>3. CASE t \in A
    <3>1. ~es[t].updating
      BY <1>1, <2>3 DEF CanAnnounce
    <3>2. rs[t] \in Seq(Events) /\ told[t] \in Events
      BY <1>3
    <3>3. Len(Append(rs[t], told[t])) = Len(rs[t]) + 1
      BY <3>2, AppendProperties
    <3>4. entry'[t].updating
      BY <1>4, <1>5, <2>3
    <3>5. QED
      BY <2>1, <2>2, <2>3, <3>1, <3>3, <3>4
  <2>4. CASE t \notin A
    BY <1>4, <2>1, <2>2, <2>4
  <2>5. QED
    BY <2>3, <2>4
<1>11. QED
  BY <1>6, <1>7, <1>8, <1>9, <1>10 DEF Asks, Exact

\* what update_tracker_timer() then waits for is not due
LEMMA AwaitedNotDue ==
  ASSUME NEW s \in Seq(Trackers), order' = s, NEW es, NEW rs, NEW e \in Events, Asks(s, es, rs),
         Requests(es, rs, e), ~Returns(Event(e)), NEW t \in Awaited(s, entry')
  PROVE  entry'[t] = es[t] /\ ~(es[t].next = 0 /\ es[t].min = 0)
<1>1. PICK A \in SUBSET ToSet(s) :
           /\ \A u \in A : CanAnnounce(u, es[u])
           /\ entry' = [u \in Trackers |->
                IF u \in A THEN [es[u] EXCEPT !.updating = TRUE, !.next = Retry, !.min = MinRetry]
                           ELSE es[u]]
           /\ A = Asked(s, es)
  BY RequestsDo
<1>2. \A u \in Trackers : entry'[u].fails = es[u].fails
  BY RequestsOK
<1>3. es \in [Trackers -> EntryType]
  BY DEF Asks
<1>4. /\ t \in ToSet(s) /\ ~Dead(t, entry'[t]) /\ ~entry'[t].updating
      /\ \A u \in Before(s, t) : ~Working(entry'[u])
  BY DEF Awaited
<1>5. ToSet(s) \subseteq Trackers /\ Before(s, t) \subseteq ToSet(s)
  BY <1>4, Elements, BeforeIn
<1>6. t \in Trackers /\ es[t] \in EntryType
  BY <1>3, <1>4, <1>5
<1>7. t \notin A
  <2>1. SUFFICES ASSUME t \in A PROVE FALSE
    OBVIOUS
  <2>2. entry'[t] = [es[t] EXCEPT !.updating = TRUE, !.next = Retry, !.min = MinRetry]
    BY <1>1, <1>6, <2>1
  <2>3. entry'[t].updating = TRUE
    BY <1>6, <2>2 DEF EntryType
  <2>4. QED
    BY <1>4, <2>3
<1>8. entry'[t] = es[t]
  BY <1>1, <1>6, <1>7
<1>9. ASSUME es[t].next = 0, es[t].min = 0 PROVE FALSE
  <2>1. CanAnnounce(t, es[t])
    BY <1>4, <1>8, <1>9 DEF CanAnnounce
  <2>2. \A u \in Before(s, t) : ~Working(es[u])
    BY <1>2, <1>4, <1>5 DEF Working
  <2>3. t \in Asked(s, es)
    BY <1>4, <2>1, <2>2, Zenon DEF Asked
  <2>4. QED
    BY <1>1, <1>7, <2>3
<1>10. QED
  BY <1>8, <1>9

LEMMA NotDue ==
  ASSUME NEW s \in Seq(Trackers), order' = s, NEW es, NEW rs, NEW e \in Events, Asks(s, es, rs),
         Requests(es, rs, e), ~Returns(Event(e))
  PROVE  NextAnnounce(s, entry') # 0
<1>1. PICK fs : fs = entry'
  OBVIOUS
<1>2. es \in [Trackers -> EntryType] /\ fs \in [Trackers -> EntryType]
  BY <1>1, RequestsOK DEF Asks
<1>3. \A t \in Awaited(s, fs) : fs[t] = es[t] /\ ~(es[t].next = 0 /\ es[t].min = 0)
  BY <1>1, AwaitedNotDue
<1>4. /\ Awaited(s, fs) \subseteq Trackers
      /\ Awaited(s, fs) = {} => NextAnnounce(s, fs) = Never
      /\ Awaited(s, fs) # {} => \E t \in Awaited(s, fs) : NextAnnounce(s, fs) = Later(fs[t])
  BY <1>2, NextIs
<1>5. ASSUME NEW t \in Awaited(s, fs) PROVE Later(fs[t]) # 0
  <2>1. fs[t] \in EntryType
    BY <1>2, <1>4
  <2>2. /\ fs[t].next \in Nat /\ fs[t].min \in Nat
        /\ Later(fs[t]) = IF fs[t].next >= fs[t].min THEN fs[t].next ELSE fs[t].min
    BY <2>1, LaterIs
  <2>3. ~(fs[t].next = 0 /\ fs[t].min = 0)
    BY <1>3
  <2>4. QED
    BY <2>2, <2>3
<1>6. NextAnnounce(s, fs) # 0
  BY <1>4, <1>5 DEF Never
<1>7. QED
  BY <1>1, <1>6

\* when all were due, it waits for answers only
LEMMA NoneLeft ==
  ASSUME NEW s \in Seq(Trackers), order' = s, NEW es, NEW rs, NEW e \in Events, Asks(s, es, rs),
         Requests(es, rs, e), ~Returns(Event(e)),
         \A t \in ToSet(s) : es[t].next = 0 /\ es[t].min = 0
  PROVE  NextAnnounce(s, entry') = Never
<1>1. PICK fs : fs = entry'
  OBVIOUS
<1>2. fs \in [Trackers -> EntryType]
  BY <1>1, RequestsOK DEF Asks
<1>3. \A t \in Awaited(s, fs) : ~(es[t].next = 0 /\ es[t].min = 0)
  BY <1>1, AwaitedNotDue
<1>4. Awaited(s, fs) \subseteq ToSet(s)
  BY DEF Awaited
<1>5. Awaited(s, fs) = {}
  BY <1>3, <1>4
<1>6. QED
  BY <1>1, <1>2, <1>5, NextIs

\* time passes for the next announce as it does for the entries
LEMMA LaterTick ==
  ASSUME NEW x \in EntryType, NEW y, y = [x EXCEPT !.next = Less(@), !.min = Less(@)]
  PROVE  /\ y \in EntryType /\ Later(y) = Less(Later(x))
         /\ y.fails = x.fails /\ y.updating = x.updating /\ y.tier = x.tier
<1>1. /\ y.next = Less(x.next) /\ y.min = Less(x.min)
      /\ y.fails = x.fails /\ y.updating = x.updating /\ y.tier = x.tier
  BY DEF EntryType
<1>2. x.next \in Nat /\ x.min \in Nat
      /\ Later(x) = IF x.next >= x.min THEN x.next ELSE x.min
  BY LaterIs
<1>3. Less(x.next) \in Nat /\ Less(x.min) \in Nat
  BY <1>2 DEF Less
<1>4. y \in EntryType
  BY <1>3 DEF EntryType
<1>5. Later(y) = IF y.next >= y.min THEN y.next ELSE y.min
  BY <1>4, LaterIs
<1>6. PICK a \in Nat, b \in Nat : a = x.next /\ b = x.min
  BY <1>2
<1>7. Later(y) = IF Less(a) >= Less(b) THEN Less(a) ELSE Less(b)
  BY <1>1, <1>5, <1>6
<1>8. Less(Later(x)) = Less(IF a >= b THEN a ELSE b)
  BY <1>2, <1>6
<1>9. Later(y) = Less(Later(x))
  BY <1>7, <1>8 DEF Less
<1>10. QED
  BY <1>1, <1>4, <1>9

LEMMA LessNever == Less(Never) = Never
  BY DEF Less, Never

LEMMA LessLeast ==
  ASSUME NEW m \in Nat, NEW n \in Nat, NEW k \in Nat, m <= Less(n), m = Less(k), n <= k
  PROVE  m = Less(n)
<1>1. Less(n) = (IF n > 0 THEN n - 1 ELSE n) /\ Less(k) = IF k > 0 THEN k - 1 ELSE k
  BY DEF Less
<1>2. QED
  BY <1>1

Ticked(es) == [t \in Trackers |-> [es[t] EXCEPT !.next = Less(@), !.min = Less(@)]]

LEMMA NextTick ==
  ASSUME NEW s \in Seq(Trackers), NEW es \in [Trackers -> EntryType], NEW fs, fs = Ticked(es)
  PROVE  /\ fs \in [Trackers -> EntryType]
         /\ NextAnnounce(s, fs) = Less(NextAnnounce(s, es))
         /\ \A t \in Trackers : /\ fs[t].fails = es[t].fails /\ fs[t].tier = es[t].tier
                                /\ fs[t].updating = es[t].updating
<1>1. \A t \in Trackers :
         /\ fs[t] \in EntryType /\ Later(fs[t]) = Less(Later(es[t]))
         /\ fs[t].fails = es[t].fails /\ fs[t].updating = es[t].updating
         /\ fs[t].tier = es[t].tier
  BY LaterTick DEF Ticked
<1>2. fs \in [Trackers -> EntryType]
  BY <1>1 DEF Ticked
<1>3. /\ ToSet(s) \subseteq Trackers
      /\ \A t \in ToSet(s) : Before(s, t) \subseteq ToSet(s)
  BY Elements, BeforeIn
<1>4. Awaited(s, fs) = Awaited(s, es)
  <2>1. \A t \in ToSet(s) :
           (~Dead(t, fs[t]) /\ ~fs[t].updating) <=> (~Dead(t, es[t]) /\ ~es[t].updating)
    BY <1>1, <1>3 DEF Dead
  <2>2. \A t \in ToSet(s) : \A u \in Before(s, t) :
           (~Working(fs[u]) /\ (Dead(u, fs[u]) \/ ~fs[u].updating))
             <=> (~Working(es[u]) /\ (Dead(u, es[u]) \/ ~es[u].updating))
    BY <1>1, <1>3 DEF Dead, Working
  <2>3. ASSUME NEW t PROVE t \in Awaited(s, fs) <=> t \in Awaited(s, es)
    <3>1. t \in Awaited(s, fs) => t \in Awaited(s, es)
      <4>1. HAVE t \in Awaited(s, fs)
      <4>2. /\ t \in ToSet(s) /\ ~Dead(t, fs[t]) /\ ~fs[t].updating
            /\ \A u \in Before(s, t) : ~Working(fs[u]) /\ (Dead(u, fs[u]) \/ ~fs[u].updating)
        BY <4>1 DEF Awaited
      <4>3. /\ t \in ToSet(s) /\ ~Dead(t, es[t]) /\ ~es[t].updating
            /\ \A u \in Before(s, t) : ~Working(es[u]) /\ (Dead(u, es[u]) \/ ~es[u].updating)
        BY <2>1, <2>2, <4>2, Zenon
      <4>4. QED
        BY <4>3, Zenon DEF Awaited
    <3>2. t \in Awaited(s, es) => t \in Awaited(s, fs)
      <4>1. HAVE t \in Awaited(s, es)
      <4>2. /\ t \in ToSet(s) /\ ~Dead(t, es[t]) /\ ~es[t].updating
            /\ \A u \in Before(s, t) : ~Working(es[u]) /\ (Dead(u, es[u]) \/ ~es[u].updating)
        BY <4>1 DEF Awaited
      <4>3. /\ t \in ToSet(s) /\ ~Dead(t, fs[t]) /\ ~fs[t].updating
            /\ \A u \in Before(s, t) : ~Working(fs[u]) /\ (Dead(u, fs[u]) \/ ~fs[u].updating)
        BY <2>1, <2>2, <4>2, Zenon
      <4>4. QED
        BY <4>3, Zenon DEF Awaited
    <3>3. QED
      BY <3>1, <3>2
  <2>4. PICK A, B : A = Awaited(s, fs) /\ B = Awaited(s, es)
    OBVIOUS
  <2>5. \A t : t \in A <=> t \in B
    BY <2>3, <2>4
  <2>6. A = B
    BY <2>5
  <2>7. QED
    BY <2>4, <2>6
<1>5. PICK W : W = Awaited(s, es)
  OBVIOUS
<1>6. PICK m, n : m = NextAnnounce(s, fs) /\ n = NextAnnounce(s, es)
  OBVIOUS
<1>7. /\ W \subseteq Trackers
      /\ W = {} => n = Never
      /\ W # {} => n \in Nat /\ (\E t \in W : n = Later(es[t])) /\ \A t \in W : n <= Later(es[t])
  BY <1>5, <1>6, NextIs
<1>8. /\ W = {} => m = Never
      /\ W # {} => m \in Nat /\ (\E t \in W : m = Later(fs[t])) /\ \A t \in W : m <= Later(fs[t])
  BY <1>2, <1>4, <1>5, <1>6, NextIs
<1>9. ASSUME W = {} PROVE m = Less(n)
  <2>1. m = Never /\ n = Never
    BY <1>7, <1>8, <1>9, Zenon
  <2>2. Less(Never) = Never
    BY LessNever
  <2>3. QED
    BY <2>1, <2>2, Zenon
<1>10. ASSUME W # {} PROVE m = Less(n)
  <2>1. PICK t \in W : n = Later(es[t])
    BY <1>7, <1>10
  <2>2. PICK u \in W : m = Later(fs[u])
    BY <1>8, <1>10
  <2>3. m <= Less(n)
    BY <1>1, <1>7, <1>8, <1>10, <2>1
  <2>4. m = Less(Later(es[u])) /\ n <= Later(es[u]) /\ Later(es[u]) \in Nat
    <3>1. es[u] \in EntryType
      BY <1>7
    <3>2. QED
      BY <1>1, <1>7, <1>10, <2>2, <3>1, LaterIs
  <2>5. n \in Nat /\ m \in Nat
    BY <1>7, <1>8, <1>10
  <2>6. PICK k \in Nat : k = Later(es[u])
    BY <2>4
  <2>7. m <= Less(n) /\ m = Less(k) /\ n <= k
    BY <2>3, <2>4, <2>6
  <2>8. QED
    BY <2>5, <2>6, <2>7, LessLeast
<1>11. NextAnnounce(s, fs) = Less(NextAnnounce(s, es))
  BY <1>6, <1>9, <1>10
<1>12. QED
  BY <1>1, <1>2, <1>11

----------------------------------------------------------------------------
(* The inductive invariant                                                        *)

Names(s, lw, w, sl) ==
    /\ lw \in 0..Len(s) /\ w \in Trackers \union {NoTracker} /\ sl \in BOOLEAN
    /\ lw # NoTracker => s[lw] = w \/ sl

SwitchOK ==
    /\ allowPeers \in BOOLEAN /\ graceful \in BOOLEAN /\ announceTo \in BOOLEAN
    /\ announcing \in BOOLEAN /\ checked \in BOOLEAN /\ aborted \in BOOLEAN
    /\ progress \in {"downloading", "finished", "seeding"}
    /\ announcing => allowPeers /\ ~graceful /\ ~aborted /\ checked

\* What the timer says of the next announce n: it has its time, or its time has come and
\* n is now.  The handler that runs then asks who is due.
Clock(on, lost, x, p, q, n) ==
    /\ ~on => ~p
    /\ on /\ ~lost =>
         \/ x = n /\ (p \/ n = Never)
         \/ x = Past /\ p /\ n = 0
         \/ q > 0 /\ x \in {0, Past} /\ n = 0

TimerOK ==
    /\ expires \in {Past, Never} \union Nat /\ pending \in BOOLEAN /\ posted \in Nat
    /\ missed \in BOOLEAN /\ calls \in 0..MaxCalls
    /\ Clock(announcing, missed, expires, pending, posted, NextAnnounce(order, entry))

IInv ==
    /\ ListOK(order, entry)
    /\ Asks(order, entry, requests)
    /\ Names(order, lastWorking, worked, slipped)
    /\ SwitchOK
    /\ TimerOK

LEMMA Initially == Init => IInv
<1> SUFFICES ASSUME Init PROVE IInv
  OBVIOUS
<1>1. \A t \in Trackers : /\ Fresh(Tier[t]) \in EntryType /\ ~Fresh(Tier[t]).updating
                          /\ Fresh(Tier[t]).tier = Tier[t]
  BY OwnAssumption, FailAssumption DEF Fresh, EntryType
<1>2. entry = [t \in Trackers |-> Fresh(Tier[t])] /\ order = Own
  BY DEF Init
<1>3. entry \in [Trackers -> EntryType]
      /\ \A t \in Trackers : ~entry[t].updating /\ entry[t].tier = Tier[t]
  BY <1>1, <1>2
<1>4. order \in Seq(Trackers) /\ \A i \in DOMAIN order : order[i] \in Trackers
  BY <1>2, OwnAssumption, Elements
<1>5. ListOK(order, entry)
  <2>1. \A i, j \in DOMAIN order : i < j => Tier[order[i]] <= Tier[order[j]]
    BY <1>2, OwnAssumption
  <2>2. IsInjective(order)
    BY <1>2, OwnAssumption
  <2>3. Sorted(order, entry)
    BY <1>3, <1>4, <2>1 DEF Sorted
  <2>4. QED
    BY <1>4, <2>2, <2>3 DEF ListOK
<1>6. Asks(order, entry, requests)
  <2>1. requests = [t \in Trackers |-> <<>>]
    BY DEF Init
  <2>2. requests \in [Trackers -> Seq(Events)] /\ \A t \in Trackers : Len(requests[t]) = 0
    BY <2>1
  <2>3. QED
    BY <1>3, <2>2 DEF Asks, Exact
<1>7. Names(order, lastWorking, worked, slipped)
  <2>1. Len(order) \in Nat
    BY <1>4, Elements
  <2>2. lastWorking = NoTracker /\ worked = NoTracker /\ slipped = FALSE
    BY Zenon DEF Init
  <2>3. lastWorking \in 0..Len(order)
    BY <2>1, <2>2 DEF NoTracker
  <2>4. QED
    BY <2>2, <2>3, Zenon DEF Names
<1>8. SwitchOK
  BY Zenon DEF Init, SwitchOK
<1>9. TimerOK
  <2>1. Clock(announcing, missed, expires, pending, posted, NextAnnounce(order, entry))
    BY Zenon DEF Init, Clock
  <2>2. calls \in 0..MaxCalls /\ posted \in Nat
    BY TimesAssumption DEF Init
  <2>3. expires \in {Past, Never} \union Nat /\ pending \in BOOLEAN /\ missed \in BOOLEAN
    BY Zenon DEF Init
  <2>4. QED
    BY <2>1, <2>2, <2>3, Zenon DEF TimerOK
<1>10. QED
  BY <1>5, <1>6, <1>7, <1>8, <1>9, Zenon DEF IInv

----------------------------------------------------------------------------
(* The timer                                                                      *)

LEMMA NextType ==
  ASSUME NEW s \in Seq(Trackers), NEW es \in [Trackers -> EntryType]
  PROVE  NextAnnounce(s, es) \in Nat \union {Never}
  BY NextIs

\* update_tracker_timer() leaves the timer as it should be, whatever the next announce is now
LEMMA TimerUpdated ==
  ASSUME TimerOK, SwitchOK, UpdateTimer, announcing' = announcing, posted' = posted,
         calls' \in 0..MaxCalls, NEW m, m = NextAnnounce(order', entry'),
         m \in Nat \union {Never}
  PROVE  TimerOK'
<1>1. PICK n : n = NextAnnounce(order, entry)
  OBVIOUS
<1>2. /\ expires \in {Past, Never} \union Nat /\ pending \in BOOLEAN /\ posted \in Nat
      /\ missed \in BOOLEAN /\ Clock(announcing, missed, expires, pending, posted, n)
  BY <1>1, Zenon DEF TimerOK
<1>3. /\ announcing => \/ expires = m /\ expires' = expires /\ pending' = pending /\ missed' = missed
                       \/ expires' = m /\ pending' = TRUE /\ missed' = FALSE
      /\ ~announcing => expires' = expires /\ pending' = pending /\ missed' = missed
  BY Zenon DEF UpdateTimer, SameTime, SetTimer
<1>4. CASE ~announcing
  <2>3. ~pending
    BY <1>2, <1>4, Zenon DEF Clock
  <2>4. ~pending'
    BY <1>3, <1>4, <2>3, Zenon
  <2>1. Clock(announcing, missed', expires', pending', posted, m)
    BY <1>4, <2>4, Zenon DEF Clock
  <2>2. QED
    BY <1>2, <1>3, <1>4, <2>1, Zenon DEF TimerOK
<1>5. CASE announcing /\ expires' = m /\ pending' = TRUE /\ missed' = FALSE
  <2>1. Clock(announcing, missed', expires', pending', posted, m)
    BY <1>5, Zenon DEF Clock
  <2>2. expires' \in {Past, Never} \union Nat /\ pending' \in BOOLEAN /\ missed' \in BOOLEAN
    BY <1>5, Zenon
  <2>3. QED
    BY <1>2, <2>1, <2>2, Zenon DEF TimerOK
<1>6. CASE announcing /\ expires = m /\ expires' = expires /\ pending' = pending /\ missed' = missed
  <2>1. m # Past
    BY DEF Past, Never
  <2>2. expires \in {0, Past} => m = 0
    BY <1>6, <2>1
  <2>3. Clock(announcing, missed', expires', pending', posted, m)
    BY <1>2, <1>6, <2>1, <2>2, Zenon DEF Clock
  <2>4. QED
    BY <1>2, <1>6, <2>3, Zenon DEF TimerOK
<1>7. QED
  BY <1>3, <1>4, <1>5, <1>6, Zenon

LEMMA TimerSet ==
  ASSUME TimerOK, SetTimer, announcing, announcing' = announcing, posted' = posted,
         calls' \in 0..MaxCalls, NextAnnounce(order', entry') \in Nat \union {Never}
  PROVE  TimerOK'
<1>1. PICK m : m = NextAnnounce(order', entry')
  OBVIOUS
<1>2. expires' = m /\ pending' = TRUE /\ missed' = FALSE
  BY <1>1, Zenon DEF SetTimer
<1>3. Clock(announcing, missed', expires', pending', posted, m)
  BY <1>2, Zenon DEF Clock
<1>4. expires' \in {Past, Never} \union Nat /\ pending' \in BOOLEAN /\ missed' \in BOOLEAN
  BY <1>1, <1>2, Zenon
<1>5. posted \in Nat
  BY Zenon DEF TimerOK
<1>6. QED
  BY <1>1, <1>3, <1>4, <1>5, Zenon DEF TimerOK

\* a torrent that does not announce waits for nothing
LEMMA TimerOff ==
  ASSUME TimerOK, announcing' = FALSE, pending' = FALSE, expires' = expires, missed' = missed,
         posted' = posted, calls' \in 0..MaxCalls
  PROVE  TimerOK'
<1>1. expires \in {Past, Never} \union Nat /\ posted \in Nat /\ missed \in BOOLEAN
  BY Zenon DEF TimerOK
<1>2. PICK m : m = NextAnnounce(order', entry')
  OBVIOUS
<1>3. Clock(FALSE, missed, expires, FALSE, posted, m)
  BY Zenon DEF Clock
<1>4. QED
  BY <1>1, <1>2, <1>3, Zenon DEF TimerOK

\* a torrent that returned without arming the timer
LEMMA TimerMissed ==
  ASSUME TimerOK, SwitchOK, announcing' \in BOOLEAN, announcing' \/ ~announcing,
         missed' = (missed \/ announcing'), expires' = expires, pending' = pending,
         posted' \in Nat, calls' \in 0..MaxCalls
  PROVE  TimerOK'
<1>1. /\ expires \in {Past, Never} \union Nat /\ pending \in BOOLEAN /\ missed \in BOOLEAN
      /\ ~announcing => ~pending
  BY Zenon DEF TimerOK, Clock
<1>2. PICK m : m = NextAnnounce(order', entry')
  OBVIOUS
<1>3. missed' \in BOOLEAN /\ (announcing' => missed') /\ (~announcing' => ~pending)
  BY <1>1, Zenon
<1>4. Clock(announcing', missed', expires, pending, posted', m)
  BY <1>3, Zenon DEF Clock
<1>5. QED
  BY <1>1, <1>2, <1>3, <1>4, Zenon DEF TimerOK

----------------------------------------------------------------------------
(* Announcing                                                                     *)

LEMMA AnnounceOK ==
  ASSUME TimerOK, SwitchOK, NEW es, NEW e \in Events, NEW s \in Seq(Trackers), order' = s,
         Asks(s, es, requests), ListOK(s, es), AnnounceWithTracker(es, e),
         announcing' = announcing, posted' = posted, calls' \in 0..MaxCalls
  PROVE  /\ ListOK(s, entry') /\ Asks(s, entry', requests') /\ TimerOK'
         /\ \A t \in Trackers : entry'[t].tier = es[t].tier
<1>1. Requests(es, requests, e)
  BY Zenon DEF AnnounceWithTracker
<1>2. /\ Asks(s, entry', requests')
      /\ \A t \in Trackers : entry'[t].fails = es[t].fails /\ entry'[t].tier = es[t].tier
  BY <1>1, RequestsOK
<1>3. PICK fs : fs = entry'
  OBVIOUS
<1>4. ListOK(s, fs)
  BY <1>2, <1>3, SameTiers
<1>5. fs \in [Trackers -> EntryType]
  BY <1>2, <1>3 DEF Asks
<1>6. CASE Returns(Event(e))
  <2>1. missed' = (missed \/ announcing') /\ expires' = expires /\ pending' = pending
    BY <1>6, Zenon DEF AnnounceWithTracker
  <2>2. posted' \in Nat /\ announcing \in BOOLEAN
    BY Zenon DEF TimerOK, SwitchOK
  <2>3. TimerOK'
    BY <2>1, <2>2, TimerMissed, Zenon
  <2>4. QED
    BY <1>2, <1>3, <1>4, <2>3, Zenon
<1>7. CASE ~Returns(Event(e))
  <2>1. UpdateTimer
    BY <1>7, Zenon DEF AnnounceWithTracker
  <2>2. PICK m : m = NextAnnounce(s, fs)
    OBVIOUS
  <2>3. m \in Nat \union {Never}
    BY <1>5, <2>2, NextType
  <2>4. m = NextAnnounce(order', entry')
    BY <1>3, <2>2
  <2>5. TimerOK'
    BY <2>1, <2>3, <2>4, TimerUpdated, Zenon
  <2>6. QED
    BY <1>2, <1>3, <1>4, <2>5, Zenon
<1>8. QED
  BY <1>6, <1>7

\* start_announcing() with the entries es
LEMMA StartOK ==
  ASSUME IInv, NEW es, Asks(order, es, requests), ListOK(order, es), announcing => es = entry,
         StartAnnouncing(es), order' = order, posted' = posted, calls' \in 0..MaxCalls
  PROVE  /\ ListOK(order, entry') /\ Asks(order, entry', requests') /\ TimerOK'
         /\ announcing' \in BOOLEAN
         /\ announcing' => announcing \/ (allowPeers' /\ ~graceful' /\ checked')
<1>1. TimerOK /\ SwitchOK /\ order \in Seq(Trackers)
  BY Zenon DEF IInv, ListOK
<1>2. announcing \in BOOLEAN /\ posted \in Nat
  BY <1>1, Zenon DEF SwitchOK, TimerOK
<1>3. CASE Paused' \/ ~checked' \/ announcing
  <2>1. /\ entry' = es /\ announcing' = announcing /\ requests' = requests
        /\ expires' = expires /\ pending' = pending /\ missed' = missed
    BY <1>3, Zenon DEF StartAnnouncing
  <2>2. CASE announcing
    <3>1. entry' = entry
      BY <2>1, <2>2
    <3>2. TimerOK'
      BY <1>1, <2>1, <3>1, Zenon DEF TimerOK
    <3>3. QED
      BY <1>2, <2>1, <2>2, <3>2, Zenon
  <2>3. CASE ~announcing
    <3>1. announcing' = FALSE /\ pending' = FALSE
      BY <1>1, <1>2, <2>1, <2>3, Zenon DEF TimerOK, Clock
    <3>2. TimerOK'
      BY <1>1, <2>1, <3>1, TimerOff, Zenon
    <3>3. QED
      BY <2>1, <3>1, <3>2, Zenon
  <2>4. QED
    BY <2>2, <2>3
<1>4. CASE ~(Paused' \/ ~checked' \/ announcing)
  <2>1. PICK fs : fs = OnListed(es, [t \in Trackers |-> Reset(es[t])])
    OBVIOUS
  <2>2. announcing' = TRUE /\ AnnounceWithTracker(fs, "none")
    BY <1>4, <2>1, Zenon DEF StartAnnouncing
  <2>3. allowPeers' /\ ~graceful' /\ checked'
    BY <1>4, Zenon DEF Paused
  <2>4. PICK s \in Seq(Trackers) : s = order
    BY <1>1
  <2>5. es \in [Trackers -> EntryType]
    BY DEF Asks
  <2>6. ToSet(s) \subseteq Trackers
    BY Elements
  <2>7. \A t \in Trackers :
           /\ Reset(es[t]) \in EntryType /\ Reset(es[t]).next = 0 /\ Reset(es[t]).min = 0
           /\ Reset(es[t]).tier = es[t].tier /\ Reset(es[t]).updating = es[t].updating
    BY <2>5 DEF Reset, DueNow, EntryType
  <2>8. \A t \in Trackers : fs[t] = IF t \in ToSet(s) THEN Reset(es[t]) ELSE es[t]
    BY <2>1, <2>4 DEF OnListed, Listed
  <2>9. /\ fs \in [Trackers -> EntryType]
        /\ \A t \in Trackers : fs[t].tier = es[t].tier /\ fs[t].updating = es[t].updating
        /\ \A t \in ToSet(s) : fs[t].next = 0 /\ fs[t].min = 0
    <3>1. fs = [t \in Trackers |-> IF t \in ToSet(s) THEN Reset(es[t]) ELSE es[t]]
      BY <2>1, <2>4, <2>8 DEF OnListed, Listed
    <3>2. fs \in [Trackers -> EntryType]
      BY <2>5, <2>7, <3>1
    <3>3. QED
      BY <2>6, <2>7, <2>8, <3>2
  <2>10. Asks(s, fs, requests)
    BY <2>4, <2>9 DEF Asks, Exact
  <2>11. ListOK(s, fs)
    BY <2>4, <2>9, SameTiers
  <2>12. Requests(fs, requests, "none") /\ "none" \in Events
    BY <2>2, Zenon DEF AnnounceWithTracker, Events
  <2>13. /\ Asks(s, entry', requests')
         /\ \A t \in Trackers : entry'[t].tier = fs[t].tier
    <3>1. order' = s
      BY <2>4
    <3>2. QED
      BY <2>10, <2>12, <3>1, RequestsOK
  <2>14. ListOK(s, entry')
    <3>1. PICK gs : gs = entry'
      OBVIOUS
    <3>2. ListOK(s, gs)
      BY <2>11, <2>13, <3>1, SameTiers
    <3>3. QED
      BY <3>1, <3>2
  <2>15. CASE Returns(Event("none"))
    <3>1. missed' = (missed \/ announcing') /\ expires' = expires /\ pending' = pending
      BY <2>2, <2>15, Zenon DEF AnnounceWithTracker
    <3>2. TimerOK'
      BY <1>1, <1>2, <2>2, <3>1, TimerMissed, Zenon
    <3>3. QED
      BY <2>2, <2>3, <2>4, <2>13, <2>14, <3>2, Zenon
  <2>16. CASE ~Returns(Event("none"))
    <3>1. NextAnnounce(s, entry') = Never
      <4>1. order' = s
        BY <2>4
      <4>2. QED
        BY <2>9, <2>10, <2>12, <2>16, <4>1, NoneLeft
    <3>2. NextAnnounce(order', entry') = Never
      BY <2>4, <3>1, Zenon
    <3>3. UpdateTimer
      BY <2>2, <2>16, Zenon DEF AnnounceWithTracker
    <3>4. /\ expires' = Never
          /\ \/ pending' = pending /\ missed' = missed
             \/ pending' = TRUE /\ missed' = FALSE
      BY <2>2, <3>2, <3>3, Zenon DEF UpdateTimer, SameTime, SetTimer
    <3>5. pending \in BOOLEAN /\ missed \in BOOLEAN
      BY <1>1, Zenon DEF TimerOK
    <3>6. Clock(TRUE, missed', expires', pending', posted, Never)
      BY <3>4, Zenon DEF Clock
    <3>7. expires' \in {Past, Never} \union Nat /\ pending' \in BOOLEAN /\ missed' \in BOOLEAN
      BY <3>4, <3>5, Zenon
    <3>8. TimerOK'
      BY <1>2, <2>2, <3>2, <3>6, <3>7, Zenon DEF TimerOK
    <3>9. QED
      BY <2>2, <2>3, <2>4, <2>13, <2>14, <3>8, Zenon
  <2>17. QED
    BY <2>15, <2>16
<1>5. QED
  BY <1>3, <1>4

LEMMA StopOK ==
  ASSUME IInv, StopAnnouncing, order' = order, posted' = posted, calls' \in 0..MaxCalls
  PROVE  /\ ListOK(order, entry') /\ Asks(order, entry', requests') /\ TimerOK'
         /\ announcing' = FALSE
<1>1. /\ TimerOK /\ SwitchOK /\ ListOK(order, entry) /\ Asks(order, entry, requests)
      /\ order \in Seq(Trackers)
  BY Zenon DEF IInv, ListOK
<1>2. announcing \in BOOLEAN
  BY <1>1, Zenon DEF SwitchOK
<1>3. CASE ~announcing
  <2>1. /\ announcing' = FALSE /\ entry' = entry /\ requests' = requests
        /\ expires' = expires /\ pending' = pending /\ missed' = missed
    BY <1>2, <1>3, Zenon DEF StopAnnouncing
  <2>2. pending' = FALSE
    BY <1>1, <1>3, <2>1, Zenon DEF TimerOK, Clock
  <2>3. TimerOK'
    BY <1>1, <2>1, <2>2, TimerOff, Zenon
  <2>4. QED
    BY <1>1, <2>1, <2>3, Zenon
<1>4. CASE announcing
  <2>1. PICK fs : fs = OnListed(entry, [t \in Trackers |-> DueNow(entry[t])])
    OBVIOUS
  <2>2. /\ announcing' = FALSE /\ pending' = FALSE /\ expires' = expires /\ missed' = missed
        /\ Requests(fs, requests, "stopped")
    BY <1>4, <2>1, Zenon DEF StopAnnouncing
  <2>3. PICK s \in Seq(Trackers) : s = order
    BY <1>1
  <2>4. entry \in [Trackers -> EntryType]
    BY <1>1 DEF Asks
  <2>5. \A t \in Trackers :
           /\ DueNow(entry[t]) \in EntryType /\ DueNow(entry[t]).tier = entry[t].tier
           /\ DueNow(entry[t]).updating = entry[t].updating
    BY <2>4 DEF DueNow, EntryType
  <2>6. fs = [t \in Trackers |-> IF t \in ToSet(s) THEN DueNow(entry[t]) ELSE entry[t]]
    BY <2>1, <2>3 DEF OnListed, Listed
  <2>7. /\ fs \in [Trackers -> EntryType]
        /\ \A t \in Trackers : fs[t].tier = entry[t].tier /\ fs[t].updating = entry[t].updating
    BY <2>4, <2>5, <2>6
  <2>8. Asks(s, fs, requests)
    BY <1>1, <2>3, <2>7 DEF Asks, Exact
  <2>9. ListOK(s, fs)
    BY <1>1, <2>3, <2>7, SameTiers
  <2>10. Asks(s, entry', requests') /\ \A t \in Trackers : entry'[t].tier = fs[t].tier
    <3>1. order' = s /\ "stopped" \in Events
      BY <2>3 DEF Events
    <3>2. QED
      BY <2>2, <2>8, <3>1, RequestsOK
  <2>11. ListOK(s, entry')
    <3>1. PICK gs : gs = entry'
      OBVIOUS
    <3>2. ListOK(s, gs)
      BY <2>9, <2>10, <3>1, SameTiers
    <3>3. QED
      BY <3>1, <3>2
  <2>12. TimerOK'
    BY <1>1, <2>2, TimerOff, Zenon
  <2>13. QED
    BY <2>2, <2>3, <2>10, <2>11, <2>12, Zenon
<1>5. QED
  BY <1>3, <1>4

----------------------------------------------------------------------------
(* The list and its answers                                                       *)

\* the answer to the only request of t
LEMMA Answered ==
  ASSUME Asks(order, entry, requests), NEW t \in Trackers, NEW i \in DOMAIN requests[t],
         NEW es \in [Trackers -> EntryType], \A u \in Trackers \ {t} : es[u] = entry[u],
         ~es[t].updating, NEW s, ToSet(s) = ToSet(order),
         NEW rs, rs = [requests EXCEPT ![t] = RemoveAt(@, i)]
  PROVE  Asks(s, es, rs) /\ requests[t][i] \in Events /\ t \in ToSet(order)
<1>1. /\ requests \in [Trackers -> Seq(Events)] /\ Exact(entry, requests)
      /\ \A u \in Trackers : entry[u].updating => u \in ToSet(order)
  BY DEF Asks
<1>2. PICK r \in Seq(Events) : r = requests[t]
  BY <1>1
<1>3. Len(r) = IF entry[t].updating THEN 1 ELSE 0
  BY <1>1, <1>2 DEF Exact
<1>4. i \in 1..Len(r)
  BY <1>2, LenProperties
<1>5. entry[t].updating /\ Len(r) = 1 /\ i = 1
  BY <1>3, <1>4
<1>6. RemoveAt(r, i) \in Seq(Events) /\ Len(RemoveAt(r, i)) = 0
  <2>1. SubSeq(r, 1, 0) = <<>> /\ SubSeq(r, 2, 1) = <<>>
    BY SubSeqEmpty
  <2>2. RemoveAt(r, i) = SubSeq(r, 1, 0) \o SubSeq(r, 2, 1)
    BY <1>5 DEF RemoveAt
  <2>3. <<>> \o <<>> = <<>>
    OBVIOUS
  <2>4. RemoveAt(r, i) = <<>>
    BY <2>1, <2>2, <2>3, Zenon
  <2>5. QED
    BY <2>4
<1>7. rs[t] = RemoveAt(r, i) /\ \A u \in Trackers \ {t} : rs[u] = requests[u]
  BY <1>1, <1>2
<1>8. rs \in [Trackers -> Seq(Events)]
  BY <1>1, <1>2, <1>6
<1>9. \A u \in Trackers : Len(rs[u]) = IF es[u].updating THEN 1 ELSE 0
  BY <1>1, <1>6, <1>7 DEF Exact
<1>10. \A u \in Trackers : es[u].updating => u \in ToSet(s)
  BY <1>1
<1>11. requests[t][i] \in Events
  <2>1. r[i] \in Events
    BY <1>4, ElementOfSeq
  <2>2. QED
    BY <1>2, <2>1
<1>12. QED
  BY <1>1, <1>5, <1>8, <1>9, <1>10, <1>11 DEF Asks, Exact

LEMMA TiermatesAre ==
  ASSUME ListOK(order, entry), NEW t \in ToSet(order)
  PROVE  /\ Index(order, t) \in 1..Len(order) /\ order[Index(order, t)] = t
         /\ Tiermates(t) \subseteq 1..Len(order) /\ Index(order, t) \in Tiermates(t)
         /\ Min(Tiermates(t)) \in Tiermates(t)
         /\ Max(Tiermates(t)) \in Tiermates(t) /\ Index(order, t) <= Max(Tiermates(t))
<1>1. order \in Seq(Trackers) /\ IsInjective(order)
  BY DEF ListOK
<1>2. PICK i \in 1..Len(order) : order[i] = t
  BY <1>1, Elements
<1>3. Index(order, t) = i
  BY <1>1, <1>2, IndexIs
<1>4. Len(order) \in Nat /\ DOMAIN order = 1..Len(order)
  BY <1>1, Elements
<1>5. Tiermates(t) \subseteq 1..Len(order) /\ i \in Tiermates(t)
  BY <1>2, <1>4 DEF Tiermates
<1>6. Min(Tiermates(t)) \in Tiermates(t)
  <2>1. Tiermates(t) \in SUBSET Nat /\ Tiermates(t) # {}
    BY <1>4, <1>5
  <2>2. QED
    BY <2>1, LeastOf
<1>7. Max(Tiermates(t)) \in Tiermates(t) /\ \A m \in Tiermates(t) : m <= Max(Tiermates(t))
  <2>1. Tiermates(t) \in SUBSET (1..Len(order)) /\ Tiermates(t) # {}
    BY <1>5
  <2>2. QED
    BY <1>4, <2>1, GreatestOf
<1>8. QED
  BY <1>2, <1>3, <1>5, <1>6, <1>7

LEMMA MoveOK ==
  ASSUME ListOK(order, entry), entry \in [Trackers -> EntryType], NEW t \in ToSet(order),
         NEW k \in Tiermates(t), Move(t, k)
  PROVE  /\ ListOK(order', entry) /\ ToSet(order') = ToSet(order)
         /\ Moved(order, Index(order, t), k, order')
         /\ order'[k] = t
<1>1. order \in Seq(Trackers)
  BY DEF ListOK
<1>2. PICK i \in 1..Len(order) : i = Index(order, t) /\ order[i] = t
  BY TiermatesAre
<1>3. k \in 1..Len(order) /\ entry[order[k]].tier = entry[t].tier
  <2>1. DOMAIN order = 1..Len(order)
    BY <1>1, Elements
  <2>2. QED
    BY <2>1 DEF Tiermates
<1>4. PICK q : q = InsertAt(RemoveAt(order, i), k, order[i])
  OBVIOUS
<1>5. order' = q
  BY <1>2, <1>4, Zenon DEF Move
<1>6. Moved(order, i, k, q)
  BY <1>1, <1>3, <1>4, MovedTo
<1>7. ListOK(q, entry) /\ ToSet(q) = ToSet(order)
  <2>1. entry[order[k]].tier = entry[order[i]].tier
    BY <1>2, <1>3
  <2>2. QED
    BY <1>3, <1>6, <2>1, MovedInTier
<1>8. q[k] = t
  <2>1. From(i, k, k) = i
    BY DEF From
  <2>2. QED
    BY <1>2, <1>3, <1>6, <2>1 DEF Moved
<1>9. QED
  BY <1>2, <1>5, <1>6, <1>7, <1>8

----------------------------------------------------------------------------
(* The steps                                                                      *)

LEMMA SwitchesStay ==
  ASSUME SwitchOK, switches' = switches
  PROVE  SwitchOK' /\ announcing' = announcing
<1>1. /\ allowPeers' = allowPeers /\ graceful' = graceful /\ announceTo' = announceTo
      /\ announcing' = announcing /\ checked' = checked /\ progress' = progress
      /\ aborted' = aborted
  BY DEF switches
<1>2. QED
  BY <1>1, Zenon DEF SwitchOK

LEMMA ResponseOK ==
  ASSUME IInv, NEW t \in Trackers, NEW i \in DOMAIN requests[t], Response(t, i)
  PROVE  IInv'
<1>1. /\ ListOK(order, entry) /\ Asks(order, entry, requests) /\ SwitchOK /\ TimerOK
      /\ entry \in [Trackers -> EntryType] /\ order \in Seq(Trackers)
  BY Zenon DEF IInv, Asks, ListOK
<1> DEFINE e == requests[t][i]
           rs == [requests EXCEPT ![t] = RemoveAt(@, i)]
<1>2. e = requests[t][i]
  OBVIOUS
<1>3. rs = [requests EXCEPT ![t] = RemoveAt(@, i)]
  OBVIOUS
<1>4. PICK k : k = Min(Tiermates(t))
  OBVIOUS
<1>5. /\ switches' = switches /\ posted' = posted /\ calls' = calls /\ Move(t, k)
      /\ lastWorking' = k /\ worked' = t /\ slipped' = FALSE
  BY <1>4, Zenon DEF Response
<1>0. PICK interval \in Intervals, min \in MinIntervals, again \in BOOLEAN :
        LET es == [entry EXCEPT ![t] =
                     [tier |-> @.tier, next |-> interval, min |-> min, fails |-> 0,
                      updating |-> FALSE,
                      startSent |-> @.startSent \/ e = "started",
                      completeSent |-> @.completeSent \/ e = "completed"]]
        IN  /\ IF again /\ e # "stopped" THEN Requests(es, rs, e)
               ELSE entry' = es /\ requests' = rs
            /\ IF announcing /\ ~SameTime(NextAnnounce(order', es)) THEN SetTimer
               ELSE UpdateTimer
  BY Zenon DEF Response
<1>6. PICK es :
         /\ es = [entry EXCEPT ![t] =
                    [tier |-> @.tier, next |-> interval, min |-> min, fails |-> 0,
                     updating |-> FALSE,
                     startSent |-> @.startSent \/ e = "started",
                     completeSent |-> @.completeSent \/ e = "completed"]]
         /\ IF again /\ e # "stopped" THEN Requests(es, rs, e) ELSE entry' = es /\ requests' = rs
         /\ IF announcing /\ ~SameTime(NextAnnounce(order', es)) THEN SetTimer ELSE UpdateTimer
  BY <1>0, Zenon
<1> HIDE DEF e, rs
<1>7. PICK new : new = [tier |-> entry[t].tier, next |-> interval, min |-> min, fails |-> 0,
                     updating |-> FALSE,
                     startSent |-> entry[t].startSent \/ e = "started",
                     completeSent |-> entry[t].completeSent \/ e = "completed"]
  OBVIOUS
<1>8. new \in EntryType /\ new.tier = entry[t].tier /\ ~new.updating
  <2>1. entry[t] \in EntryType
    BY <1>1
  <2>2. interval \in Nat /\ min \in Nat /\ 0 \in 0..(FailWrap - 1)
    BY TimesAssumption, FailAssumption
  <2>3. (entry[t].startSent \/ e = "started") \in BOOLEAN
        /\ (entry[t].completeSent \/ e = "completed") \in BOOLEAN
    OBVIOUS
  <2>4. QED
    BY <1>7, <2>1, <2>2, <2>3 DEF EntryType
<1>9. /\ es \in [Trackers -> EntryType]
      /\ \A u \in Trackers \ {t} : es[u] = entry[u]
      /\ ~es[t].updating
      /\ \A u \in Trackers : es[u].tier = entry[u].tier
  <2>1. es = [entry EXCEPT ![t] = new]
    BY <1>6, <1>7
  <2>2. es[t] = new /\ \A u \in Trackers \ {t} : es[u] = entry[u]
    BY <1>1, <2>1
  <2>3. QED
    BY <1>1, <1>8, <2>1, <2>2
<1>10. Asks(order, es, rs) /\ e \in Events /\ t \in ToSet(order)
  BY <1>1, <1>2, <1>3, <1>9, Answered
<1>11. k \in Tiermates(t) /\ k \in 1..Len(order)
  BY <1>1, <1>4, <1>10, TiermatesAre
<1>12. PICK s : s = order'
  OBVIOUS
<1>13. /\ ListOK(s, entry) /\ ToSet(s) = ToSet(order) /\ s \in Seq(Trackers)
       /\ Len(s) = Len(order) /\ s[k] = t
  BY <1>1, <1>5, <1>10, <1>11, <1>12, MoveOK DEF Moved
<1>14. Asks(s, es, rs) /\ ListOK(s, es)
  <2>1. ListOK(s, es)
    BY <1>9, <1>13, SameTiers
  <2>2. QED
    BY <1>10, <1>13, <2>1 DEF Asks
<1>15. Asks(s, entry', requests') /\ \A u \in Trackers : entry'[u].tier = es[u].tier
  <2>1. CASE again /\ e # "stopped"
    <3>1. Requests(es, rs, e)
      BY <1>6, <2>1, Zenon
    <3>2. order' = s
      BY <1>12
    <3>3. QED
      BY <1>10, <1>13, <1>14, <3>1, <3>2, RequestsOK
  <2>2. CASE ~(again /\ e # "stopped")
    <3>1. entry' = es /\ requests' = rs
      BY <1>6, <2>2, Zenon
    <3>2. QED
      BY <1>14, <3>1, Zenon
  <2>3. QED
    BY <2>1, <2>2
<1>16. PICK fs : fs = entry'
  OBVIOUS
<1>17. ListOK(s, fs) /\ fs \in [Trackers -> EntryType]
  BY <1>14, <1>15, <1>16, SameTiers DEF Asks
<1>18. NextAnnounce(order', entry') \in Nat \union {Never}
  <2>1. NextAnnounce(s, fs) \in Nat \union {Never}
    BY <1>13, <1>17, NextType
  <2>2. QED
    BY <1>12, <1>16, <2>1, Zenon
<1>19. announcing' = announcing /\ calls' \in 0..MaxCalls
  BY <1>1, <1>5, Zenon DEF switches, TimerOK
<1>20. TimerOK'
  <2>1. CASE announcing /\ ~SameTime(NextAnnounce(order', es))
    <3>1. SetTimer
      BY <1>6, <2>1, Zenon
    <3>2. QED
      BY <1>1, <1>5, <1>18, <1>19, <2>1, <3>1, TimerSet, Zenon
  <2>2. CASE ~(announcing /\ ~SameTime(NextAnnounce(order', es)))
    <3>1. UpdateTimer
      BY <1>6, <2>2, Zenon
    <3>2. QED
      BY <1>1, <1>5, <1>18, <1>19, <3>1, TimerUpdated, Zenon
  <2>3. QED
    BY <2>1, <2>2
<1>21. Names(order', lastWorking', worked', slipped')
  <2>1. k \in 0..Len(s)
    <3>1. Len(order) \in Nat
      BY <1>1, Elements
    <3>2. QED
      BY <1>11, <1>13, <3>1
  <2>2. Names(s, k, t, FALSE)
    BY <1>13, <2>1, Zenon DEF Names
  <2>3. QED
    BY <1>5, <1>12, <2>2, Zenon
<1>22. SwitchOK'
  BY <1>1, <1>5, SwitchesStay
<1>23. QED
  BY <1>12, <1>15, <1>16, <1>17, <1>20, <1>21, <1>22, Zenon DEF IInv

LEMMA ErrorOK ==
  ASSUME IInv, NEW t \in Trackers, NEW i \in DOMAIN requests[t], Error(t, i)
  PROVE  IInv'
<1>1. /\ ListOK(order, entry) /\ Asks(order, entry, requests) /\ SwitchOK /\ TimerOK
      /\ entry \in [Trackers -> EntryType] /\ order \in Seq(Trackers)
      /\ Names(order, lastWorking, worked, slipped)
  BY Zenon DEF IInv, Asks, ListOK
<1>2. PICK e : e = requests[t][i]
  OBVIOUS
<1>3. PICK rs : rs = [requests EXCEPT ![t] = RemoveAt(@, i)]
  OBVIOUS
<1>4. PICK k : k = Max(Tiermates(t))
  OBVIOUS
<1>5. /\ switches' = switches /\ posted' = posted /\ calls' = calls /\ Move(t, k)
      /\ lastWorking' = Shifted(Index(order, t), k) /\ worked' = worked /\ slipped' = slipped
      /\ UpdateTimer
  BY <1>4, Zenon DEF Error, Deprioritize
<1>0. PICK delay \in Delays :
        LET es == [entry EXCEPT ![t].fails = OneMore(entry[t]),
                                ![t].next = delay,
                                ![t].updating = NotUpdating(entry[t])]
        IN  IF (~aborted /\ ~Paused) \/ e = "stopped" THEN Requests(es, rs, e)
            ELSE entry' = es /\ requests' = rs
  BY <1>2, <1>3, Zenon DEF Error
<1>6. PICK es :
         /\ es = [entry EXCEPT ![t].fails = OneMore(entry[t]),
                               ![t].next = delay,
                               ![t].updating = NotUpdating(entry[t])]
         /\ IF (~aborted /\ ~Paused) \/ e = "stopped" THEN Requests(es, rs, e)
            ELSE entry' = es /\ requests' = rs
  BY <1>0, Zenon
<1>7. PICK new : new = [entry[t] EXCEPT !.fails = OneMore(entry[t]), !.next = delay,
                                        !.updating = NotUpdating(entry[t])]
  OBVIOUS
<1>8. new \in EntryType /\ new.tier = entry[t].tier /\ ~new.updating
  <2>1. entry[t] \in EntryType
    BY <1>1
  <2>2. OneMore(entry[t]) \in 0..(FailWrap - 1)
    <3>1. PICK f \in Nat : f = entry[t].fails
      BY <2>1 DEF EntryType
    <3>2. (f + 1) % FailWrap \in 0..(FailWrap - 1)
      BY <3>1, FailAssumption
    <3>3. QED
      BY <3>1, <3>2 DEF OneMore
  <2>3. delay \in Nat /\ NotUpdating(entry[t]) = FALSE
    BY TimesAssumption DEF NotUpdating
  <2>4. QED
    BY <1>7, <2>1, <2>2, <2>3 DEF EntryType
<1>9. /\ es \in [Trackers -> EntryType]
      /\ \A u \in Trackers \ {t} : es[u] = entry[u]
      /\ ~es[t].updating
      /\ \A u \in Trackers : es[u].tier = entry[u].tier
  <2>1. es = [entry EXCEPT ![t] = new]
    BY <1>1, <1>6, <1>7
  <2>2. es[t] = new /\ \A u \in Trackers \ {t} : es[u] = entry[u]
    BY <1>1, <2>1
  <2>3. QED
    BY <1>1, <1>8, <2>1, <2>2
<1>10. Asks(order, es, rs) /\ e \in Events /\ t \in ToSet(order)
  BY <1>1, <1>2, <1>3, <1>9, Answered
<1>11. PICK j : j = Index(order, t)
  OBVIOUS
<1>12. k \in Tiermates(t) /\ k \in 1..Len(order) /\ j \in 1..Len(order) /\ j <= k
  BY <1>1, <1>4, <1>10, <1>11, TiermatesAre
<1>13. PICK s : s = order'
  OBVIOUS
<1>14. /\ ListOK(s, entry) /\ ToSet(s) = ToSet(order) /\ s \in Seq(Trackers)
       /\ Len(s) = Len(order)
       /\ Moved(order, j, k, s)
  BY <1>1, <1>5, <1>10, <1>11, <1>12, <1>13, MoveOK DEF Moved
<1>15. Asks(s, es, rs) /\ ListOK(s, es)
  <2>1. ListOK(s, es)
    BY <1>9, <1>14, SameTiers
  <2>2. QED
    BY <1>10, <1>14, <2>1 DEF Asks
<1>16. Asks(s, entry', requests') /\ \A u \in Trackers : entry'[u].tier = es[u].tier
  <2>1. CASE (~aborted /\ ~Paused) \/ e = "stopped"
    <3>1. Requests(es, rs, e)
      BY <1>6, <2>1, Zenon
    <3>2. order' = s
      BY <1>13
    <3>3. QED
      BY <1>10, <1>14, <1>15, <3>1, <3>2, RequestsOK
  <2>2. CASE ~((~aborted /\ ~Paused) \/ e = "stopped")
    <3>1. entry' = es /\ requests' = rs
      BY <1>6, <2>2, Zenon
    <3>2. QED
      BY <1>15, <3>1, Zenon
  <2>3. QED
    BY <2>1, <2>2
<1>17. PICK fs : fs = entry'
  OBVIOUS
<1>18. ListOK(s, fs) /\ fs \in [Trackers -> EntryType]
  BY <1>15, <1>16, <1>17, SameTiers DEF Asks
<1>19. NextAnnounce(order', entry') \in Nat \union {Never}
  <2>1. NextAnnounce(s, fs) \in Nat \union {Never}
    BY <1>14, <1>18, NextType
  <2>2. QED
    BY <1>13, <1>17, <2>1, Zenon
<1>20. announcing' = announcing /\ calls' \in 0..MaxCalls
  BY <1>1, <1>5, Zenon DEF switches, TimerOK
<1>21. TimerOK'
  BY <1>1, <1>5, <1>19, <1>20, TimerUpdated, Zenon
<1>22. Names(order', lastWorking', worked', slipped')
  <2>1. lastWorking \in 0..Len(order)
    BY <1>1, Zenon DEF Names
  <2>2. PICK sh : sh = Shifted(j, k)
    OBVIOUS
  <2>3. /\ sh \in 0..Len(order)
        /\ sh = NoTracker <=> lastWorking = NoTracker
        /\ lastWorking # NoTracker => s[sh] = order[lastWorking]
    BY <1>1, <1>12, <1>14, <2>1, <2>2, WorkingFollows
  <2>4. Names(s, sh, worked, slipped)
    BY <1>1, <1>14, <2>3, Zenon DEF Names
  <2>5. QED
    BY <1>5, <1>11, <1>13, <2>2, <2>4, Zenon
<1>23. SwitchOK'
  BY <1>1, <1>5, SwitchesStay
<1>24. QED
  BY <1>13, <1>16, <1>17, <1>18, <1>21, <1>22, <1>23, Zenon DEF IInv

LEMMA AddOK ==
  ASSUME IInv, NEW t \in Trackers, AddTracker(t)
  PROVE  IInv'
<1>1. /\ ListOK(order, entry) /\ Asks(order, entry, requests) /\ SwitchOK /\ TimerOK
      /\ entry \in [Trackers -> EntryType] /\ order \in Seq(Trackers)
      /\ Names(order, lastWorking, worked, slipped)
  BY Zenon DEF IInv, Asks, ListOK
<1>2. PICK tier \in Tiers :
         /\ order' = InsertAt(order, Place(tier), t)
         /\ lastWorking' = IF Place(tier) < lastWorking THEN lastWorking + 1 ELSE lastWorking
         /\ slipped' = (slipped \/ Place(tier) = lastWorking)
         /\ AnnounceWithTracker([entry EXCEPT ![t] = Fresh(tier)], "none")
  BY Zenon DEF AddTracker
<1>3. /\ switches' = switches /\ posted' = posted /\ calls' = calls /\ worked' = worked
      /\ t \notin ToSet(order)
  BY Zenon DEF AddTracker, Listed
<1>4. tier \in Nat
  BY OwnAssumption
<1>5. PICK k \in 1..(Len(order) + 1) :
         /\ k = Place(tier)
         /\ \A j \in 1..Len(order) : entry[order[j]].tier <= tier <=> j < k
  BY <1>1, <1>4, PlaceIs
<1>6. PICK s : s = InsertAt(order, k, t)
  OBVIOUS
<1>7. /\ order' = s /\ s \in Seq(Trackers) /\ Len(s) = Len(order) + 1
      /\ \A j \in 1..(Len(order) + 1) :
           s[j] = IF j < k THEN order[j] ELSE IF j = k THEN t ELSE order[j - 1]
  <2>1. order' = s
    BY <1>2, <1>5, <1>6, Zenon
  <2>2. PICK r \in Seq(Trackers) : r = order
    BY <1>1
  <2>3. k \in 1..(Len(r) + 1) /\ s = InsertAt(r, k, t)
    BY <1>5, <1>6, <2>2
  <2>4. /\ s \in Seq(Trackers) /\ Len(s) = Len(r) + 1
        /\ \A j \in 1..(Len(r) + 1) :
             s[j] = IF j < k THEN r[j] ELSE IF j = k THEN t ELSE r[j - 1]
    BY <2>3, Inserted
  <2>5. QED
    BY <2>1, <2>2, <2>4
<1>8. PICK es : es = [entry EXCEPT ![t] = Fresh(tier)]
  OBVIOUS
<1>9. /\ es \in [Trackers -> EntryType]
      /\ es[t].tier = tier /\ ~es[t].updating
      /\ \A u \in Trackers \ {t} : es[u] = entry[u]
  <2>1. Fresh(tier) \in EntryType /\ Fresh(tier).tier = tier /\ ~Fresh(tier).updating
    BY <1>4, FailAssumption DEF Fresh, EntryType
  <2>2. es[t] = Fresh(tier) /\ \A u \in Trackers \ {t} : es[u] = entry[u]
    BY <1>1, <1>8
  <2>3. QED
    BY <1>1, <1>8, <2>1, <2>2
<1>10. ListOK(s, es) /\ ToSet(order) \subseteq ToSet(s) /\ t \in ToSet(s)
  <2>1. Added(order, entry, k, t, s, es)
    BY <1>3, <1>4, <1>5, <1>7, <1>9 DEF Added
  <2>2. QED
    BY <1>1, <2>1, InsertedInTier
<1>11. Asks(s, es, requests)
  <2>1. ~entry[t].updating
    BY <1>1, <1>3 DEF Asks
  <2>2. \A u \in Trackers : es[u].updating <=> entry[u].updating
    BY <1>9, <2>1
  <2>3. QED
    BY <1>1, <1>9, <1>10, <2>2 DEF Asks, Exact
<1>12. SwitchOK' /\ announcing' = announcing
  BY <1>1, <1>3, SwitchesStay
<1>13. ListOK(s, entry') /\ Asks(s, entry', requests') /\ TimerOK'
  <2>1. AnnounceWithTracker(es, "none")
    BY <1>2, <1>8
  <2>2. "none" \in Events /\ calls' \in 0..MaxCalls
    BY <1>1, <1>3, Zenon DEF Events, TimerOK
  <2>3. QED
    BY <1>1, <1>3, <1>7, <1>10, <1>11, <1>12, <2>1, <2>2, AnnounceOK
<1>14. Names(s, lastWorking', worked', slipped')
  <2>1. PICK lw \in 0..Len(order) : lw = lastWorking
    BY <1>1 DEF Names
  <2>2. PICK l : l = IF k < lw THEN lw + 1 ELSE lw
    OBVIOUS
  <2>3. PICK sl \in BOOLEAN : sl = (slipped \/ k = lw)
    OBVIOUS
  <2>4. lastWorking' = l /\ slipped' = sl
    BY <1>2, <1>5, <2>1, <2>2, <2>3
  <2>5. Len(order) \in Nat
    BY <1>1, Elements
  <2>6. l \in 0..Len(s) /\ (l # 0 => lw # 0)
    BY <1>7, <2>1, <2>2, <2>5
  <2>7. ASSUME l # 0 PROVE s[l] = worked \/ sl
    <3>1. order[lw] = worked \/ slipped
      BY <1>1, <2>1, <2>6, <2>7 DEF Names, NoTracker
    <3>2. CASE k = lw
      BY <2>3, <3>2
    <3>3. CASE k < lw
      <4>1. l \in 1..(Len(order) + 1) /\ ~(l < k) /\ l # k /\ l - 1 = lw
        BY <2>1, <2>2, <2>5, <3>3
      <4>2. s[l] = order[lw]
        BY <1>7, <4>1
      <4>3. QED
        BY <2>3, <3>1, <4>2
    <3>4. CASE lw < k
      <4>1. l = lw /\ l \in 1..(Len(order) + 1) /\ l < k
        BY <2>1, <2>2, <2>5, <2>7, <3>4
      <4>2. s[l] = order[lw]
        BY <1>7, <4>1
      <4>3. QED
        BY <2>3, <3>1, <4>2
    <3>5. QED
      BY <2>1, <2>5, <3>2, <3>3, <3>4
  <2>8. Names(s, l, worked, sl)
    BY <1>1, <2>6, <2>7 DEF Names, NoTracker
  <2>9. QED
    BY <1>3, <2>4, <2>8
<1>15. QED
  BY <1>7, <1>12, <1>13, <1>14, Zenon DEF IInv

LEMMA ExpireOK == ASSUME IInv, Expire PROVE IInv'
<1>1. /\ order' = order /\ entry' = entry /\ lastWorking' = lastWorking /\ worked' = worked
      /\ slipped' = slipped /\ requests' = requests /\ expires' = expires /\ calls' = calls
      /\ missed' = missed /\ switches' = switches
  BY DEF Expire, list
<1>2. pending' = FALSE /\ pending /\ expires \in {0, Past}
  BY Zenon DEF Expire, Due
<1>3. SwitchOK /\ TimerOK /\ posted \in Nat
  BY Zenon DEF IInv, TimerOK
<1>4. SwitchOK' /\ announcing' = announcing
  BY <1>1, <1>3, SwitchesStay
<1>5. posted' = posted + 1
  BY Zenon DEF Expire
<1>6. PICK q : q = posted + 1
  OBVIOUS
<1>7. q \in Nat /\ q > 0
  BY <1>3, <1>6
<1>8. PICK n : n = NextAnnounce(order, entry)
  OBVIOUS
<1>9. Clock(announcing, missed, expires, pending, posted, n)
  BY <1>3, <1>8, Zenon DEF TimerOK
<1>10. Clock(announcing, missed, expires, FALSE, q, n)
  <2>1. Past # Never /\ 0 # Never /\ 0 # Past
    BY DEF Past, Never
  <2>2. n = expires => n # Never
    BY <1>2, <2>1
  <2>3. announcing /\ ~missed => n = 0 \/ n = Past \/ n = Never
    BY <1>2, <1>9, Zenon DEF Clock
  <2>4. entry \in [Trackers -> EntryType] /\ order \in Seq(Trackers)
    BY Zenon DEF IInv, Asks, ListOK
  <2>5. n # Past
    <3>1. n \in Nat \union {Never}
      BY <1>8, <2>4, NextType
    <3>2. QED
      BY <3>1 DEF Past, Never
  <2>6. announcing /\ ~missed => n = 0
    <3>1. announcing /\ ~missed => n # Never
      <4>1. HAVE announcing /\ ~missed
      <4>2. \/ expires = n
            \/ n = 0
        BY <1>9, <4>1, Zenon DEF Clock
      <4>3. QED
        BY <2>1, <2>2, <4>2
    <3>2. QED
      BY <2>3, <2>5, <3>1, Zenon
  <2>7. QED
    BY <1>2, <1>7, <2>6, Zenon DEF Clock
<1>11. TimerOK'
  BY <1>1, <1>2, <1>3, <1>4, <1>5, <1>6, <1>7, <1>8, <1>10, Zenon DEF TimerOK
<1>12. QED
  BY <1>1, <1>4, <1>11, Zenon DEF IInv

\* the handler: none of those it then waits for is due
LEMMA HandlerOK == ASSUME IInv, OnTrackerAnnounce PROVE IInv'
<1>1. /\ ListOK(order, entry) /\ Asks(order, entry, requests) /\ SwitchOK /\ TimerOK
      /\ entry \in [Trackers -> EntryType] /\ order \in Seq(Trackers)
      /\ Names(order, lastWorking, worked, slipped)
  BY Zenon DEF IInv, Asks, ListOK
<1>2. /\ switches' = switches /\ order' = order /\ lastWorking' = lastWorking /\ worked' = worked
      /\ slipped' = slipped /\ calls' = calls
  BY Zenon DEF OnTrackerAnnounce
<1>3. posted' \in Nat
  <2>1. posted \in Nat /\ posted > 0
    BY <1>1, Zenon DEF TimerOK, OnTrackerAnnounce
  <2>2. posted - 1 \in Nat
    BY <2>1
  <2>3. QED
    BY <2>2, Zenon DEF OnTrackerAnnounce
<1>4. SwitchOK' /\ announcing' = announcing
  BY <1>1, <1>2, SwitchesStay
<1>5. calls' \in 0..MaxCalls
  BY <1>1, <1>2, Zenon DEF TimerOK
<1>6. /\ expires \in {Past, Never} \union Nat /\ pending \in BOOLEAN /\ missed \in BOOLEAN
      /\ announcing \in BOOLEAN
  BY <1>1, Zenon DEF TimerOK, SwitchOK
<1>7. Names(order', lastWorking', worked', slipped')
  BY <1>1, <1>2, Zenon
<1>8. PICK m : m = NextAnnounce(order', entry')
  OBVIOUS
<1>9. CASE aborted
  <2>1. /\ entry' = entry /\ requests' = requests /\ expires' = expires /\ pending' = pending
        /\ missed' = missed
    BY <1>9, Zenon DEF OnTrackerAnnounce
  <2>2. announcing = FALSE /\ ~pending
    BY <1>1, <1>6, <1>9, Zenon DEF SwitchOK, TimerOK, Clock
  <2>3. Clock(FALSE, missed, expires, pending, posted', m)
    BY <2>2, Zenon DEF Clock
  <2>4. TimerOK'
    BY <1>3, <1>4, <1>5, <1>6, <1>8, <2>1, <2>2, <2>3, Zenon DEF TimerOK
  <2>5. QED
    BY <1>1, <1>2, <1>4, <1>7, <2>1, <2>4, Zenon DEF IInv
<1>10. CASE ~aborted
  <2>1. AnnounceWithTracker(entry, "none")
    BY <1>10, Zenon DEF OnTrackerAnnounce
  <2>2. Requests(entry, requests, "none") /\ "none" \in Events
    BY <2>1, Zenon DEF AnnounceWithTracker, Events
  <2>3. /\ Asks(order, entry', requests')
        /\ \A t \in Trackers : entry'[t].tier = entry[t].tier
    BY <1>1, <1>2, <2>2, RequestsOK
  <2>4. PICK fs : fs = entry'
    OBVIOUS
  <2>5. ListOK(order, fs) /\ fs \in [Trackers -> EntryType]
    BY <1>1, <2>3, <2>4, SameTiers DEF Asks
  <2>6. TimerOK'
    <3>1. CASE Returns(Event("none"))
      <4>1. missed' = (missed \/ announcing') /\ expires' = expires /\ pending' = pending
        BY <2>1, <3>1, Zenon DEF AnnounceWithTracker
      <4>2. QED
        BY <1>1, <1>3, <1>4, <1>5, <1>6, <4>1, TimerMissed, Zenon
    <3>2. CASE ~Returns(Event("none"))
      <4>1. UpdateTimer
        BY <2>1, <3>2, Zenon DEF AnnounceWithTracker
      <4>2. m # 0
        <5>1. NextAnnounce(order, entry') # 0
          BY <1>1, <1>2, <2>2, <3>2, NotDue
        <5>2. QED
          BY <1>2, <1>8, <5>1, Zenon
      <4>3. m \in Nat \union {Never}
        <5>1. NextAnnounce(order, fs) \in Nat \union {Never}
          BY <1>1, <2>5, NextType
        <5>2. QED
          BY <1>2, <1>8, <2>4, <5>1, Zenon
      <4>4. m # Past
        BY <4>3 DEF Past, Never
      <4>5. PICK n : n = NextAnnounce(order, entry)
        OBVIOUS
      <4>6. Clock(announcing, missed, expires, pending, posted, n)
        BY <1>1, <4>5, Zenon DEF TimerOK
      <4>7. \/ /\ ~announcing \/ expires = m
               /\ expires' = expires /\ pending' = pending /\ missed' = missed
            \/ announcing /\ expires' = m /\ pending' = TRUE /\ missed' = FALSE
        BY <1>4, <1>8, <4>1, Zenon DEF UpdateTimer, SameTime, SetTimer
      <4>8. Clock(announcing, missed', expires', pending', posted', m)
        <5>1. CASE announcing /\ expires' = m /\ pending' = TRUE /\ missed' = FALSE
          BY <5>1, Zenon DEF Clock
        <5>2. CASE expires' = expires /\ pending' = pending /\ missed' = missed /\ ~announcing
          <6>1. ~pending'
            BY <4>6, <5>2, Zenon DEF Clock
          <6>2. QED
            BY <5>2, <6>1, Zenon DEF Clock
        <5>3. CASE expires' = expires /\ pending' = pending /\ missed' = missed /\ announcing
                   /\ expires = m
          <6>1. expires \notin {0, Past}
            BY <4>2, <4>4, <5>3
          <6>2. ~missed => pending \/ m = Never
            BY <4>6, <5>3, <6>1, Zenon DEF Clock
          <6>3. QED
            BY <5>3, <6>2, Zenon DEF Clock
        <5>4. QED
          BY <4>7, <5>1, <5>2, <5>3, Zenon
      <4>9. expires' \in {Past, Never} \union Nat /\ pending' \in BOOLEAN /\ missed' \in BOOLEAN
        BY <1>6, <4>3, <4>7, Zenon
      <4>10. QED
        BY <1>3, <1>4, <1>5, <1>8, <4>8, <4>9, Zenon DEF TimerOK
    <3>3. QED
      BY <3>1, <3>2
  <2>7. QED
    BY <1>2, <1>4, <1>7, <2>3, <2>4, <2>5, <2>6, Zenon DEF IInv
<1>11. QED
  BY <1>9, <1>10

\* time passes for the timer and for the entries alike
LEMMA TickOK == ASSUME IInv, Tick PROVE IInv'
<1>1. /\ ListOK(order, entry) /\ Asks(order, entry, requests) /\ SwitchOK /\ TimerOK
      /\ entry \in [Trackers -> EntryType] /\ order \in Seq(Trackers)
      /\ Names(order, lastWorking, worked, slipped)
  BY Zenon DEF IInv, Asks, ListOK
<1>2. /\ switches' = switches /\ order' = order /\ lastWorking' = lastWorking /\ worked' = worked
      /\ slipped' = slipped /\ calls' = calls /\ requests' = requests /\ pending' = pending
      /\ posted' = posted /\ missed' = missed /\ posted = 0
  BY Zenon DEF Tick
<1>3. PICK fs : fs = Ticked(entry)
  OBVIOUS
<1>4. entry' = fs
  BY <1>3 DEF Tick, Ticked
<1>5. /\ fs \in [Trackers -> EntryType]
      /\ NextAnnounce(order, fs) = Less(NextAnnounce(order, entry))
      /\ \A t \in Trackers : /\ fs[t].fails = entry[t].fails /\ fs[t].tier = entry[t].tier
                             /\ fs[t].updating = entry[t].updating
  BY <1>1, <1>3, NextTick
<1>6. ListOK(order, fs)
  BY <1>1, <1>5, SameTiers
<1>7. Asks(order, fs, requests)
  BY <1>1, <1>5 DEF Asks, Exact
<1>8. SwitchOK' /\ announcing' = announcing
  BY <1>1, <1>2, SwitchesStay
<1>9. PICK n, m : n = NextAnnounce(order, entry) /\ m = NextAnnounce(order, fs)
  OBVIOUS
<1>10. PICK x, y : x = expires /\ y = IF x = 0 THEN Past ELSE Less(x)
  OBVIOUS
<1>11. expires' = y
  BY <1>10 DEF Tick
<1>12. /\ x \in {Past, Never} \union Nat /\ pending \in BOOLEAN /\ posted \in Nat
       /\ missed \in BOOLEAN /\ calls \in 0..MaxCalls
       /\ Clock(announcing, missed, x, pending, posted, n)
  BY <1>1, <1>9, <1>10, Zenon DEF TimerOK
<1>13. n \in Nat \union {Never} /\ m = Less(n)
  BY <1>1, <1>5, <1>9, NextType
<1>14. y \in {Past, Never} \union Nat
  BY <1>10, <1>12 DEF Less, Past, Never
<1>15. /\ x = n => (y = m \/ (y = Past /\ m = 0 /\ n = 0))
       /\ n = 0 => m = 0
       /\ n = Never => m = Never
       /\ x = Past => y = Past
  BY <1>10, <1>13 DEF Less, Past, Never
<1>16. ~(posted > 0)
  BY <1>2
<1>17. 0 # Never
  BY DEF Never
<1>18. Clock(announcing, missed, y, pending, posted, m)
  BY <1>12, <1>15, <1>16, <1>17, Zenon DEF Clock
<1>19. TimerOK'
  BY <1>2, <1>4, <1>8, <1>9, <1>11, <1>12, <1>14, <1>18, Zenon DEF TimerOK
<1>20. QED
  BY <1>1, <1>2, <1>4, <1>6, <1>7, <1>8, <1>19, Zenon DEF IInv

----------------------------------------------------------------------------
(* The user and the auto-manager                                                   *)

\* what is left to show when the list stays
LEMMA ListStays ==
  ASSUME IInv, Calm, ListOK(order, entry'), Asks(order, entry', requests'), TimerOK', SwitchOK'
  PROVE  IInv'
<1>1. /\ order' = order /\ lastWorking' = lastWorking /\ worked' = worked /\ slipped' = slipped
  BY Zenon DEF Calm
<1>2. Names(order, lastWorking, worked, slipped)
  BY Zenon DEF IInv
<1>3. QED
  BY <1>1, <1>2, Zenon DEF IInv

\* what the timer has is as good as it was, when it and the entries stay
LEMMA TimerStays ==
  ASSUME TimerOK, calls' \in 0..MaxCalls, order' = order, entry' = entry, expires' = expires,
         pending' = pending, posted' = posted, missed' = missed, announcing' = announcing
  PROVE  TimerOK'
  BY Zenon DEF TimerOK

\* the parts of the invariant, and the calls counted
LEMMA Parts ==
  ASSUME IInv
  PROVE  /\ ListOK(order, entry) /\ Asks(order, entry, requests) /\ SwitchOK /\ TimerOK
         /\ entry \in [Trackers -> EntryType] /\ order \in Seq(Trackers)
         /\ allowPeers \in BOOLEAN /\ graceful \in BOOLEAN /\ announceTo \in BOOLEAN
         /\ announcing \in BOOLEAN /\ checked \in BOOLEAN /\ aborted \in BOOLEAN
         /\ progress \in {"downloading", "finished", "seeding"}
         /\ announcing => allowPeers /\ ~graceful /\ ~aborted /\ checked
  BY Zenon DEF IInv, Asks, ListOK, SwitchOK

LEMMA PauseOK == ASSUME IInv, Pause, calls' \in 0..MaxCalls PROVE IInv'
<1>1. /\ allowPeers' = FALSE /\ announceTo' = FALSE /\ graceful' = FALSE
      /\ checked' = checked /\ progress' = progress /\ aborted' = aborted /\ Calm
      /\ StopAnnouncing
  BY Zenon DEF Pause
<1>2. order' = order /\ posted' = posted
  BY <1>1, Zenon DEF Calm
<1>3. /\ ListOK(order, entry') /\ Asks(order, entry', requests') /\ TimerOK'
      /\ announcing' = FALSE
  BY <1>1, <1>2, StopOK, Zenon
<1>4. SwitchOK'
  BY <1>1, <1>3, Parts, Zenon DEF SwitchOK
<1>5. QED
  BY <1>1, <1>3, <1>4, ListStays, Zenon

LEMMA ResumeOK == ASSUME IInv, Resume, calls' \in 0..MaxCalls PROVE IInv'
<1>1. /\ allowPeers' = TRUE /\ announceTo' = TRUE /\ graceful' = FALSE
      /\ checked' = checked /\ progress' = progress /\ aborted' = aborted /\ Calm
      /\ StartAnnouncing(entry) /\ ~aborted
  BY Zenon DEF Resume
<1>2. order' = order /\ posted' = posted
  BY <1>1, Zenon DEF Calm
<1>3. /\ ListOK(order, entry') /\ Asks(order, entry', requests') /\ TimerOK'
      /\ announcing' \in BOOLEAN
      /\ announcing' => announcing \/ (allowPeers' /\ ~graceful' /\ checked')
  BY <1>1, <1>2, Parts, StartOK, Zenon
<1>4. SwitchOK'
  BY <1>1, <1>3, Parts, Zenon DEF SwitchOK
<1>5. QED
  BY <1>1, <1>3, <1>4, ListStays, Zenon

LEMMA AutoManageOK == ASSUME IInv, AutoManage, calls' \in 0..MaxCalls PROVE IInv'
<1>1. /\ checked' = checked /\ progress' = progress /\ aborted' = aborted /\ Calm
      /\ ~aborted
  BY Zenon DEF AutoManage
<1>2. order' = order /\ posted' = posted
  BY <1>1, Zenon DEF Calm
<1>3. PICK turn \in BOOLEAN :
         \/ /\ announceTo' = turn
            /\ UNCHANGED <<allowPeers, graceful, announcing, entry, requests, expires, pending,
                           missed>>
         \/ /\ announceTo' = turn /\ allowPeers' = TRUE /\ graceful' = FALSE
            /\ StartAnnouncing(entry)
         \/ /\ allowPeers' = FALSE /\ graceful' = TRUE /\ announceTo' = FALSE
            /\ StopAnnouncing
  BY Zenon DEF AutoManage
<1>4. CASE /\ announceTo' = turn
           /\ UNCHANGED <<allowPeers, graceful, announcing, entry, requests, expires, pending,
                          missed>>
  <2>1. /\ allowPeers' = allowPeers /\ graceful' = graceful /\ announcing' = announcing
        /\ entry' = entry /\ requests' = requests /\ expires' = expires /\ pending' = pending
        /\ missed' = missed /\ announceTo' = turn
    BY <1>4
  <2>2. TimerOK'
    BY <1>2, <2>1, Parts, TimerStays, Zenon
  <2>3. SwitchOK'
    BY <1>1, <2>1, Parts, Zenon DEF SwitchOK
  <2>4. ListOK(order, entry') /\ Asks(order, entry', requests')
    BY <2>1, Parts, Zenon
  <2>5. QED
    BY <1>1, <2>2, <2>3, <2>4, ListStays, Zenon
<1>5. CASE /\ announceTo' = turn /\ allowPeers' = TRUE /\ graceful' = FALSE
           /\ StartAnnouncing(entry)
  <2>1. /\ ListOK(order, entry') /\ Asks(order, entry', requests') /\ TimerOK'
        /\ announcing' \in BOOLEAN
        /\ announcing' => announcing \/ (allowPeers' /\ ~graceful' /\ checked')
    BY <1>2, <1>5, Parts, StartOK, Zenon
  <2>2. SwitchOK'
    BY <1>1, <1>5, <2>1, Parts, Zenon DEF SwitchOK
  <2>3. QED
    BY <1>1, <2>1, <2>2, ListStays, Zenon
<1>6. CASE /\ allowPeers' = FALSE /\ graceful' = TRUE /\ announceTo' = FALSE
           /\ StopAnnouncing
  <2>1. /\ ListOK(order, entry') /\ Asks(order, entry', requests') /\ TimerOK'
        /\ announcing' = FALSE
    BY <1>2, <1>6, StopOK, Zenon
  <2>2. SwitchOK'
    BY <1>1, <1>6, <2>1, Parts, Zenon DEF SwitchOK
  <2>3. QED
    BY <1>1, <2>1, <2>2, ListStays, Zenon
<1>7. QED
  BY <1>3, <1>4, <1>5, <1>6, Zenon

\* the entries of the listed replaced by others of the same tiers and marks
LEMMA ReplacedOK ==
  ASSUME ListOK(order, entry), Asks(order, entry, requests), NEW new,
         \A t \in Trackers : /\ new[t] \in EntryType /\ new[t].tier = entry[t].tier
                             /\ new[t].updating = entry[t].updating
  PROVE  /\ ListOK(order, OnListed(entry, new)) /\ Asks(order, OnListed(entry, new), requests)
         /\ OnListed(entry, new) \in [Trackers -> EntryType]
<1>1. PICK es : es = OnListed(entry, new)
  OBVIOUS
<1>2. entry \in [Trackers -> EntryType]
  BY DEF Asks
<1>3. es \in [Trackers -> EntryType]
      /\ \A t \in Trackers : es[t].tier = entry[t].tier /\ es[t].updating = entry[t].updating
  <2>1. PICK L : L = Listed
    OBVIOUS
  <2>2. es = [t \in Trackers |-> IF t \in L THEN new[t] ELSE entry[t]]
    BY <1>1, <2>1 DEF OnListed
  <2>3. \A t \in Trackers : (IF t \in L THEN new[t] ELSE entry[t]) \in EntryType
    BY <1>2
  <2>4. QED
    BY <1>2, <2>2, <2>3
<1>4. ListOK(order, es)
  BY <1>3, SameTiers
<1>5. Asks(order, es, requests)
  BY <1>3 DEF Asks, Exact
<1>6. QED
  BY <1>1, <1>3, <1>4, <1>5

LEMMA FilesCheckedOK == ASSUME IInv, FilesChecked PROVE IInv'
<1>1. PICK new : new = [t \in Trackers |-> [entry[t] EXCEPT !.completeSent = TRUE]]
  OBVIOUS
<1>2. PICK es : es = IF progress' = "seeding" THEN OnListed(entry, new) ELSE entry
  OBVIOUS
<1>3. /\ ~checked /\ ~aborted /\ checked' = TRUE
      /\ progress' \in {"downloading", "finished", "seeding"}
      /\ allowPeers' = allowPeers /\ graceful' = graceful /\ announceTo' = announceTo
      /\ aborted' = aborted /\ calls' = calls /\ Calm
      /\ StartAnnouncing(es)
  BY <1>1, <1>2, Zenon DEF FilesChecked
<1>4. order' = order /\ posted' = posted /\ calls' \in 0..MaxCalls
  BY <1>3, Parts, Zenon DEF Calm, TimerOK
<1>5. ListOK(order, es) /\ Asks(order, es, requests)
  <2>1. \A t \in Trackers : /\ new[t] \in EntryType /\ new[t].tier = entry[t].tier
                            /\ new[t].updating = entry[t].updating
    BY <1>1, Parts DEF EntryType
  <2>2. ListOK(order, OnListed(entry, new)) /\ Asks(order, OnListed(entry, new), requests)
    BY <2>1, Parts, ReplacedOK
  <2>3. QED
    BY <1>2, <2>2, Parts, Zenon
<1>6. ~announcing
  BY <1>3, Parts, Zenon
<1>7. /\ ListOK(order, entry') /\ Asks(order, entry', requests') /\ TimerOK'
      /\ announcing' \in BOOLEAN
      /\ announcing' => announcing \/ (allowPeers' /\ ~graceful' /\ checked')
  BY <1>3, <1>4, <1>5, <1>6, StartOK, Zenon
<1>8. SwitchOK'
  BY <1>3, <1>6, <1>7, Parts, Zenon DEF SwitchOK
<1>9. QED
  BY <1>3, <1>7, <1>8, ListStays, Zenon

LEMMA FinishedOK == ASSUME IInv, Finished, calls' \in 0..MaxCalls PROVE IInv'
<1>1. PICK new : new = [t \in Trackers |->
                 IF entry[t].completeSent THEN entry[t] ELSE DueNow(entry[t])]
  OBVIOUS
<1>2. PICK es : es = OnListed(entry, new)
  OBVIOUS
<1>3. /\ allowPeers' = allowPeers /\ graceful' = graceful /\ announceTo' = announceTo
      /\ announcing' = announcing /\ checked' = checked /\ aborted' = aborted /\ Calm
      /\ progress' \in {"downloading", "finished", "seeding"}
      /\ \/ UNCHANGED <<entry, requests, expires, pending, missed>>
         \/ AnnounceWithTracker(es, "none")
  BY <1>1, <1>2, Zenon DEF Finished
<1>4. order' = order /\ posted' = posted
  BY <1>3, Zenon DEF Calm
<1>5. SwitchOK'
  BY <1>3, Parts, Zenon DEF SwitchOK
<1>6. CASE UNCHANGED <<entry, requests, expires, pending, missed>>
  <2>1. /\ entry' = entry /\ requests' = requests /\ expires' = expires /\ pending' = pending
        /\ missed' = missed
    BY <1>6
  <2>2. TimerOK'
    BY <1>3, <1>4, <2>1, Parts, TimerStays, Zenon
  <2>3. ListOK(order, entry') /\ Asks(order, entry', requests')
    BY <2>1, Parts, Zenon
  <2>4. QED
    BY <1>3, <1>5, <2>2, <2>3, ListStays, Zenon
<1>7. CASE AnnounceWithTracker(es, "none")
  <2>1. \A t \in Trackers : /\ new[t] \in EntryType /\ new[t].tier = entry[t].tier
                            /\ new[t].updating = entry[t].updating
    BY <1>1, Parts DEF EntryType, DueNow
  <2>2. ListOK(order, es) /\ Asks(order, es, requests)
    BY <1>2, <2>1, Parts, ReplacedOK
  <2>3. PICK s \in Seq(Trackers) : s = order
    BY Parts
  <2>4. "none" \in Events /\ order' = s /\ ListOK(s, es) /\ Asks(s, es, requests)
    BY <1>4, <2>2, <2>3 DEF Events
  <2>5. ListOK(s, entry') /\ Asks(s, entry', requests') /\ TimerOK'
    BY <1>3, <1>4, <1>7, <2>4, Parts, AnnounceOK, Zenon
  <2>6. QED
    BY <1>3, <1>5, <2>3, <2>5, ListStays, Zenon
<1>8. QED
  BY <1>3, <1>6, <1>7

LEMMA ForceOK == ASSUME IInv, ForceTrackerRequest, calls' \in 0..MaxCalls PROVE IInv'
<1>1. PICK new : new = [t \in Trackers |-> [entry[t] EXCEPT !.next = entry[t].min + 1]]
  OBVIOUS
<1>2. PICK es : es = OnListed(entry, new)
  OBVIOUS
<1>3. /\ switches' = switches /\ requests' = requests /\ Calm /\ order' = order
      /\ posted' = posted /\ entry' = es /\ UpdateTimer
  BY <1>1, <1>2, Zenon DEF ForceTrackerRequest, Calm
<1>4. \A t \in Trackers : /\ new[t] \in EntryType /\ new[t].tier = entry[t].tier
                          /\ new[t].updating = entry[t].updating
  <2>1. SUFFICES ASSUME NEW t \in Trackers
                 PROVE  /\ new[t] \in EntryType /\ new[t].tier = entry[t].tier
                        /\ new[t].updating = entry[t].updating
    OBVIOUS
  <2>2. entry[t] \in EntryType
    BY Parts
  <2>3. entry[t].min + 1 \in Nat
    BY <2>2 DEF EntryType
  <2>4. new[t] = [entry[t] EXCEPT !.next = entry[t].min + 1]
    BY <1>1
  <2>5. QED
    BY <2>2, <2>3, <2>4 DEF EntryType
<1>5. ListOK(order, es) /\ Asks(order, es, requests) /\ es \in [Trackers -> EntryType]
  BY <1>2, <1>4, Parts, ReplacedOK
<1>6. SwitchOK' /\ announcing' = announcing
  BY <1>3, Parts, SwitchesStay
<1>7. NextAnnounce(order', entry') \in Nat \union {Never}
  <2>1. NextAnnounce(order, es) \in Nat \union {Never}
    BY <1>5, Parts, NextType
  <2>2. QED
    BY <1>3, <2>1, Zenon
<1>8. TimerOK'
  BY <1>3, <1>6, <1>7, Parts, TimerUpdated, Zenon
<1>9. QED
  BY <1>3, <1>5, <1>6, <1>8, ListStays, Zenon

LEMMA AbortOK == ASSUME IInv, Abort, calls' \in 0..MaxCalls PROVE IInv'
<1>1. /\ aborted' = TRUE /\ allowPeers' = allowPeers /\ graceful' = graceful
      /\ announceTo' = announceTo /\ checked' = checked /\ progress' = progress /\ Calm
      /\ IF Paused THEN UNCHANGED <<announcing, entry, requests, expires, pending, missed>>
         ELSE StopAnnouncing
  BY Zenon DEF Abort
<1>2. order' = order /\ posted' = posted
  BY <1>1, Zenon DEF Calm
<1>3. CASE Paused
  <2>1. /\ announcing' = announcing /\ entry' = entry /\ requests' = requests
        /\ expires' = expires /\ pending' = pending /\ missed' = missed
    BY <1>1, <1>3
  <2>2. announcing' = FALSE
    BY <1>3, <2>1, Parts, Zenon DEF Paused
  <2>3. TimerOK'
    BY <1>2, <2>1, Parts, TimerStays, Zenon
  <2>4. SwitchOK'
    BY <1>1, <2>2, Parts, Zenon DEF SwitchOK
  <2>5. ListOK(order, entry') /\ Asks(order, entry', requests')
    BY <2>1, Parts, Zenon
  <2>6. QED
    BY <1>1, <2>3, <2>4, <2>5, ListStays, Zenon
<1>4. CASE ~Paused
  <2>1. /\ ListOK(order, entry') /\ Asks(order, entry', requests') /\ TimerOK'
        /\ announcing' = FALSE
    BY <1>1, <1>2, <1>4, StopOK, Zenon
  <2>2. SwitchOK'
    BY <1>1, <2>1, Parts, Zenon DEF SwitchOK
  <2>3. QED
    BY <1>1, <2>1, <2>2, ListStays, Zenon
<1>5. QED
  BY <1>3, <1>4

----------------------------------------------------------------------------
(* The theorems                                                                    *)

LEMMA Inductive == IInv /\ [Next]_vars => IInv'
<1> SUFFICES ASSUME IInv, [Next]_vars PROVE IInv'
  OBVIOUS
<1>1. CASE Expire
  BY <1>1, ExpireOK
<1>2. CASE OnTrackerAnnounce
  BY <1>2, HandlerOK
<1>3. CASE Tick
  BY <1>3, TickOK
<1>4. CASE FilesChecked
  BY <1>4, FilesCheckedOK
<1>5. CASE Calls
  <2>1. calls' \in 0..MaxCalls
    <3>1. PICK c \in 0..MaxCalls : c = calls
      BY Parts DEF TimerOK
    <3>2. calls' = c + 1 /\ c < MaxCalls
      BY <1>5, <3>1 DEF Calls
    <3>3. QED
      BY <3>1, <3>2, TimesAssumption
  <2>2. Pause \/ Resume \/ AutoManage \/ Finished \/ ForceTrackerRequest \/ Abort
    BY <1>5, Zenon DEF Calls
  <2>3. QED
    BY <2>1, <2>2, PauseOK, ResumeOK, AutoManageOK, FinishedOK, ForceOK, AbortOK, Zenon
<1>6. ASSUME NEW t \in Trackers, AddTracker(t) PROVE IInv'
  BY <1>6, AddOK
<1>7. ASSUME NEW t \in Trackers, Answers(t) PROVE IInv'
  BY <1>7, ResponseOK, ErrorOK, Zenon DEF Answers
<1>8. CASE UNCHANGED vars
  <2>1. /\ order' = order /\ entry' = entry /\ lastWorking' = lastWorking /\ worked' = worked
        /\ slipped' = slipped /\ requests' = requests /\ switches' = switches
        /\ expires' = expires /\ pending' = pending /\ posted' = posted /\ calls' = calls
        /\ missed' = missed
    BY <1>8 DEF vars, list, timer
  <2>2. Calm
    BY <2>1 DEF Calm
  <2>3. SwitchOK' /\ announcing' = announcing
    BY <2>1, Parts, SwitchesStay
  <2>4. calls' \in 0..MaxCalls
    BY <2>1, Parts, Zenon DEF TimerOK
  <2>5. TimerOK'
    BY <2>1, <2>3, <2>4, Parts, TimerStays, Zenon
  <2>6. ListOK(order, entry') /\ Asks(order, entry', requests')
    BY <2>1, Parts, Zenon
  <2>7. QED
    BY <2>2, <2>3, <2>5, <2>6, ListStays, Zenon
<1>9. QED
  BY <1>1, <1>2, <1>3, <1>4, <1>5, <1>6, <1>7, <1>8 DEF Next

LEMMA Invariance == Spec => []IInv
<1>1. Init => IInv
  BY Initially
<1>2. IInv /\ [Next]_vars => IInv'
  BY Inductive
<1>3. QED
  BY <1>1, <1>2, PTL DEF Spec

\* when none is awaited, one that lives is behind one that is being asked
LEMMA SomeoneAsked ==
  ASSUME NEW s, NEW es, NEW rs, ListOK(s, es), Asks(s, es, rs), NextAnnounce(s, es) = Never,
         NEW t \in ToSet(s), ~Dead(t, es[t])
  PROVE  \E u \in Trackers : rs[u] # <<>>
<1>1. s \in Seq(Trackers) /\ IsInjective(s) /\ es \in [Trackers -> EntryType]
  BY DEF ListOK, Asks
<1>2. Awaited(s, es) = {}
  <2>1. Never \notin Nat
    BY DEF Never
  <2>2. Awaited(s, es) # {} => NextAnnounce(s, es) \in Nat
    BY <1>1, NextIs
  <2>3. QED
    BY <2>1, <2>2
<1>3. /\ Len(s) \in Nat /\ \A i \in 1..Len(s) : s[i] \in Trackers /\ s[i] \in ToSet(s)
      /\ \E i \in 1..Len(s) : s[i] = t
  BY <1>1, Elements
<1> DEFINE L == {i \in 1..Len(s) : ~Dead(s[i], es[s[i]])}
<1>4. L \in SUBSET Nat /\ L # {}
  BY <1>3
<1>5. PICK i \in L : \A j \in L : i <= j
  BY <1>4, LeastNatural
<1>6. i \in 1..Len(s) /\ ~Dead(s[i], es[s[i]])
  OBVIOUS
<1>7. \A j \in 1..(i - 1) : j \in 1..Len(s) /\ Dead(s[j], es[s[j]])
  <2>1. SUFFICES ASSUME NEW j \in 1..(i - 1) PROVE j \in 1..Len(s) /\ Dead(s[j], es[s[j]])
    OBVIOUS
  <2>2. j \in 1..Len(s) /\ ~(i <= j)
    BY <1>3, <1>6
  <2>3. QED
    BY <1>5, <2>2
<1> HIDE DEF L
<1>8. \A u \in Before(s, s[i]) : ~Working(es[u]) /\ Dead(u, es[u])
  <2>1. SUFFICES ASSUME NEW u \in Before(s, s[i]) PROVE ~Working(es[u]) /\ Dead(u, es[u])
    OBVIOUS
  <2>2. PICK j \in 1..(i - 1) : u = s[j]
    BY <1>1, <1>6, IndexIs
  <2>3. Dead(u, es[u]) /\ u \in Trackers
    BY <1>3, <1>7, <2>2
  <2>4. FailLimit[u] \in Nat /\ es[u].fails \in Nat
    BY <1>1, <2>3, FailAssumption DEF EntryType
  <2>5. es[u].fails # 0
    BY <2>3, <2>4 DEF Dead
  <2>6. QED
    BY <2>3, <2>5 DEF Working
<1>9. es[s[i]].updating
  <2>1. SUFFICES ASSUME ~es[s[i]].updating PROVE FALSE
    OBVIOUS
  <2>2. s[i] \in ToSet(s)
    BY <1>3, <1>6
  <2>3. s[i] \in Awaited(s, es)
    BY <1>6, <1>8, <2>1, <2>2, Zenon DEF Awaited
  <2>4. QED
    BY <1>2, <2>3
<1>10. rs[s[i]] # <<>>
  <2>1. s[i] \in Trackers
    BY <1>3, <1>6
  <2>2. Len(rs[s[i]]) = 1
    BY <1>9, <2>1 DEF Asks, Exact
  <2>3. SUFFICES ASSUME rs[s[i]] = <<>> PROVE FALSE
    OBVIOUS
  <2>4. Len(rs[s[i]]) = Len(<<>>)
    BY <2>3, Zenon
  <2>5. Len(<<>>) = 0
    OBVIOUS
  <2>6. 1 = 0
    BY <2>2, <2>4, <2>5, Zenon
  <2>7. QED
    BY <2>6
<1>11. QED
  BY <1>3, <1>6, <1>10

LEMMA StaysAwake == IInv => Awake
<1> SUFFICES ASSUME IInv, announcing, ~missed, NEW t \in Trackers, Live(t)
             PROVE  \/ posted > 0
                    \/ pending /\ expires # Never
                    \/ \E u \in Trackers : requests[u] # <<>>
  BY Zenon DEF Awake
<1>1. PICK n : n = NextAnnounce(order, entry)
  OBVIOUS
<1>2. Clock(TRUE, FALSE, expires, pending, posted, n)
  BY <1>1, Parts, Zenon DEF TimerOK
<1>3. CASE n = Never
  <2>1. ListOK(order, entry) /\ Asks(order, entry, requests)
    BY Parts
  <2>2. t \in ToSet(order) /\ ~Dead(t, entry[t])
    BY Zenon DEF Live, Listed
  <2>3. \E u \in Trackers : requests[u] # <<>>
    BY <1>1, <1>3, <2>1, <2>2, SomeoneAsked
  <2>4. QED
    BY <2>3
<1>4. CASE n # Never
  <2>1. Past # Never
    BY DEF Past, Never
  <2>2. posted > 0 \/ (pending /\ expires # Never)
    BY <1>2, <1>4, <2>1, Zenon DEF Clock
  <2>3. QED
    BY <2>2
<1>5. QED
  BY <1>3, <1>4

(* For any trackers, tiers, limits and times: the list of trackers holds each once and is      *)
(* sorted by tiers, through every insertion and every answer that moves one, and                *)
(* m_last_working_tracker is an index of it (torrent.cpp:4204, 6164 and 6183).                *)
THEOREM TypeCorrect == Spec => []TypeOK
<1>1. IInv => TypeOK
  <2> SUFFICES ASSUME IInv PROVE TypeOK
    OBVIOUS
  <2>1. /\ order \in Seq(Trackers) /\ IsInjective(order)
        /\ \A i, j \in DOMAIN order : i < j => entry[order[i]].tier <= entry[order[j]].tier
    BY Zenon DEF IInv, ListOK, Sorted
  <2>2. requests \in [Trackers -> Seq(Events)] /\ entry \in [Trackers -> EntryType]
    BY Zenon DEF IInv, Asks
  <2>3. lastWorking \in 0..Len(order) /\ worked \in Trackers \union {NoTracker}
        /\ slipped \in BOOLEAN
    BY Zenon DEF IInv, Names
  <2>4. SwitchOK /\ TimerOK
    BY Zenon DEF IInv
  <2>5. QED
    BY <2>1, <2>2, <2>3, <2>4, Zenon DEF TypeOK, SwitchOK, TimerOK, EntryType
<1>2. QED
  BY <1>1, Invariance, PTL

(* For any trackers, a tracker is marked as updating exactly while the one request to it is     *)
(* out (torrent.cpp:2403 and 2511, torrent_info.cpp:485): neither asked twice nor left for good. *)
THEOREM MarksExact == Spec => []UpdatingExact
<1>1. IInv => UpdatingExact
  BY Zenon DEF IInv, Asks, Exact, UpdatingExact
<1>2. QED
  BY <1>1, Invariance, PTL

(* For any list, m_last_working_tracker names the tracker that answered last, wherever the      *)
(* failures of others and insertions have moved it, except when one was inserted right in      *)
(* front of it (torrent.cpp:4213).                                                        *)
THEOREM LastWorkingFollows == Spec => []LastWorkingNamed
<1>1. IInv => LastWorkingNamed
  BY Zenon DEF IInv, Names, LastWorkingNamed
<1>2. QED
  BY <1>1, Invariance, PTL

(* For any trackers and times, no wake-up is lost: a torrent that announces, and was not        *)
(* denied its turn when it last tried to, waits for an answer, for the posted handler, or for a *)
(* timer that fires as soon as a tracker it has not given up is due (torrent.cpp:7206).        *)
THEOREM NoWakeUpLost == Spec => []Awake
<1>1. IInv => Awake
  BY StaysAwake
<1>2. QED
  BY <1>1, Invariance, PTL
=============================================================================
