------------------------ MODULE WinTorrentUser_proofs ------------------------
(***************************************************************************)
(* What the application may rely on when it uses WinTorrent within limits:   *)
(* the last pause or resume it asked for wins, when no directory is scanned  *)
(* behind its back, and every torrent can be reached by a tag, when each tag  *)
(* is added once.                                                          *)
(***************************************************************************)
EXTENDS WinTorrent_proofs

----------------------------------------------------------------------------
(* The last of some elements in a queue                                           *)

Absent(q, X) == \A i \in DOMAIN q : q[i] \notin X
Final(q, X, g) == \E i \in DOMAIN q : q[i] = g /\ \A j \in DOMAIN q : j > i => q[j] \notin X

LEMMA TailPlaces ==
  ASSUME NEW S, NEW q \in Seq(S), q # <<>>
  PROVE  /\ DOMAIN q = 1..Len(q) /\ DOMAIN Tail(q) = 1..(Len(q) - 1) /\ Len(q) \in Nat \ {0}
         /\ \A i \in 1..(Len(q) - 1) : Tail(q)[i] = q[i + 1]
         /\ q[1] = Head(q) /\ Tail(q) \in Seq(S)
<1>1. Len(q) \in Nat \ {0} /\ DOMAIN q = 1..Len(q) /\ Head(q) = q[1]
  BY LenProperties, EmptySeq, HeadTailProperties
<1>2. /\ Tail(q) \in Seq(S) /\ Len(Tail(q)) = Len(q) - 1
      /\ \A i \in 1..Len(Tail(q)) : Tail(q)[i] = q[i + 1]
  BY HeadTailProperties
<1>3. DOMAIN Tail(q) = 1..Len(Tail(q))
  BY <1>2, LenProperties
<1>4. QED
  BY <1>1, <1>2, <1>3

LEMMA AbsentTail ==
  ASSUME NEW S, NEW q \in Seq(S), q # <<>>, NEW X, Absent(q, X)
  PROVE  Absent(Tail(q), X) /\ Head(q) \notin X
<1>1. PICK n \in Nat \ {0}, t \in {Tail(q)} : n = Len(q) /\ t = Tail(q)
  BY TailPlaces
<1>2. /\ DOMAIN q = 1..n /\ DOMAIN t = 1..(n - 1) /\ q[1] = Head(q)
      /\ \A i \in 1..(n - 1) : t[i] = q[i + 1]
  BY <1>1, TailPlaces
<1>3. \A i \in 1..(n - 1) : i + 1 \in 1..n
  OBVIOUS
<1>4. 1 \in 1..n
  OBVIOUS
<1>5. QED
  BY <1>1, <1>2, <1>3, <1>4 DEF Absent

LEMMA FinalTail ==
  ASSUME NEW S, NEW q \in Seq(S), q # <<>>, NEW X, NEW g, Final(q, X, g)
  PROVE  Final(Tail(q), X, g) \/ (Head(q) = g /\ Absent(Tail(q), X))
<1>1. PICK n \in Nat \ {0}, t \in {Tail(q)} : n = Len(q) /\ t = Tail(q)
  BY TailPlaces
<1>2. /\ DOMAIN q = 1..n /\ DOMAIN t = 1..(n - 1) /\ q[1] = Head(q)
      /\ \A i \in 1..(n - 1) : t[i] = q[i + 1]
  BY <1>1, TailPlaces
<1>3. PICK i \in 1..n : q[i] = g /\ \A j \in 1..n : j > i => q[j] \notin X
  BY <1>2 DEF Final
<1>4. \A k \in 1..(n - 1) : k + 1 \in 1..n
  OBVIOUS
<1>5. CASE i = 1
  <2>1. \A k \in 1..(n - 1) : t[k] \notin X
    BY <1>2, <1>3, <1>4, <1>5
  <2>2. QED
    BY <1>1, <1>2, <1>3, <1>5, <2>1 DEF Absent
<1>6. CASE i # 1
  <2>1. i - 1 \in 1..(n - 1) /\ (i - 1) + 1 = i
    BY <1>3, <1>6
  <2>2. t[i - 1] = g
    BY <1>2, <1>3, <2>1
  <2>3. \A k \in 1..(n - 1) : k > i - 1 => t[k] \notin X
    <3>1. \A k \in 1..(n - 1) : k > i - 1 => k + 1 > i
      OBVIOUS
    <3>2. QED
      BY <1>2, <1>3, <1>4, <3>1
  <2>4. QED
    BY <1>1, <1>2, <2>1, <2>2, <2>3 DEF Final
<1>7. QED
  BY <1>5, <1>6

LEMMA ConcatPlaces ==
  ASSUME NEW S, NEW q \in Seq(S), NEW p \in Seq(S)
  PROVE  /\ Len(q) \in Nat /\ Len(p) \in Nat /\ DOMAIN q = 1..Len(q) /\ DOMAIN p = 1..Len(p)
         /\ DOMAIN (q \o p) = 1..(Len(q) + Len(p))
         /\ \A i \in 1..(Len(q) + Len(p)) :
              (q \o p)[i] = IF i <= Len(q) THEN q[i] ELSE p[i - Len(q)]
  BY ConcatProperties, LenProperties

LEMMA AbsentConcat ==
  ASSUME NEW S, NEW q \in Seq(S), NEW p \in Seq(S), NEW X, Absent(p, X)
  PROVE  /\ Absent(q, X) => Absent(q \o p, X)
         /\ \A g : Final(q, X, g) => Final(q \o p, X, g)
<1>1. PICK m \in Nat, n \in Nat, r \in {q \o p} : m = Len(q) /\ n = Len(p) /\ r = q \o p
  BY LenProperties
<1>2. /\ DOMAIN q = 1..m /\ DOMAIN p = 1..n /\ DOMAIN r = 1..(m + n)
      /\ \A i \in 1..(m + n) : r[i] = IF i <= m THEN q[i] ELSE p[i - m]
  BY <1>1, ConcatPlaces
<1>3. \A i \in 1..(m + n) : i > m => r[i] \notin X
  <2>1. \A i \in 1..(m + n) : i > m => i - m \in 1..n /\ ~(i <= m)
    OBVIOUS
  <2>2. QED
    BY <1>2, <2>1 DEF Absent
<1>4. \A i \in 1..m : i \in 1..(m + n) /\ r[i] = q[i]
  BY <1>2
<1>5. \A i \in 1..(m + n) : i > m \/ i \in 1..m
  OBVIOUS
<1>6. Absent(q, X) => Absent(r, X)
  BY <1>2, <1>3, <1>4, <1>5 DEF Absent
<1>7. ASSUME NEW g, Final(q, X, g)
      PROVE  Final(r, X, g)
  <2>1. PICK i \in 1..m : q[i] = g /\ \A j \in 1..m : j > i => q[j] \notin X
    BY <1>2, <1>7 DEF Final
  <2>2. \A j \in 1..(m + n) : j > i => r[j] \notin X
    BY <1>3, <1>4, <1>5, <2>1
  <2>3. QED
    BY <1>2, <1>4, <2>1, <2>2 DEF Final
<1>8. QED
  BY <1>1, <1>6, <1>7

LEMMA FinalConcat ==
  ASSUME NEW S, NEW q \in Seq(S), NEW p \in Seq(S), NEW X, NEW g, Final(p, X, g)
  PROVE  Final(q \o p, X, g)
<1>1. PICK m \in Nat, n \in Nat, r \in {q \o p} : m = Len(q) /\ n = Len(p) /\ r = q \o p
  BY LenProperties
<1>2. /\ DOMAIN q = 1..m /\ DOMAIN p = 1..n /\ DOMAIN r = 1..(m + n)
      /\ \A i \in 1..(m + n) : r[i] = IF i <= m THEN q[i] ELSE p[i - m]
  BY <1>1, ConcatPlaces
<1>3. PICK i \in 1..n : p[i] = g /\ \A j \in 1..n : j > i => p[j] \notin X
  BY <1>2 DEF Final
<1>4. m + i \in 1..(m + n) /\ ~(m + i <= m) /\ (m + i) - m = i
  OBVIOUS
<1>5. r[m + i] = g
  BY <1>2, <1>3, <1>4
<1>6. \A j \in 1..(m + n) : j > m + i => j - m \in 1..n /\ j - m > i /\ ~(j <= m)
  OBVIOUS
<1>7. \A j \in 1..(m + n) : j > m + i => r[j] \notin X
  BY <1>2, <1>3, <1>6
<1>8. QED
  BY <1>1, <1>2, <1>4, <1>5, <1>7 DEF Final

----------------------------------------------------------------------------
(* The user's last word                                                           *)

\* the requests that decide whether o runs
Autos(o) == {AutoRequest(o, b) : b \in BOOLEAN}
Words(o) == Autos(o) \cup {Request("pause_gracefully", o), Request("resume", o)}

\* is_paused() of the torrent t
Held(t, s) == ~t.allow \/ s \/ t.graceful

\* once the requests in q have run, o is auto-managed just if b, and is paused
AutoEnds(q, o, b, t) ==
    Final(q, Autos(o), AutoRequest(o, b)) \/ (Absent(q, Autos(o)) /\ t.auto = b)
PauseEnds(q, o, t, s) ==
    Final(q, Words(o), Request("pause_gracefully", o)) \/ (Absent(q, Words(o)) /\ Held(t, s))

\* what the user wished of o holds, or will when the requests in q have run
Granted(q, o, t, s, w) ==
    /\ w = "pause" => AutoEnds(q, o, FALSE, t) /\ PauseEnds(q, o, t, s)
    /\ w = "run"   => AutoEnds(q, o, TRUE, t)

Wishes == {"none", "pause", "run"}
WInv ==
    /\ IInv
    /\ wish \in [Objs -> Wishes] /\ \A o \in Objs \ Created : wish[o] = "none"
    /\ \A o \in Created : Granted(ioq, o, torrent[o], sesPaused, wish[o])
    /\ phase \notin {"scan", "scanning", "saving"}

LEMMA WordIs ==
  ASSUME NEW m \in Nat, NEW h \in HandlersOf(m), NEW o \in 1..m
  PROVE  /\ h \in Autos(o) <=> h.op = "auto" /\ h.obj = o
         /\ h \in Words(o) <=> h.op \in {"auto", "pause_gracefully", "resume"} /\ h.obj = o
         /\ \A b \in BOOLEAN : h = AutoRequest(o, b) => h.op = "auto" /\ h.obj = o /\ h.to = b
         /\ h = Request("pause_gracefully", o) => h.op = "pause_gracefully" /\ h.obj = o
<1>1. CASE h \in [op : Plain, obj : 1..m]
  BY <1>1 DEF Plain, Autos, Words, AutoRequest, Request
<1>2. CASE h \in [op : {"auto"}, obj : 1..m, to : BOOLEAN]
  BY <1>2 DEF Autos, Words, AutoRequest, Request
<1>3. CASE h \in [op : {"add"}, obj : {None}, tag : Tags]
  BY <1>3 DEF Autos, Words, AutoRequest, Request
<1>4. CASE h \in [op : {"updates", "pause_session"}, obj : {None}]
  BY <1>4 DEF Autos, Words, AutoRequest, Request
<1>5. QED
  BY <1>1, <1>2, <1>3, <1>4, Zenon DEF HandlersOf

LEMMA AutosAreWords ==
  ASSUME NEW o, NEW q, Absent(q, Words(o))
  PROVE  Absent(q, Autos(o)) /\ \A g \in Autos(o) : ~Final(q, Autos(o), g)
  BY DEF Absent, Final, Words

\* the request at the head of the queue runs
LEMMA GrantedTail ==
  ASSUME NEW m \in Nat, NEW q \in Seq(HandlersOf(m)), q # <<>>, NEW o \in 1..m, NEW w,
         NEW t, NEW s, NEW u, NEW v, Granted(q, o, t, s, w),
         \A b \in BOOLEAN : Head(q) = AutoRequest(o, b) => u.auto = b,
         Head(q) \notin Autos(o) => u.auto = t.auto,
         Head(q) = Request("pause_gracefully", o) => Held(u, v),
         Head(q) \notin Words(o) /\ Held(t, s) => Held(u, v)
  PROVE  Granted(Tail(q), o, u, v, w)
<1>1. ASSUME NEW b \in BOOLEAN, AutoEnds(q, o, b, t)
      PROVE  AutoEnds(Tail(q), o, b, u)
  <2>1. CASE Final(q, Autos(o), AutoRequest(o, b))
    <3>1. \/ Final(Tail(q), Autos(o), AutoRequest(o, b))
          \/ Head(q) = AutoRequest(o, b) /\ Absent(Tail(q), Autos(o))
      BY <2>1, FinalTail
    <3>2. QED
      BY <3>1 DEF AutoEnds
  <2>2. CASE Absent(q, Autos(o)) /\ t.auto = b
    <3>1. Absent(Tail(q), Autos(o)) /\ Head(q) \notin Autos(o)
      BY <2>2, AbsentTail
    <3>2. QED
      BY <2>2, <3>1 DEF AutoEnds
  <2>3. QED
    BY <1>1, <2>1, <2>2 DEF AutoEnds
<1>2. ASSUME PauseEnds(q, o, t, s)
      PROVE  PauseEnds(Tail(q), o, u, v)
  <2>1. CASE Final(q, Words(o), Request("pause_gracefully", o))
    <3>1. \/ Final(Tail(q), Words(o), Request("pause_gracefully", o))
          \/ Head(q) = Request("pause_gracefully", o) /\ Absent(Tail(q), Words(o))
      BY <2>1, FinalTail
    <3>2. QED
      BY <3>1 DEF PauseEnds
  <2>2. CASE Absent(q, Words(o)) /\ Held(t, s)
    <3>1. Absent(Tail(q), Words(o)) /\ Head(q) \notin Words(o)
      BY <2>2, AbsentTail
    <3>2. QED
      BY <2>2, <3>1 DEF PauseEnds
  <2>3. QED
    BY <1>2, <2>1, <2>2 DEF PauseEnds
<1>3. QED
  BY <1>1, <1>2 DEF Granted

\* requests are posted that do not decide about o
LEMMA GrantedConcat ==
  ASSUME NEW m \in Nat, NEW q \in Seq(HandlersOf(m)), NEW p \in Seq(HandlersOf(m)), NEW o, NEW w,
         NEW t, NEW s, Granted(q, o, t, s, w), Absent(p, Words(o))
  PROVE  Granted(q \o p, o, t, s, w)
<1>1. Absent(p, Autos(o))
  BY DEF Absent, Words
<1>2. ASSUME NEW b, AutoEnds(q, o, b, t)
      PROVE  AutoEnds(q \o p, o, b, t)
  BY <1>1, <1>2, AbsentConcat DEF AutoEnds
<1>3. ASSUME PauseEnds(q, o, t, s)
      PROVE  PauseEnds(q \o p, o, t, s)
  BY <1>3, AbsentConcat DEF PauseEnds
<1>4. QED
  BY <1>2, <1>3 DEF Granted

\* the torrent changes outside its queue: a torrent that has been taken out of
\* auto-management by the last word stays as it is
LEMMA GrantedStays ==
  ASSUME NEW q, NEW o, NEW w, NEW t, NEW s, NEW u, NEW v, Granted(q, o, t, s, w),
         u.auto = t.auto, Held(t, s) /\ ~t.auto => Held(u, v)
  PROVE  Granted(q, o, u, v, w)
<1>1. \A b : AutoEnds(q, o, b, t) => AutoEnds(q, o, b, u)
  BY DEF AutoEnds
<1>2. AutoEnds(q, o, FALSE, t) /\ PauseEnds(q, o, t, s) => PauseEnds(q, o, u, v)
  <2>1. SUFFICES ASSUME AutoEnds(q, o, FALSE, t), Absent(q, Words(o)), Held(t, s)
                 PROVE  Held(u, v)
    BY DEF PauseEnds
  <2>2. AutoRequest(o, FALSE) \in Autos(o)
    BY DEF Autos
  <2>3. ~Final(q, Autos(o), AutoRequest(o, FALSE))
    BY <2>1, <2>2, AutosAreWords
  <2>4. t.auto = FALSE
    BY <2>1, <2>3 DEF AutoEnds
  <2>5. QED
    BY <2>1, <2>4
<1>3. QED
  BY <1>1, <1>2 DEF Granted

----------------------------------------------------------------------------
(* What the engine does to a wish                                                 *)

Same(t, u) == u.auto = t.auto /\ u.allow = t.allow /\ u.graceful = t.graceful

LEMMA SameExcept ==
  ASSUME NEW f \in Torrents, NEW o \in Objs, NEW p
  PROVE  /\ Same(f[o], f[o])
         /\ Same(f[o], [f EXCEPT ![p].aborted = TRUE][o])
         /\ Same(f[o], [f EXCEPT ![p].dirty = TRUE][o])
         /\ Same(f[o], [f EXCEPT ![p].meta = TRUE][o])
         /\ Same(f[o], [f EXCEPT ![p] = [f[p] EXCEPT !.finished = TRUE, !.dirty = TRUE]][o])
<1>1. f[o] \in TorrentType
  BY DEF Torrents
<1>2. CASE o = p
  BY <1>1, <1>2 DEF Same, Torrents, TorrentType
<1>3. CASE o # p
  BY <1>1, <1>3 DEF Same, Torrents
<1>4. QED
  BY <1>2, <1>3

LEMMA SameHeld ==
  ASSUME NEW t, NEW u, Same(t, u), NEW s, NEW v, s => v
  PROVE  u.auto = t.auto /\ (Held(t, s) => Held(u, v))
  BY DEF Same, Held

\* what the lemmas below start from
Facts(o, w) ==
    /\ EngineOK /\ o \in Created /\ Granted(ioq, o, torrent[o], sesPaused, w)

LEMMA FactsAre ==
  ASSUME NEW o, NEW w, Facts(o, w)
  PROVE  /\ made \in Nat /\ ioq \in Seq(HandlersOf(made)) /\ jobs \in Seq(JobsOf(made))
         /\ o \in 1..made /\ o \in Objs /\ torrent \in Torrents /\ torrent[o] \in TorrentType
         /\ sesPaused \in BOOLEAN /\ Granted(ioq, o, torrent[o], sesPaused, w)
<1>1. /\ made \in Nat /\ ioq \in Seq(HandlersOf(made)) /\ jobs \in Seq(JobsOf(made))
      /\ torrent \in Torrents /\ sesPaused \in BOOLEAN
  BY FitsIs DEF Facts, EngineOK
<1>2. o \in 1..made /\ o \in Objs
  BY CreatedAreObjs DEF Facts, Created
<1>3. QED
  BY <1>1, <1>2 DEF Facts, Torrents

LEMMA HeadRuns ==
  ASSUME NEW o, NEW w, Facts(o, w), NEW op, Runs(op)
  PROVE  /\ ioq # <<>> /\ ioq' = Tail(ioq) /\ Head(ioq) \in HandlersOf(made) /\ Head(ioq).op = op
<1>1. ioq # <<>> /\ Head(ioq).op = op /\ ioq' = Tail(ioq)
  BY DEF Runs
<1>2. Head(ioq) \in HandlersOf(made)
  BY <1>1, FactsAre, HeadTailProperties
<1>3. QED
  BY <1>1, <1>2

\* a handler runs that does not decide about o
LEMMA QuietRun ==
  ASSUME NEW o, NEW w, Facts(o, w), NEW op, Runs(op),
         op \notin {"auto", "pause_gracefully", "resume"} \/ Head(ioq).obj # o,
         NEW u, NEW v, u.auto = torrent[o].auto, Held(torrent[o], sesPaused) => Held(u, v)
  PROVE  Granted(ioq', o, u, v, w)
<1>1. PICK m, h, q : m = made /\ h = Head(ioq) /\ q = ioq
  OBVIOUS
<1>2. /\ m \in Nat /\ h \in HandlersOf(m) /\ q \in Seq(HandlersOf(m)) /\ q # <<>> /\ h = Head(q)
      /\ h.op = op /\ ioq' = Tail(q) /\ o \in 1..m /\ Granted(q, o, torrent[o], sesPaused, w)
  BY <1>1, FactsAre, HeadRuns
<1>3. h \notin Words(o)
  BY <1>1, <1>2, WordIs
<1>4. h \notin Autos(o) /\ h # Request("pause_gracefully", o)
      /\ \A b \in BOOLEAN : h # AutoRequest(o, b)
  BY <1>3 DEF Words, Autos
<1>5. Granted(Tail(q), o, u, v, w)
  BY <1>2, <1>3, <1>4, GrantedTail
<1>6. QED
  BY <1>2, <1>5

LEMMA AddGrants ==
  ASSUME NEW o, NEW w, Facts(o, w), AddTorrent
  PROVE  Granted(ioq', o, torrent'[o], sesPaused', w)
<1>1. Runs("add") /\ sesPaused' = sesPaused
  BY DEF AddTorrent
<1>2. torrent'[o] = torrent[o]
  <2>1. CASE torrent' = torrent
    BY <2>1
  <2>2. CASE \E r : torrent' = [torrent EXCEPT ![made + 1] = r]
    <3>1. o # made + 1
      BY FactsAre
    <3>2. QED
      BY <2>2, <3>1, FactsAre DEF Torrents
  <2>3. QED
    BY <2>1, <2>2 DEF AddTorrent
<1>3. QED
  BY <1>1, <1>2, QuietRun

LEMMA RemoveGrants ==
  ASSUME NEW o, NEW w, Facts(o, w), RemoveTorrent
  PROVE  Granted(ioq', o, torrent'[o], sesPaused', w)
<1>1. Runs("remove") /\ sesPaused' = sesPaused
  BY DEF RemoveTorrent
<1>2. torrent' = torrent \/ \E p : torrent' = [torrent EXCEPT ![p].aborted = TRUE]
  BY DEF RemoveTorrent
<1>3. PICK u : u = torrent'[o] /\ Same(torrent[o], u)
  BY <1>2, FactsAre, SameExcept
<1>4. u.auto = torrent[o].auto /\ (Held(torrent[o], sesPaused) => Held(u, sesPaused))
  BY <1>3, SameHeld
<1>5. QED
  BY <1>1, <1>3, <1>4, QuietRun

LEMMA SaveGrants ==
  ASSUME NEW o, NEW w, Facts(o, w), SaveResumeData \/ OnSaveResumeData
  PROVE  Granted(ioq', o, torrent'[o], sesPaused', w)
<1>1. PICK op \in {"save", "on_save"} : Runs(op) /\ sesPaused' = sesPaused
  BY DEF SaveResumeData, OnSaveResumeData
<1>2. torrent' = torrent \/ \E p : torrent' = [torrent EXCEPT ![p].dirty = TRUE]
  BY DEF SaveResumeData, OnSaveResumeData
<1>3. PICK u : u = torrent'[o] /\ Same(torrent[o], u)
  BY <1>2, FactsAre, SameExcept
<1>4. u.auto = torrent[o].auto /\ (Held(torrent[o], sesPaused) => Held(u, sesPaused))
  BY <1>3, SameHeld
<1>5. QED
  BY <1>1, <1>3, <1>4, QuietRun

LEMMA PauseSessionGrants ==
  ASSUME NEW o, NEW w, Facts(o, w), PauseSession
  PROVE  Granted(ioq', o, torrent'[o], sesPaused', w)
<1>1. Runs("pause_session") /\ sesPaused' = TRUE
  BY DEF PauseSession
<1>2. torrent'[o].auto = torrent[o].auto
  <2>1. CASE torrent' = torrent
    BY <2>1
  <2>2. CASE torrent' = [p \in Objs |-> [torrent[p] EXCEPT !.dirty = @ \/ p \in Listed]]
    BY <2>2, FactsAre DEF TorrentType
  <2>3. QED
    BY <2>1, <2>2 DEF PauseSession
<1>3. PICK u : u = torrent'[o] /\ u.auto = torrent[o].auto
  BY <1>2
<1>4. Held(u, TRUE)
  BY DEF Held
<1>5. QED
  BY <1>1, <1>3, <1>4, QuietRun

LEMMA UpdatesGrant ==
  ASSUME NEW o, NEW w, Facts(o, w), PostTorrentUpdates
  PROVE  Granted(ioq', o, torrent'[o], sesPaused', w)
<1>1. /\ Runs("updates") /\ sesPaused' = sesPaused
      /\ torrent' = [p \in Objs |-> [torrent[p] EXCEPT !.dirty = FALSE]]
  BY DEF PostTorrentUpdates
<1>2. PICK u : u = torrent'[o]
  OBVIOUS
<1>3. u = [torrent[o] EXCEPT !.dirty = FALSE]
  BY <1>1, <1>2, FactsAre
<1>4. Same(torrent[o], u)
  BY <1>3, FactsAre DEF Same, TorrentType
<1>5. u.auto = torrent[o].auto /\ (Held(torrent[o], sesPaused) => Held(u, sesPaused))
  BY <1>4, SameHeld
<1>6. QED
  BY <1>1, <1>2, <1>5, QuietRun

LEMMA CompletionGrants ==
  ASSUME NEW o, NEW w, Facts(o, w), OnTorrentPaused \/ OnFilesReleased
  PROVE  Granted(ioq', o, torrent'[o], sesPaused', w)
<1>1. PICK op \in {"on_paused", "on_released"} :
        Runs(op) /\ sesPaused' = sesPaused /\ torrent' = torrent
  BY DEF OnTorrentPaused, OnFilesReleased
<1>2. QED
  BY <1>1, QuietRun

LEMMA DiskGrants ==
  ASSUME NEW o, NEW w, Facts(o, w), DiskThread
  PROVE  Granted(ioq', o, torrent'[o], sesPaused', w)
<1>1. PICK m \in Nat : m = made /\ ioq \in Seq(HandlersOf(m)) /\ jobs \in Seq(JobsOf(m))
  BY FactsAre
<1>2. jobs # <<>> /\ torrent' = torrent /\ sesPaused' = sesPaused
  BY DEF DiskThread
<1>3. PICK j \in JobsOf(m) : j = Head(jobs)
  BY <1>1, <1>2, HeadTailProperties
<1>4. PICK op : op = CASE j.op = "save_job"       -> "on_save"
                       [] j.op = "release_paused" -> "on_paused"
                       [] OTHER                   -> "on_released"
  OBVIOUS
<1>5. PICK h : h = [j EXCEPT !.op = op] /\ ioq' = Append(ioq, h)
  BY <1>3, <1>4 DEF DiskThread
<1>6. op \in {"on_save", "on_paused", "on_released"}
  BY <1>4
<1>7. h \in HandlersOf(m) /\ h.op = op
  <2>1. h.op = op /\ h.obj = j.obj /\ h \in [op : Plain, obj : 1..m]
    BY <1>5, <1>6 DEF JobsOf, Plain
  <2>2. QED
    BY <2>1 DEF HandlersOf
<1>8. h \notin Words(o)
  BY <1>1, <1>6, <1>7, FactsAre, WordIs
<1>9. PICK p \in Seq(HandlersOf(m)) : p = <<h>>
  BY <1>7, Short
<1>10. Absent(p, Words(o))
  BY <1>8, <1>9 DEF Absent
<1>11. ioq' = ioq \o p
  BY <1>1, <1>5, <1>7, <1>9, AppendIsConcat
<1>12. Granted(ioq \o p, o, torrent[o], sesPaused, w)
  BY <1>1, <1>10, FactsAre, GrantedConcat
<1>13. QED
  BY <1>2, <1>11, <1>12

LEMMA EventGrants ==
  ASSUME NEW o, NEW w, Facts(o, w), NEW p, Metadata(p) \/ Finish(p)
  PROVE  Granted(ioq', o, torrent'[o], sesPaused', w)
<1>1. ioq' = ioq /\ sesPaused' = sesPaused
  BY DEF Metadata, Finish
<1>2. \/ torrent' = [torrent EXCEPT ![p].meta = TRUE]
      \/ torrent' = [torrent EXCEPT ![p] = [torrent[p] EXCEPT !.finished = TRUE, !.dirty = TRUE]]
  BY DEF Metadata, Finish
<1>3. PICK u : u = torrent'[o] /\ Same(torrent[o], u)
  BY <1>2, FactsAre, SameExcept
<1>4. u.auto = torrent[o].auto /\ (Held(torrent[o], sesPaused) => Held(u, sesPaused))
  BY <1>3, SameHeld
<1>5. Granted(ioq, o, u, sesPaused, w)
  BY <1>4, FactsAre, GrantedStays
<1>6. QED
  BY <1>1, <1>3, <1>5

\* the steps that decide about a torrent
LEMMA AutoGrants ==
  ASSUME NEW o, NEW w, Facts(o, w), SetAutoManaged
  PROVE  Granted(ioq', o, torrent'[o], sesPaused', w)
<1>1. Runs("auto") /\ sesPaused' = sesPaused
  BY DEF SetAutoManaged
<1>2. PICK m, h, q :
        /\ m = made /\ h = Head(q) /\ q = ioq
        /\ m \in Nat /\ h \in HandlersOf(m) /\ q \in Seq(HandlersOf(m))
  BY <1>1, FactsAre, HeadRuns
<1>3. /\ q # <<>> /\ h.op = "auto" /\ ioq' = Tail(q) /\ o \in 1..m
      /\ Granted(q, o, torrent[o], sesPaused, w)
  BY <1>1, <1>2, FactsAre, HeadRuns
<1>4. h.to \in BOOLEAN
  BY <1>2, <1>3, HandlerIs
<1>5. PICK b, d, p :
        b \in BOOLEAN /\ b = h.to /\ p = h.obj /\ d = (torrent[p].dirty \/ torrent[p].auto # b)
  BY <1>4
<1>6. torrent' = [torrent EXCEPT ![p] = [torrent[p] EXCEPT !.auto = b, !.dirty = d]]
  BY <1>2, <1>5 DEF SetAutoManaged
<1>7. CASE p # o
  <2>1. torrent'[o] = torrent[o]
    BY <1>6, <1>7, FactsAre DEF Torrents
  <2>2. QED
    BY <1>1, <1>2, <1>5, <1>7, <2>1, QuietRun
<1>8. CASE p = o
  <2>1. PICK u : u = torrent'[o]
    OBVIOUS
  <2>2. u = [torrent[o] EXCEPT !.auto = b, !.dirty = d]
    BY <1>6, <1>8, <2>1, FactsAre DEF Torrents
  <2>3. u.auto = b
    BY <2>2, FactsAre DEF TorrentType
  <2>4. h \in Autos(o) /\ h \in Words(o)
    BY <1>2, <1>3, <1>5, <1>8, WordIs
  <2>5. \A c \in BOOLEAN : h = AutoRequest(o, c) => u.auto = c
    BY <1>2, <1>3, <1>5, <2>3, WordIs
  <2>6. h # Request("pause_gracefully", o)
    BY <1>2, <1>3, WordIs
  <2>7. Granted(Tail(q), o, u, sesPaused, w)
    BY <1>2, <1>3, <2>4, <2>5, <2>6, GrantedTail
  <2>8. QED
    BY <1>1, <1>3, <2>1, <2>7
<1>9. QED
  BY <1>7, <1>8

LEMMA PauseGrants ==
  ASSUME NEW o, NEW w, Facts(o, w), PauseTorrent
  PROVE  Granted(ioq', o, torrent'[o], sesPaused', w)
<1>1. PICK graceful \in BOOLEAN :
        /\ Runs(IF graceful THEN "pause_gracefully" ELSE "pause")
        /\ LET p == Head(ioq).obj
           IN  IF ~torrent[p].allow
                 THEN torrent' = torrent
                 ELSE torrent' = [torrent EXCEPT ![p] =
                         [@ EXCEPT !.allow = graceful, !.graceful = graceful, !.dirty = TRUE]]
        /\ sesPaused' = sesPaused
  BY DEF PauseTorrent
<1>2. PICK op \in {"pause_gracefully", "pause"} :
        op = (IF graceful THEN "pause_gracefully" ELSE "pause") /\ Runs(op)
  BY <1>1
<1>3. PICK m, h, q :
        /\ m = made /\ h = Head(q) /\ q = ioq
        /\ m \in Nat /\ h \in HandlersOf(m) /\ q \in Seq(HandlersOf(m))
  BY <1>2, FactsAre, HeadRuns
<1>4. /\ q # <<>> /\ h.op = op /\ ioq' = Tail(q) /\ o \in 1..m
      /\ Granted(q, o, torrent[o], sesPaused, w)
  BY <1>2, <1>3, FactsAre, HeadRuns
<1>5. PICK p : p = h.obj
  OBVIOUS
<1>6. IF ~torrent[p].allow
        THEN torrent' = torrent
        ELSE torrent' = [torrent EXCEPT ![p] =
                [torrent[p] EXCEPT !.allow = graceful, !.graceful = graceful, !.dirty = TRUE]]
  BY <1>1, <1>3, <1>5
<1>7. CASE p # o
  <2>1. torrent'[o] = torrent[o]
    BY <1>6, <1>7, FactsAre DEF Torrents
  <2>2. QED
    BY <1>1, <1>2, <1>3, <1>5, <1>7, <2>1, QuietRun
<1>8. CASE p = o
  <2>1. PICK u : u = torrent'[o]
    OBVIOUS
  <2>2. \/ ~torrent[o].allow /\ u = torrent[o]
        \/ u = [torrent[o] EXCEPT !.allow = graceful, !.graceful = graceful, !.dirty = TRUE]
    BY <1>6, <1>8, <2>1, FactsAre DEF Torrents
  <2>3. u.auto = torrent[o].auto /\ Held(u, sesPaused)
    BY <2>2, FactsAre DEF TorrentType, Held
  <2>4. \A b \in BOOLEAN : h # AutoRequest(o, b)
    BY <1>2, <1>3, <1>4, WordIs
  <2>5. Granted(Tail(q), o, u, sesPaused, w)
    BY <1>3, <1>4, <2>3, <2>4, GrantedTail
  <2>6. QED
    BY <1>1, <1>4, <2>1, <2>5
<1>9. QED
  BY <1>7, <1>8

LEMMA ResumeGrants ==
  ASSUME NEW o, NEW w, Facts(o, w), ResumeTorrent
  PROVE  Granted(ioq', o, torrent'[o], sesPaused', w)
<1>1. Runs("resume") /\ sesPaused' = sesPaused
  BY DEF ResumeTorrent
<1>2. PICK m, h, q :
        /\ m = made /\ h = Head(q) /\ q = ioq
        /\ m \in Nat /\ h \in HandlersOf(m) /\ q \in Seq(HandlersOf(m))
  BY <1>1, FactsAre, HeadRuns
<1>3. /\ q # <<>> /\ h.op = "resume" /\ ioq' = Tail(q) /\ o \in 1..m
      /\ Granted(q, o, torrent[o], sesPaused, w)
  BY <1>1, <1>2, FactsAre, HeadRuns
<1>4. PICK p, g, d : p = h.obj /\ g = (torrent[p].graceful /\ sesPaused)
                     /\ d = (torrent[p].dirty \/ ~sesPaused)
  OBVIOUS
<1>5. \/ torrent' = torrent
      \/ torrent' = [torrent EXCEPT ![p] =
            [torrent[p] EXCEPT !.allow = TRUE, !.graceful = g, !.dirty = d]]
  BY <1>2, <1>4 DEF ResumeTorrent
<1>6. CASE p # o
  <2>1. torrent'[o] = torrent[o]
    BY <1>5, <1>6, FactsAre DEF Torrents
  <2>2. QED
    BY <1>1, <1>2, <1>4, <1>6, <2>1, QuietRun
<1>7. CASE p = o
  <2>1. PICK u : u = torrent'[o]
    OBVIOUS
  <2>2. u = torrent[o] \/ u = [torrent[o] EXCEPT !.allow = TRUE, !.graceful = g, !.dirty = d]
    BY <1>5, <1>7, <2>1, FactsAre DEF Torrents
  <2>3. u.auto = torrent[o].auto
    BY <2>2, FactsAre DEF TorrentType
  <2>4. h \in Words(o) /\ h # Request("pause_gracefully", o)
    BY <1>2, <1>3, <1>4, <1>7, WordIs
  <2>5. \A b \in BOOLEAN : h # AutoRequest(o, b)
    BY <1>2, <1>3, WordIs
  <2>6. Granted(Tail(q), o, u, sesPaused, w)
    BY <1>2, <1>3, <2>3, <2>4, <2>5, GrantedTail
  <2>7. QED
    BY <1>1, <1>3, <2>1, <2>6
<1>8. QED
  BY <1>6, <1>7

\* the auto-manager has no say once the last word has taken the torrent from it
LEMMA AutoManageGrants ==
  ASSUME NEW o, NEW w, Facts(o, w), NEW p, AutoManage(p)
  PROVE  Granted(ioq', o, torrent'[o], sesPaused', w)
<1>1. ioq' = ioq /\ sesPaused' = sesPaused /\ torrent[p].auto
  BY DEF AutoManage
<1>2. PICK b \in BOOLEAN :
        torrent' = [torrent EXCEPT ![p] = [@ EXCEPT !.allow = b, !.graceful = ~b, !.dirty = TRUE]]
  BY DEF AutoManage
<1>3. PICK c, u : c = ~b /\ u = torrent'[o]
  OBVIOUS
<1>4. torrent' = [torrent EXCEPT ![p] =
                    [torrent[p] EXCEPT !.allow = b, !.graceful = c, !.dirty = TRUE]]
  BY <1>2, <1>3
<1>5. \/ u = torrent[o]
      \/ p = o /\ u = [torrent[o] EXCEPT !.allow = b, !.graceful = c, !.dirty = TRUE]
  BY <1>3, <1>4, FactsAre DEF Torrents
<1>6. u.auto = torrent[o].auto /\ (u = torrent[o] \/ torrent[o].auto)
  BY <1>1, <1>5, FactsAre DEF TorrentType
<1>7. Granted(ioq, o, u, sesPaused, w)
  BY <1>6, FactsAre, GrantedStays
<1>8. QED
  BY <1>1, <1>3, <1>7

LEMMA EngineGrants ==
  ASSUME NEW o, NEW w, Facts(o, w), EngineNext
  PROVE  Granted(ioq', o, torrent'[o], sesPaused', w)
<1>1. CASE NetworkThread
  BY <1>1, AddGrants, RemoveGrants, AutoGrants, PauseGrants, ResumeGrants, SaveGrants,
     PauseSessionGrants, UpdatesGrant, CompletionGrants, Zenon DEF NetworkThread
<1>2. CASE DiskThread
  BY <1>2, DiskGrants
<1>3. CASE Swarm
  BY <1>3, EventGrants, AutoManageGrants, Zenon DEF Swarm
<1>4. QED
  BY <1>1, <1>2, <1>3 DEF EngineNext

----------------------------------------------------------------------------
(* What the application does to a wish                                            *)

Deciding == {"auto", "pause_gracefully", "resume"}

LEMMA WInvIs ==
  ASSUME WInv
  PROVE  /\ IInv /\ EngineOK /\ MapsOK(made) /\ made \in Nat /\ ioq \in Seq(HandlersOf(made))
         /\ Created = 1..made /\ Created \subseteq Objs
         /\ wish \in [Objs -> Wishes] /\ \A o \in Objs \ Created : wish[o] = "none"
         /\ \A o \in Created : Granted(ioq, o, torrent[o], sesPaused, wish[o])
         /\ phase \notin {"scan", "scanning", "saving"}
<1>1. IInv /\ EngineOK /\ MapsOK(made)
  BY DEF WInv, IInv
<1>2. made \in Nat /\ ioq \in Seq(HandlersOf(made))
  BY <1>1, FitsIs DEF EngineOK
<1>3. Created = 1..made /\ Created \subseteq Objs
  BY <1>1, CreatedAreObjs DEF Created
<1>4. QED
  BY <1>1, <1>2, <1>3 DEF WInv

\* a step that leaves the session and the wishes alone
LEMMA WishesStay ==
  ASSUME WInv, IInv', UNCHANGED inside, wish' = wish,
         phase' \notin {"scan", "scanning", "saving"},
         \A o \in Created : Granted(ioq', o, torrent[o], sesPaused, wish[o])
  PROVE  WInv'
<1>1. made' = made /\ torrent' = torrent /\ sesPaused' = sesPaused
  BY DEF inside
<1>2. Created' = Created
  BY <1>1 DEF Created
<1>3. \A o \in Created' : Granted(ioq', o, torrent'[o], sesPaused', wish'[o])
  BY <1>1, <1>2
<1>4. wish' \in [Objs -> Wishes] /\ \A o \in Objs \ Created' : wish'[o] = "none"
  BY <1>2, WInvIs
<1>5. QED
  BY <1>3, <1>4 DEF WInv

LEMMA NothingPosted ==
  ASSUME WInv, IInv', UNCHANGED inside, wish' = wish,
         phase' \notin {"scan", "scanning", "saving"}, ioq' = ioq
  PROVE  WInv'
<1>1. \A o \in Created : Granted(ioq', o, torrent[o], sesPaused, wish[o])
  BY WInvIs
<1>2. QED
  BY <1>1, WishesStay

LEMMA NotDeciding ==
  ASSUME NEW h, h.op \notin Deciding, NEW o
  PROVE  h \notin Words(o)
<1>1. \A b \in BOOLEAN : AutoRequest(o, b).op = "auto"
  BY DEF AutoRequest
<1>2. Request("pause_gracefully", o).op = "pause_gracefully" /\ Request("resume", o).op = "resume"
  BY DEF Request
<1>3. QED
  BY <1>1, <1>2 DEF Words, Autos, Deciding

LEMMA QuietPosted ==
  ASSUME WInv, IInv', UNCHANGED inside, wish' = wish,
         phase' \notin {"scan", "scanning", "saving"},
         NEW p \in Seq(HandlersOf(made)), \A i \in DOMAIN p : p[i].op \notin Deciding,
         ioq' = ioq \o p
  PROVE  WInv'
<1>1. \A o : Absent(p, Words(o))
  BY NotDeciding DEF Absent
<1>2. PICK m \in Nat : m = made /\ ioq \in Seq(HandlersOf(m)) /\ p \in Seq(HandlersOf(m))
  BY WInvIs
<1>3. \A o \in Created : Granted(ioq \o p, o, torrent[o], sesPaused, wish[o])
  BY <1>1, <1>2, WInvIs, GrantedConcat
<1>4. QED
  BY <1>3, WishesStay

LEMMA OnePosted ==
  ASSUME WInv, IInv', UNCHANGED inside, wish' = wish,
         phase' \notin {"scan", "scanning", "saving"},
         NEW h \in HandlersOf(made), h.op \notin Deciding, ioq' = ioq \/ ioq' = ioq \o <<h>>
  PROVE  WInv'
<1>1. PICK p \in Seq(HandlersOf(made)) : p = <<h>>
  BY Short
<1>2. \A i \in DOMAIN p : p[i].op \notin Deciding
  BY <1>1
<1>3. CASE ioq' = ioq
  BY <1>3, NothingPosted
<1>4. CASE ioq' = ioq \o p
  BY <1>2, <1>4, QuietPosted
<1>5. QED
  BY <1>1, <1>3, <1>4

\* <<>> is no request at all
LEMMA PostedNone ==
  ASSUME NEW S, NEW q \in Seq(S)
  PROVE  q \o <<>> = q
  BY ConcatEmptySeq

LEMMA AddWish ==
  ASSUME WInv, IInv', NEW tag \in Tags, Add(tag)
  PROVE  WInv'
<1>1. PICK h : h = [op |-> "add", obj |-> None, tag |-> tag] /\ ioq' = ioq \o <<h>>
  BY DEF Add, Post
<1>2. h \in HandlersOf(made) /\ h.op \notin Deciding
  BY <1>1 DEF HandlersOf, Deciding
<1>3. UNCHANGED inside /\ wish' = wish /\ phase' = phase
  BY DEF Add
<1>4. QED
  BY <1>1, <1>2, <1>3, WInvIs, OnePosted

LEMMA UpdateWish ==
  ASSUME WInv, IInv', Update
  PROVE  WInv'
<1>1. PICK h : h = [op |-> "updates", obj |-> None] /\ ioq' = ioq \o <<h>>
  BY DEF Update, Post
<1>2. h \in HandlersOf(made) /\ h.op \notin Deciding
  BY <1>1 DEF HandlersOf, Deciding
<1>3. UNCHANGED inside /\ wish' = wish /\ phase' = "updating"
  BY DEF Update
<1>4. QED
  BY <1>1, <1>2, <1>3, OnePosted

LEMMA CloseWish ==
  ASSUME WInv, IInv', Close
  PROVE  WInv'
<1>1. PICK h : h = [op |-> "pause_session", obj |-> None] /\ ioq' = ioq \o <<h>>
  BY DEF Close, Post
<1>2. h \in HandlersOf(made) /\ h.op \notin Deciding
  BY <1>1 DEF HandlersOf, Deciding
<1>3. UNCHANGED inside /\ wish' = wish /\ phase' = "closing"
  BY DEF Close, AppStep, ScanStep
<1>4. QED
  BY <1>1, <1>2, <1>3, OnePosted

LEMMA DelWish ==
  ASSUME WInv, IInv', NEW tag \in Tags, Del(tag)
  PROVE  WInv'
<1>1. UNCHANGED inside /\ wish' = wish /\ phase' = phase
  BY DEF Del, Calls
<1>2. CASE ioq' = ioq
  BY <1>1, <1>2, WInvIs, NothingPosted
<1>3. CASE \E e \in Named(tag) : Post(Removal(e.obj))
  <2>1. PICK e \in Named(tag) : Post(Removal(e.obj))
    BY <1>3
  <2>2. e.obj \in 1..made
    BY WInvIs DEF Named, EntryOf, MapsOK
  <2>3. PICK h \in HandlersOf(made) : h = Request("remove", e.obj) /\ h.op = "remove"
    BY <2>2, WInvIs, Made DEF Plain
  <2>4. ioq' = ioq \/ ioq' = ioq \o <<h>>
    BY <2>1, <2>3, WInvIs, PostedNone DEF Post, Removal
  <2>5. QED
    BY <1>1, <2>3, <2>4, WInvIs, OnePosted DEF Deciding
<1>4. QED
  BY <1>2, <1>3 DEF Del

LEMMA AlertWish ==
  ASSUME WInv, IInv', HandleAskForResumeData \/ HandleResumeData
  PROVE  WInv'
<1>1. PICK kind \in {"finished", "paused", "saved", "save_failed"} : Handles(kind)
  BY DEF HandleAskForResumeData, HandleResumeData
<1>2. UNCHANGED inside /\ wish' = wish /\ phase' = "updating"
  BY <1>1 DEF Handles
<1>3. PICK o : o = Head(batch).obj
  OBVIOUS
<1>4. o \in 1..made
  <2>1. Head(batch) \in AlertsOf(made) /\ Head(batch).kind = kind /\ made \in Nat
    BY <1>1, WInvIs, HandlesOne
  <2>2. QED
    BY <1>1, <1>3, <2>1, AlertIs
<1>5. PICK h, g : h = Request("save", o) /\ g = Request("remove", o)
  OBVIOUS
<1>6. /\ h \in HandlersOf(made) /\ h.op \notin Deciding
      /\ g \in HandlersOf(made) /\ g.op \notin Deciding
  BY <1>4, <1>5, WInvIs, Made DEF Plain, Deciding
<1>7. ioq' = ioq \/ ioq' = ioq \o <<h>> \/ ioq' = ioq \o <<g>>
  BY <1>3, <1>5, WInvIs, PostedNone DEF HandleAskForResumeData, HandleResumeData, Post
<1>8. QED
  BY <1>2, <1>6, <1>7, OnePosted

LEMMA CloseAsksWish ==
  ASSUME WInv, IInv', CloseAsks
  PROVE  WInv'
<1>1. UNCHANGED inside /\ wish' = wish /\ phase' = "waiting"
  BY DEF CloseAsks, AppStep, ScanStep
<1>2. PICK need, p :
        /\ need \in SUBSET (1..made)
        /\ p = [i \in 1..Cardinality(need) |-> Request("save", SetToSeq(need)[i])]
        /\ ioq' = ioq \o p
  <2>1. Listed \subseteq 1..made
    BY DEF Listed, Created
  <2>2. QED
    BY <2>1 DEF CloseAsks, Post
<1>3. p \in Seq(HandlersOf(made)) /\ \A i \in DOMAIN p : p[i].op = "save"
  BY <1>2, WInvIs, SeveralRequests
<1>4. QED
  BY <1>1, <1>2, <1>3, QuietPosted DEF Deciding

LEMMA OtherWish ==
  ASSUME WInv, IInv', Monitored = {},
         \/ HandleAdded \/ HandleMetadata \/ HandleStateUpdate \/ EndUpdate
         \/ CloseWaits \/ CloseEnds
  PROVE  WInv'
<1>1. UNCHANGED inside /\ wish' = wish /\ ioq' = ioq
  BY DEF HandleAdded, HandleMetadata, HandleStateUpdate, EndUpdate, CloseWaits, CloseEnds,
         Handles, AppStep, ScanStep
<1>2. phase' \in {"updating", "idle", "waiting", "closed"}
  BY DEF HandleAdded, HandleMetadata, HandleStateUpdate, EndUpdate, CloseWaits, CloseEnds,
         Handles, AppStep, ScanStep
<1>3. QED
  BY <1>1, <1>2, NothingPosted

LEMMA ShortFinal ==
  ASSUME NEW x, NEW y, NEW X
  PROVE  /\ Final(<<x>>, X, x) /\ Final(<<x, y>>, X, y)
         /\ y \notin X => Final(<<x, y>>, X, x)
<1>1. PICK r, s : r = <<x>> /\ s = <<x, y>>
  OBVIOUS
<1>2. /\ DOMAIN r = {1} /\ r[1] = x
      /\ DOMAIN s = {1, 2} /\ s[1] = x /\ s[2] = y
  BY <1>1
<1>3. ~(1 > 1) /\ ~(1 > 2) /\ ~(2 > 2)
  OBVIOUS
<1>4. Final(r, X, x)
  BY <1>2, <1>3 DEF Final
<1>5. Final(s, X, y)
  BY <1>2, <1>3 DEF Final
<1>6. y \notin X => Final(s, X, x)
  BY <1>2, <1>3 DEF Final
<1>7. QED
  BY <1>1, <1>4, <1>5, <1>6

\* a new wish for o, and the requests that grant it
LEMMA Wished ==
  ASSUME WInv, IInv', UNCHANGED inside, phase' = phase, NEW o \in Created, NEW w \in Wishes,
         wish' = [wish EXCEPT ![o] = w], NEW p \in Seq(HandlersOf(made)), ioq' = ioq \o p,
         Granted(ioq \o p, o, torrent[o], sesPaused, w),
         \A i \in DOMAIN p : p[i].obj = o
  PROVE  WInv'
<1>1. made' = made /\ torrent' = torrent /\ sesPaused' = sesPaused
  BY DEF inside
<1>2. Created' = Created
  BY <1>1 DEF Created
<1>3. PICK m \in Nat : /\ m = made /\ ioq \in Seq(HandlersOf(m)) /\ p \in Seq(HandlersOf(m))
                       /\ Created = 1..m
  BY WInvIs
<1>4. ASSUME NEW x \in Created, x # o
      PROVE  Granted(ioq \o p, x, torrent[x], sesPaused, wish[x])
  <2>1. \A i \in DOMAIN p : p[i] \in HandlersOf(m)
    BY <1>3, LenProperties, ElementOfSeq
  <2>2. Absent(p, Words(x))
    BY <1>3, <1>4, <2>1, WordIs DEF Absent
  <2>3. QED
    BY <1>3, <2>2, WInvIs, GrantedConcat
<1>5. /\ wish' \in [Objs -> Wishes] /\ \A x \in Objs \ Created : wish'[x] = "none"
      /\ wish'[o] = w /\ \A x \in Created : x # o => wish'[x] = wish[x]
  BY WInvIs
<1>6. \A x \in Created : Granted(ioq', x, torrent'[x], sesPaused', wish'[x])
  BY <1>1, <1>4, <1>5
<1>7. phase' \notin {"scan", "scanning", "saving"}
  BY WInvIs
<1>8. QED
  BY <1>2, <1>5, <1>6, <1>7 DEF WInv

LEMMA PauseWish ==
  ASSUME WInv, IInv', NEW tag \in Tags, Pause(tag)
  PROVE  WInv'
<1>1. UNCHANGED inside /\ phase' = phase
  BY DEF Pause, Calls
<1>2. CASE ioq' = ioq /\ wish' = wish
  BY <1>1, <1>2, WInvIs, NothingPosted
<1>3. CASE \E e \in Named(tag) :
              Post(PauseRequests(e.obj)) /\ wish' = [wish EXCEPT ![e.obj] = "pause"]
  <2>1. PICK o \in Created :
          /\ ioq' = ioq \o <<AutoRequest(o, FALSE), Request("pause_gracefully", o)>>
          /\ wish' = [wish EXCEPT ![o] = "pause"]
    BY <1>3, WInvIs DEF Named, EntryOf, MapsOK, Post, PauseRequests
  <2>2. PICK a \in HandlersOf(made), g \in HandlersOf(made) :
          /\ a = AutoRequest(o, FALSE) /\ a.op = "auto"
          /\ g = Request("pause_gracefully", o) /\ g.op = "pause_gracefully"
    <3>1. o \in 1..made
      BY <2>1, WInvIs
    <3>2. /\ AutoRequest(o, FALSE) \in HandlersOf(made)
          /\ AutoRequest(o, FALSE).op = "auto"
      BY <3>1, WInvIs, Made
    <3>3. /\ Request("pause_gracefully", o) \in HandlersOf(made)
          /\ Request("pause_gracefully", o).op = "pause_gracefully"
      BY <3>1, WInvIs, Made DEF Plain
    <3>4. QED
      BY <3>2, <3>3
  <2>3. a.obj = o /\ g.obj = o
    BY <2>2 DEF AutoRequest, Request
  <2>4. PICK p \in Seq(HandlersOf(made)) : p = <<a, g>>
    BY Short
  <2>5. \A i \in DOMAIN p : p[i].obj = o
    BY <2>3, <2>4
  <2>6. g \notin Autos(o)
    BY <2>2, WInvIs, WordIs
  <2>7. Final(p, Autos(o), a) /\ Final(p, Words(o), g)
    BY <2>4, <2>6, ShortFinal
  <2>8. Final(ioq \o p, Autos(o), a) /\ Final(ioq \o p, Words(o), g)
    BY <2>7, WInvIs, FinalConcat
  <2>9. Granted(ioq \o p, o, torrent[o], sesPaused, "pause")
    BY <2>2, <2>8 DEF Granted, AutoEnds, PauseEnds
  <2>10. ioq' = ioq \o p
    BY <2>1, <2>2, <2>4
  <2>11. QED
    BY <1>1, <2>1, <2>5, <2>9, <2>10, Wished DEF Wishes
<1>4. QED
  BY <1>2, <1>3 DEF Pause

LEMMA ResumeWish ==
  ASSUME WInv, IInv', NEW tag \in Tags, Resume(tag)
  PROVE  WInv'
<1>1. UNCHANGED inside /\ phase' = phase
  BY DEF Resume, Calls
<1>2. CASE ioq' = ioq /\ wish' = wish
  BY <1>1, <1>2, WInvIs, NothingPosted
<1>3. CASE \E e \in Named(tag) :
              /\ Post(<<AutoRequest(e.obj, TRUE)>> \o
                      IF e.auto /\ e.paused THEN <<Request("resume", e.obj)>> ELSE <<>>)
              /\ wish' = [wish EXCEPT ![e.obj] = "run"]
  <2>1. PICK o \in Created, more \in BOOLEAN :
          /\ ioq' = ioq \o (<<AutoRequest(o, TRUE)>> \o
                            IF more THEN <<Request("resume", o)>> ELSE <<>>)
          /\ wish' = [wish EXCEPT ![o] = "run"]
    <3>1. PICK e \in Named(tag) :
            /\ Post(<<AutoRequest(e.obj, TRUE)>> \o
                    IF e.auto /\ e.paused THEN <<Request("resume", e.obj)>> ELSE <<>>)
            /\ wish' = [wish EXCEPT ![e.obj] = "run"]
      BY <1>3
    <3>2. e.obj \in Created
      BY WInvIs DEF Named, EntryOf, MapsOK
    <3>3. PICK more \in BOOLEAN : more = (e.auto /\ e.paused)
      OBVIOUS
    <3>4. QED
      BY <3>1, <3>2, <3>3 DEF Post
  <2>2. PICK a \in HandlersOf(made), r \in HandlersOf(made) :
          /\ a = AutoRequest(o, TRUE) /\ a.op = "auto"
          /\ r = Request("resume", o) /\ r.op = "resume"
    <3>1. o \in 1..made
      BY <2>1, WInvIs
    <3>2. AutoRequest(o, TRUE) \in HandlersOf(made) /\ AutoRequest(o, TRUE).op = "auto"
      BY <3>1, WInvIs, Made
    <3>3. Request("resume", o) \in HandlersOf(made) /\ Request("resume", o).op = "resume"
      BY <3>1, WInvIs, Made DEF Plain
    <3>4. QED
      BY <3>2, <3>3
  <2>3. a.obj = o /\ r.obj = o
    BY <2>2 DEF AutoRequest, Request
  <2>4. PICK p : (p = <<a>> \/ p = <<a, r>>) /\ ioq' = ioq \o p
    <3>1. ioq' = ioq \o (<<a>> \o <<r>>) \/ ioq' = ioq \o (<<a>> \o <<>>)
      BY <2>1, <2>2, Zenon
    <3>2. QED
      BY <3>1, ShortConcat
  <2>5. p \in Seq(HandlersOf(made)) /\ \A i \in DOMAIN p : p[i].obj = o
    BY <2>3, <2>4, Short
  <2>6. r \notin Autos(o)
    BY <2>2, WInvIs, WordIs
  <2>7. Final(p, Autos(o), a)
    BY <2>4, <2>6, ShortFinal
  <2>8. Final(ioq \o p, Autos(o), a)
    BY <2>5, <2>7, WInvIs, FinalConcat
  <2>9. Granted(ioq \o p, o, torrent[o], sesPaused, "run")
    BY <2>2, <2>8 DEF Granted, AutoEnds
  <2>10. QED
    BY <1>1, <2>1, <2>4, <2>5, <2>9, Wished DEF Wishes
<1>4. QED
  BY <1>2, <1>3 DEF Resume

\* there is room for all the torrents
LEMMA RoomFor ==
  ASSUME NEW m, NEW io, NEW jo, NEW al, NEW ba, NEW out, NEW f,
         Fits(m, io, jo, al, ba, out, f)
  PROVE  1..m \subseteq Objs
<1>1. PICK c \in Nat, k \in Nat, x \in Nat :
        c = Count(io, AddsOf(Tags)) /\ k = Cardinality(Turns(f)) /\ x = m
        /\ x + c <= k /\ f \in [Tags -> 0..MaxAdds]
  BY FitsIs
<1>2. PICK z \in Nat : z = MaxAdds * Cardinality(Tags) /\ k <= z
  <2>1. Cardinality(Tags) \in Nat /\ k <= MaxAdds * Cardinality(Tags)
    BY <1>1, TurnsBounded
  <2>2. QED
    BY <2>1, MaxAddsAssumption
<1>3. x <= z
  BY <1>1, <1>2
<1>4. QED
  BY <1>1, <1>2, <1>3 DEF Objs

LEMMA EngineWish ==
  ASSUME WInv, IInv', Engine
  PROVE  WInv'
<1>1. EngineNext /\ UNCHANGED appVars
  BY DEF Engine
<1>2. phase' = phase /\ wish' = wish
  BY <1>1 DEF appVars
<1>3. PICK m, n : m \in Nat /\ m = made /\ n = made' /\ (n = m \/ n = m + 1)
  BY <1>1, WInvIs, EngineKeeps DEF EngineOKNext
<1>4. Created = 1..m /\ Created' = 1..n /\ Created \subseteq Created'
      /\ \A o \in Created' : o \in Created \/ o = m + 1
  BY <1>3 DEF Created
<1>5. Created' \subseteq Objs
  <2>1. Fits(made', ioq', jobs', alerts', batch, outstanding, asked)
    BY <1>1, WInvIs, EngineKeeps DEF EngineOKNext
  <2>2. PICK io, jo, al :
          io = ioq' /\ jo = jobs' /\ al = alerts' /\ Fits(n, io, jo, al, batch, outstanding, asked)
    BY <1>3, <2>1
  <2>3. 1..n \subseteq Objs
    BY <2>2, RoomFor
  <2>4. QED
    BY <1>4, <2>3
<1>6. ASSUME NEW o \in Created'
      PROVE  Granted(ioq', o, torrent'[o], sesPaused', wish[o])
  <2>1. CASE o \in Created
    <3>1. Facts(o, wish[o])
      BY <2>1, WInvIs DEF Facts
    <3>2. QED
      BY <1>1, <3>1, EngineGrants
  <2>2. CASE o \notin Created
    <3>1. wish[o] = "none"
      BY <1>5, <2>2, WInvIs
    <3>2. QED
      BY <3>1 DEF Granted
  <2>3. QED
    BY <2>1, <2>2
<1>7. QED
  BY <1>2, <1>4, <1>6, WInvIs DEF WInv

LEMMA NextWish ==
  ASSUME Monitored = {}, WInv, IInv', [Next]_vars
  PROVE  WInv'
<1>1. CASE User
  BY <1>1, AddWish, DelWish, PauseWish, ResumeWish, UpdateWish, CloseWish, Zenon DEF User
<1>2. CASE Application
  <2>1. ~(ScanAdds \/ ScanPauses \/ ScanSaves \/ ScanEnds)
    BY WInvIs DEF ScanAdds, ScanPauses, ScanSaves, ScanEnds, AppStep, ScanStep
  <2>2. \/ HandleAskForResumeData \/ HandleResumeData \/ CloseAsks
        \/ HandleAdded \/ HandleMetadata \/ HandleStateUpdate \/ EndUpdate
        \/ CloseWaits \/ CloseEnds
    BY <1>2, <2>1, Zenon DEF Application
  <2>3. QED
    BY <2>2, AlertWish, CloseAsksWish, OtherWish, Zenon
<1>3. CASE Engine
  BY <1>3, EngineWish
<1>4. CASE \E f \in Monitored : TakeFile(f)
  BY <1>4
<1>5. CASE UNCHANGED vars
  <2>1. UNCHANGED inside /\ wish' = wish /\ phase' = phase /\ ioq' = ioq
    BY <1>5 DEF vars, engineVars, appVars
  <2>2. QED
    BY <2>1, WInvIs, NothingPosted
<1>6. QED
  BY <1>1, <1>2, <1>3, <1>4, <1>5 DEF Next

LEMMA WishInit ==
  ASSUME Init
  PROVE  WInv
<1>1. IInv
  BY InitOK
<1>2. made = 0 /\ wish = [o \in Objs |-> "none"] /\ phase = "idle"
  BY DEF Init, EngineInit
<1>3. Created = {}
  BY <1>2 DEF Created
<1>4. QED
  BY <1>1, <1>2, <1>3 DEF WInv, Wishes

\* pause() and resume() have the last word over the auto-manager, whatever alerts,
\* cached statuses and earlier requests were on the way; a scanned directory pauses what
\* it finds (session_impl.cpp:705), so there must be none.
THEOREM LastWordKept ==
  ASSUME Monitored = {}
  PROVE  Spec => []LastWordWins
<1>1. Init => WInv
  BY WishInit
<1>2. WInv /\ [Next]_vars => WInv'
  <2>1. WInv => IInv
    BY DEF WInv
  <2>2. QED
    BY <2>1, NextKeeps, NextWish
<1>3. WInv => LastWordWins
  <2>1. SUFFICES ASSUME WInv, NEW o \in Listed,
                        ~(\E h \in ToSet(ioq) :
                            h.obj = o /\ h.op \in {"auto", "pause_gracefully", "resume"})
                 PROVE  /\ wish[o] = "pause" => ~torrent[o].auto /\ Paused(o)
                        /\ wish[o] = "run"   => torrent[o].auto
    BY Zenon DEF LastWordWins
  <2>2. PICK m \in Nat : m = made /\ ioq \in Seq(HandlersOf(m)) /\ Created = 1..m
    BY <2>1, WInvIs
  <2>3. o \in Created /\ Granted(ioq, o, torrent[o], sesPaused, wish[o])
    BY <2>1, WInvIs DEF Listed
  <2>4. Absent(ioq, Words(o))
    <3>1. \A i \in DOMAIN ioq : ioq[i] \in HandlersOf(m) /\ ioq[i] \in ToSet(ioq)
      BY <2>2, LenProperties, ElementOfSeq DEF ToSet
    <3>2. QED
      BY <2>1, <2>2, <2>3, <3>1, WordIs DEF Absent
  <2>5. AutoRequest(o, TRUE) \in Autos(o) /\ AutoRequest(o, FALSE) \in Autos(o)
    BY DEF Autos
  <2>6. /\ ~Final(ioq, Autos(o), AutoRequest(o, TRUE))
        /\ ~Final(ioq, Autos(o), AutoRequest(o, FALSE))
    BY <2>4, <2>5, AutosAreWords
  <2>7. Final(ioq, Words(o), Request("pause_gracefully", o)) => FALSE
    BY <2>4 DEF Absent, Final, Words
  <2>8. Held(torrent[o], sesPaused) => Paused(o)
    BY DEF Held, Paused
  <2>9. wish[o] = "pause" => torrent[o].auto = FALSE /\ Paused(o)
    BY <2>3, <2>6, <2>7, <2>8 DEF Granted, AutoEnds, PauseEnds
  <2>10. wish[o] = "run" => torrent[o].auto = TRUE
    BY <2>3, <2>6 DEF Granted, AutoEnds
  <2>11. QED
    BY <2>9, <2>10
<1>4. QED
  BY <1>1, <1>2, <1>3, PTL DEF Spec

----------------------------------------------------------------------------
(* Every torrent has a tag: the invariant                                         *)

LEMMA SetOfTail ==
  ASSUME NEW S, NEW q \in Seq(S), q # <<>>
  PROVE  ToSet(q) = {Head(q)} \cup ToSet(Tail(q))
<1>1. PICK n \in Nat \ {0}, t \in {Tail(q)} : n = Len(q) /\ t = Tail(q)
  BY TailPlaces
<1>2. /\ DOMAIN q = 1..n /\ DOMAIN t = 1..(n - 1) /\ q[1] = Head(q)
      /\ \A i \in 1..(n - 1) : t[i] = q[i + 1]
  BY <1>1, TailPlaces
<1>3. \A i \in 1..(n - 1) : i + 1 \in 1..n
  OBVIOUS
<1>4. \A i \in 1..n : i = 1 \/ (i - 1 \in 1..(n - 1) /\ (i - 1) + 1 = i)
  OBVIOUS
<1>5. 1 \in 1..n
  OBVIOUS
<1>6. ASSUME NEW x \in ToSet(q)
      PROVE  x = Head(q) \/ x \in ToSet(t)
  <2>1. PICK i \in 1..n : x = q[i]
    BY <1>2, <1>6 DEF ToSet
  <2>2. CASE i = 1
    BY <1>2, <2>1, <2>2
  <2>3. CASE i # 1
    <3>1. i - 1 \in 1..(n - 1) /\ t[i - 1] = q[(i - 1) + 1] /\ (i - 1) + 1 = i
      BY <1>2, <1>4, <2>1, <2>3
    <3>2. x = t[i - 1]
      BY <2>1, <3>1
    <3>3. QED
      BY <1>2, <3>1, <3>2 DEF ToSet
  <2>4. QED
    BY <2>2, <2>3
<1>7. Head(q) \in ToSet(q) /\ \A x \in ToSet(t) : x \in ToSet(q)
  BY <1>2, <1>3, <1>5 DEF ToSet
<1>8. QED
  BY <1>1, <1>6, <1>7

LEMMA SetOfConcat ==
  ASSUME NEW S, NEW q \in Seq(S), NEW p \in Seq(S)
  PROVE  ToSet(q \o p) = ToSet(q) \cup ToSet(p)
<1>1. PICK m \in Nat, n \in Nat, r \in {q \o p} : m = Len(q) /\ n = Len(p) /\ r = q \o p
  BY LenProperties
<1>2. /\ DOMAIN q = 1..m /\ DOMAIN p = 1..n /\ DOMAIN r = 1..(m + n)
      /\ \A i \in 1..(m + n) : r[i] = IF i <= m THEN q[i] ELSE p[i - m]
  BY <1>1, ConcatPlaces
<1>3. /\ \A i \in 1..m : i \in 1..(m + n) /\ i <= m
      /\ \A i \in 1..n : m + i \in 1..(m + n) /\ ~(m + i <= m) /\ (m + i) - m = i
      /\ \A i \in 1..(m + n) : (i <= m /\ i \in 1..m) \/ (~(i <= m) /\ i - m \in 1..n)
  OBVIOUS
<1>4. ASSUME NEW x \in ToSet(r)
      PROVE  x \in ToSet(q) \cup ToSet(p)
  <2>1. PICK i \in 1..(m + n) : x = r[i]
    BY <1>2, <1>4 DEF ToSet
  <2>2. CASE i \in 1..m /\ i <= m
    BY <1>2, <2>1, <2>2 DEF ToSet
  <2>3. CASE i - m \in 1..n /\ ~(i <= m)
    <3>1. x = p[i - m]
      BY <1>2, <2>1, <2>3
    <3>2. QED
      BY <1>2, <2>3, <3>1 DEF ToSet
  <2>4. QED
    BY <1>3, <2>1, <2>2, <2>3
<1>5. \A x \in ToSet(q) : x \in ToSet(r)
  BY <1>2, <1>3 DEF ToSet
<1>6. \A x \in ToSet(p) : x \in ToSet(r)
  BY <1>2, <1>3 DEF ToSet
<1>7. QED
  BY <1>1, <1>4, <1>5, <1>6

\* a tag is on its way (a request, an alert) or has its entry as often as it was added
Used(io, al, ba, es, t) ==
    Count(io, AddsOf({t})) + Count(al, AddedOf({t})) + Count(ba, AddedOf({t}))
      + (IF \E e \in es : e.tag = t THEN 1 ELSE 0)

\* a tag leads to o, or will, or o is about to go
Covered(o) ==
    \/ \E e \in torrents_ : e.obj = o
    \/ \E a \in ToSet(alerts) \cup ToSet(batch) : a.kind = "added" /\ a.obj = o
    \/ \E h \in ToSet(ioq) : h.op = "remove" /\ h.obj = o

Shut == {"closing", "waiting", "closed"}

OInv ==
    /\ IInv
    /\ \A t \in Tags : Used(ioq, alerts, batch, torrents_, t) <= asked[t]
    /\ \A e \in torrents_ : torrent_tags_[e.tag] = e.tag
    /\ \A e, f \in torrents_ : e.tag = f.tag => e = f
    /\ phase # "updating" => batch = <<>>
    /\ phase \notin Shut => \A o \in Listed : Covered(o)

LEMMA OInvIs ==
  ASSUME OInv
  PROVE  /\ IInv /\ EngineOK /\ MapsOK(made) /\ made \in Nat
         /\ ioq \in Seq(HandlersOf(made)) /\ jobs \in Seq(JobsOf(made))
         /\ alerts \in Seq(AlertsOf(made)) /\ batch \in Seq(AlertsOf(made))
         /\ asked \in [Tags -> 0..MaxAdds] /\ session \in SessionType(made)
         /\ torrent \in Torrents /\ Created = 1..made /\ Created \subseteq Objs
<1>1. IInv /\ EngineOK /\ MapsOK(made)
  BY DEF OInv, IInv
<1>2. /\ made \in Nat /\ asked \in [Tags -> 0..MaxAdds]
      /\ ioq \in Seq(HandlersOf(made)) /\ jobs \in Seq(JobsOf(made))
      /\ alerts \in Seq(AlertsOf(made)) /\ batch \in Seq(AlertsOf(made))
  BY <1>1, FitsIs DEF EngineOK
<1>3. Created = 1..made /\ Created \subseteq Objs
  BY <1>1, CreatedAreObjs DEF Created
<1>4. QED
  BY <1>1, <1>2, <1>3 DEF EngineOK

\* queues and their counts
LEMMA UsedIs ==
  ASSUME NEW m \in Nat, NEW io \in Seq(HandlersOf(m)), NEW al \in Seq(AlertsOf(m)),
         NEW ba \in Seq(AlertsOf(m)), NEW es, NEW t
  PROVE  /\ Count(io, AddsOf({t})) \in Nat /\ Count(al, AddedOf({t})) \in Nat
         /\ Count(ba, AddedOf({t})) \in Nat /\ Used(io, al, ba, es, t) \in Nat
<1>1. PICK a \in Nat, b \in Nat, c \in Nat :
        /\ a = Count(io, AddsOf({t})) /\ b = Count(al, AddedOf({t})) /\ c = Count(ba, AddedOf({t}))
  BY PlacesFinite
<1>2. PICK d \in Nat : d = (IF \E e \in es : e.tag = t THEN 1 ELSE 0)
  OBVIOUS
<1>3. Used(io, al, ba, es, t) = a + b + c + d
  BY <1>1, <1>2 DEF Used
<1>4. a + b + c + d \in Nat
  OBVIOUS
<1>5. QED
  BY <1>1, <1>3, <1>4

LEMMA UsedLess ==
  ASSUME NEW m \in Nat, NEW io \in Seq(HandlersOf(m)), NEW al \in Seq(AlertsOf(m)),
         NEW ba \in Seq(AlertsOf(m)), NEW es, NEW t,
         NEW n \in Nat, NEW jo \in Seq(HandlersOf(n)), NEW bl \in Seq(AlertsOf(n)),
         NEW ca \in Seq(AlertsOf(n)), NEW fs,
         Count(jo, AddsOf({t})) <= Count(io, AddsOf({t})),
         Count(bl, AddedOf({t})) <= Count(al, AddedOf({t})),
         Count(ca, AddedOf({t})) <= Count(ba, AddedOf({t})),
         (\E e \in fs : e.tag = t) => \E e \in es : e.tag = t,
         NEW k \in Nat, Used(io, al, ba, es, t) <= k
  PROVE  Used(jo, bl, ca, fs, t) <= k
<1>1. PICK a \in Nat, b \in Nat, c \in Nat :
        /\ a = Count(io, AddsOf({t})) /\ b = Count(al, AddedOf({t})) /\ c = Count(ba, AddedOf({t}))
  BY PlacesFinite
<1>2. PICK x \in Nat, y \in Nat, z \in Nat :
        /\ x = Count(jo, AddsOf({t})) /\ y = Count(bl, AddedOf({t})) /\ z = Count(ca, AddedOf({t}))
  BY PlacesFinite
<1>3. PICK d \in {0, 1}, w \in {0, 1} :
        /\ d = (IF \E e \in es : e.tag = t THEN 1 ELSE 0)
        /\ w = (IF \E e \in fs : e.tag = t THEN 1 ELSE 0) /\ w <= d
  OBVIOUS
<1>4. Used(io, al, ba, es, t) = a + b + c + d /\ Used(jo, bl, ca, fs, t) = x + y + z + w
  BY <1>1, <1>2, <1>3 DEF Used
<1>5. x <= a /\ y <= b /\ z <= c
  BY <1>1, <1>2
<1>6. a + b + c + d <= k
  BY <1>4
<1>7. x + y + z + w <= k
  BY <1>3, <1>5, <1>6
<1>8. QED
  BY <1>4, <1>7

\* handlers that add nothing, and alerts that tell of nothing added
LEMMA CountQuiet ==
  ASSUME NEW m \in Nat
  PROVE  /\ \A io, p \in Seq(HandlersOf(m)) : \A t :
              (\A i \in DOMAIN p : p[i].op # "add") =>
                /\ Count(io \o p, AddsOf({t})) = Count(io, AddsOf({t}))
                /\ io \o p \in Seq(HandlersOf(m))
         /\ \A al, q \in Seq(AlertsOf(m)) : \A t :
              (\A i \in DOMAIN q : q[i].kind # "added") =>
                /\ Count(al \o q, AddedOf({t})) = Count(al, AddedOf({t}))
                /\ al \o q \in Seq(AlertsOf(m))
<1>1. ASSUME NEW io \in Seq(HandlersOf(m)), NEW p \in Seq(HandlersOf(m)), NEW t,
             \A i \in DOMAIN p : p[i].op # "add"
      PROVE  /\ Count(io \o p, AddsOf({t})) = Count(io, AddsOf({t}))
             /\ io \o p \in Seq(HandlersOf(m))
  <2>1. \A i \in DOMAIN p : p[i] \notin AddsOf({t})
    BY <1>1 DEF AddsOf
  <2>2. Count(p, AddsOf({t})) = 0
    BY <2>1, CountNone
  <2>3. PICK c \in Nat : c = Count(io, AddsOf({t}))
    BY PlacesFinite
  <2>4. Count(io \o p, AddsOf({t})) = c + 0 /\ io \o p \in Seq(HandlersOf(m))
    BY <2>2, <2>3, CountConcat
  <2>5. QED
    BY <2>3, <2>4
<1>2. ASSUME NEW al \in Seq(AlertsOf(m)), NEW q \in Seq(AlertsOf(m)), NEW t,
             \A i \in DOMAIN q : q[i].kind # "added"
      PROVE  /\ Count(al \o q, AddedOf({t})) = Count(al, AddedOf({t}))
             /\ al \o q \in Seq(AlertsOf(m))
  <2>1. \A i \in DOMAIN q : q[i] \notin AddedOf({t})
    BY <1>2 DEF AddedOf
  <2>2. Count(q, AddedOf({t})) = 0
    BY <2>1, CountNone
  <2>3. PICK c \in Nat : c = Count(al, AddedOf({t}))
    BY PlacesFinite
  <2>4. Count(al \o q, AddedOf({t})) = c + 0 /\ al \o q \in Seq(AlertsOf(m))
    BY <2>2, <2>3, CountConcat
  <2>5. QED
    BY <2>3, <2>4
<1>3. QED
  BY <1>1, <1>2

LEMMA CountTailLess ==
  ASSUME NEW S, NEW q \in Seq(S), q # <<>>, NEW T
  PROVE  /\ Tail(q) \in Seq(S) /\ Count(Tail(q), T) <= Count(q, T)
         /\ Head(q) \in T => Count(q, T) = Count(Tail(q), T) + 1
<1>1. Tail(q) \in Seq(S) /\ Count(q, T) = Count(Tail(q), T) + IF Head(q) \in T THEN 1 ELSE 0
  BY CountTail
<1>2. PICK c \in Nat, d \in Nat : c = Count(Tail(q), T) /\ d = Count(q, T)
  BY <1>1, PlacesFinite
<1>3. QED
  BY <1>1, <1>2

\* what a step may do to a queue: it adds no more, and removals and news of additions stay
PassH(m, io, jo) ==
    /\ jo \in Seq(HandlersOf(m))
    /\ \A t : Count(jo, AddsOf({t})) <= Count(io, AddsOf({t}))
    /\ \A h \in ToSet(io) : h.op = "remove" => h \in ToSet(jo)
PassA(m, al, bl) ==
    /\ bl \in Seq(AlertsOf(m))
    /\ \A t : Count(bl, AddedOf({t})) <= Count(al, AddedOf({t}))
    /\ \A a \in ToSet(al) : a.kind = "added" => a \in ToSet(bl)

LEMMA PassesH ==
  ASSUME NEW m \in Nat, NEW io \in Seq(HandlersOf(m))
  PROVE  /\ PassH(m, io, io)
         /\ io # <<>> /\ Head(io).op # "remove" => PassH(m, io, Tail(io))
         /\ \A p \in Seq(HandlersOf(m)) :
              (\A i \in DOMAIN p : p[i].op # "add") => PassH(m, io, io \o p)
         /\ \A h \in HandlersOf(m) : h.op # "add" => PassH(m, io, Append(io, h))
<1>1. ASSUME NEW t
      PROVE  Count(io, AddsOf({t})) <= Count(io, AddsOf({t}))
  <2>1. PICK c \in Nat : c = Count(io, AddsOf({t}))
    BY PlacesFinite
  <2>2. c <= c
    OBVIOUS
  <2>3. QED
    BY <2>1, <2>2
<1>2. PassH(m, io, io)
  BY <1>1 DEF PassH
<1>3. ASSUME io # <<>>, Head(io).op # "remove"
      PROVE  PassH(m, io, Tail(io))
  <2>1. Tail(io) \in Seq(HandlersOf(m))
        /\ \A t : Count(Tail(io), AddsOf({t})) <= Count(io, AddsOf({t}))
    BY <1>3, CountTailLess
  <2>2. ToSet(io) = {Head(io)} \cup ToSet(Tail(io))
    BY <1>3, SetOfTail
  <2>3. QED
    BY <1>3, <2>1, <2>2 DEF PassH
<1>4. ASSUME NEW p \in Seq(HandlersOf(m)), \A i \in DOMAIN p : p[i].op # "add"
      PROVE  PassH(m, io, io \o p)
  <2>1. PICK jo : jo = io \o p
    OBVIOUS
  <2>2. jo \in Seq(HandlersOf(m)) /\ \A t : Count(jo, AddsOf({t})) = Count(io, AddsOf({t}))
    BY <1>4, <2>1, CountQuiet
  <2>3. ToSet(jo) = ToSet(io) \cup ToSet(p)
    BY <2>1, SetOfConcat
  <2>4. PassH(m, io, jo)
    BY <1>1, <2>2, <2>3 DEF PassH
  <2>5. QED
    BY <2>1, <2>4
<1>5. ASSUME NEW h \in HandlersOf(m), h.op # "add"
      PROVE  PassH(m, io, Append(io, h))
  <2>1. PICK p \in Seq(HandlersOf(m)) : p = <<h>> /\ DOMAIN p = {1} /\ p[1] = h
    BY Short
  <2>2. PassH(m, io, io \o p)
    BY <1>4, <1>5, <2>1
  <2>3. QED
    BY <2>1, <2>2, AppendIsConcat
<1>6. QED
  BY <1>2, <1>3, <1>4, <1>5

LEMMA PassesA ==
  ASSUME NEW m \in Nat, NEW al \in Seq(AlertsOf(m))
  PROVE  /\ PassA(m, al, al)
         /\ al # <<>> /\ Head(al).kind # "added" => PassA(m, al, Tail(al))
         /\ \A q \in Seq(AlertsOf(m)) :
              (\A i \in DOMAIN q : q[i].kind # "added") => PassA(m, al, al \o q)
         /\ \A a \in AlertsOf(m) : a.kind # "added" => PassA(m, al, Append(al, a))
<1>1. ASSUME NEW t
      PROVE  Count(al, AddedOf({t})) <= Count(al, AddedOf({t}))
  <2>1. PICK c \in Nat : c = Count(al, AddedOf({t}))
    BY PlacesFinite
  <2>2. c <= c
    OBVIOUS
  <2>3. QED
    BY <2>1, <2>2
<1>2. PassA(m, al, al)
  BY <1>1 DEF PassA
<1>3. ASSUME al # <<>>, Head(al).kind # "added"
      PROVE  PassA(m, al, Tail(al))
  <2>1. Tail(al) \in Seq(AlertsOf(m))
        /\ \A t : Count(Tail(al), AddedOf({t})) <= Count(al, AddedOf({t}))
    BY <1>3, CountTailLess
  <2>2. ToSet(al) = {Head(al)} \cup ToSet(Tail(al))
    BY <1>3, SetOfTail
  <2>3. QED
    BY <1>3, <2>1, <2>2 DEF PassA
<1>4. ASSUME NEW q \in Seq(AlertsOf(m)), \A i \in DOMAIN q : q[i].kind # "added"
      PROVE  PassA(m, al, al \o q)
  <2>1. PICK bl : bl = al \o q
    OBVIOUS
  <2>2. bl \in Seq(AlertsOf(m)) /\ \A t : Count(bl, AddedOf({t})) = Count(al, AddedOf({t}))
    BY <1>4, <2>1, CountQuiet
  <2>3. ToSet(bl) = ToSet(al) \cup ToSet(q)
    BY <2>1, SetOfConcat
  <2>4. PassA(m, al, bl)
    BY <1>1, <2>2, <2>3 DEF PassA
  <2>5. QED
    BY <2>1, <2>4
<1>5. ASSUME NEW a \in AlertsOf(m), a.kind # "added"
      PROVE  PassA(m, al, Append(al, a))
  <2>1. PICK q \in Seq(AlertsOf(m)) : q = <<a>> /\ DOMAIN q = {1} /\ q[1] = a
    BY Short
  <2>2. PassA(m, al, al \o q)
    BY <1>4, <1>5, <2>1
  <2>3. QED
    BY <2>1, <2>2, AppendIsConcat
<1>6. QED
  BY <1>2, <1>3, <1>4, <1>5

\* a step that leaves the entries alone and lists no torrent more
LEMMA Kept ==
  ASSUME OInv, IInv', torrents_' = torrents_, torrent_tags_' = torrent_tags_, asked' = asked,
         PassH(made, ioq, ioq'), PassA(made, alerts, alerts'), PassA(made, batch, batch'),
         Listed' \subseteq Listed, phase' # "updating" => batch' = <<>>,
         phase' \notin Shut => phase \notin Shut
  PROVE  OInv'
<1>1. PICK m, io, al, ba :
        /\ m = made /\ io = ioq /\ al = alerts /\ ba = batch
        /\ m \in Nat /\ io \in Seq(HandlersOf(m))
        /\ al \in Seq(AlertsOf(m)) /\ ba \in Seq(AlertsOf(m))
  BY OInvIs
<1>2. PICK jo, bl, ca : jo = ioq' /\ bl = alerts' /\ ca = batch'
  OBVIOUS
<1>3. PassH(m, io, jo) /\ PassA(m, al, bl) /\ PassA(m, ba, ca)
  BY <1>1, <1>2
<1>4. /\ jo \in Seq(HandlersOf(m)) /\ bl \in Seq(AlertsOf(m)) /\ ca \in Seq(AlertsOf(m))
      /\ \A t : /\ Count(jo, AddsOf({t})) <= Count(io, AddsOf({t}))
                /\ Count(bl, AddedOf({t})) <= Count(al, AddedOf({t}))
                /\ Count(ca, AddedOf({t})) <= Count(ba, AddedOf({t}))
  BY <1>3 DEF PassH, PassA
<1>5. ASSUME NEW t \in Tags
      PROVE  Used(jo, bl, ca, torrents_, t) <= asked[t]
  <2>1. PICK k \in Nat : k = asked[t]
    BY OInvIs, MaxAddsAssumption
  <2>2. Used(io, al, ba, torrents_, t) <= k
    BY <1>1, <2>1 DEF OInv
  <2>3. Used(jo, bl, ca, torrents_, t) <= k
    BY <1>1, <1>4, <2>2, UsedLess
  <2>4. QED
    BY <2>1, <2>3
<1>6. \A t \in Tags : Used(ioq', alerts', batch', torrents_', t) <= asked'[t]
  BY <1>2, <1>5
<1>7. \A o : Covered(o) => Covered(o)'
  <2>1. /\ \A h \in ToSet(io) : h.op = "remove" => h \in ToSet(jo)
        /\ \A a \in ToSet(al) \cup ToSet(ba) : a.kind = "added" => a \in ToSet(bl) \cup ToSet(ca)
    BY <1>3 DEF PassH, PassA
  <2>2. /\ \A h \in ToSet(ioq) : h.op = "remove" => h \in ToSet(ioq')
        /\ \A a \in ToSet(alerts) \cup ToSet(batch) :
             a.kind = "added" => a \in ToSet(alerts') \cup ToSet(batch')
    BY <1>1, <1>2, <2>1
  <2>3. QED
    BY <2>2 DEF Covered
<1>8. phase' \notin Shut => \A o \in Listed' : Covered(o)'
  BY <1>7 DEF OInv
<1>9. QED
  BY <1>6, <1>8 DEF OInv

----------------------------------------------------------------------------
(* Every torrent has a tag: the engine                                            *)

\* what the steps below have in common
Calm == /\ session' = session /\ made' = made
        /\ \A o \in Created : torrent'[o].hash = torrent[o].hash

LEMMA CalmLists ==
  ASSUME Calm
  PROVE  Listed' \subseteq Listed
<1>1. Created' = Created
  BY DEF Calm, Created
<1>2. ASSUME NEW o \in Created
      PROVE  InSession(o)' => InSession(o)
  BY <1>1, <1>2 DEF Calm, InSession
<1>3. QED
  BY <1>1, <1>2 DEF Listed

\* the alerts a step tells
Quiet(al) == PassA(made, alerts, al)

LEMMA PostsQuiet ==
  ASSUME OInv, NEW q \in Seq(AlertsOf(made)), \A i \in DOMAIN q : q[i].kind # "added", Posts(q)
  PROVE  Quiet(alerts')
<1>1. PICK n \in 0..Len(q) : alerts' = alerts \o SubSeq(q, 1, n)
  BY DEF Posts
<1>2. PICK r : r = SubSeq(q, 1, n)
  OBVIOUS
<1>3. DOMAIN q = 1..Len(q) /\ Len(q) \in Nat /\ \A i \in 1..Len(q) : q[i] \in AlertsOf(made)
  BY LenProperties, ElementOfSeq
<1>4. r \in Seq(AlertsOf(made)) /\ Len(r) = n /\ \A i \in 1..n : r[i] = q[i]
  BY <1>2, <1>3, SubSeqProperties
<1>5. DOMAIN r = 1..n
  BY <1>4, LenProperties
<1>6. \A i \in DOMAIN r : r[i].kind # "added"
  BY <1>3, <1>4, <1>5
<1>7. PICK m, al : m = made /\ al = alerts /\ m \in Nat /\ al \in Seq(AlertsOf(m))
  BY OInvIs
<1>8. PassA(m, al, al \o r)
  BY <1>4, <1>6, <1>7, PassesA
<1>9. QED
  BY <1>1, <1>2, <1>7, <1>8 DEF Quiet

LEMMA AppendQuiet ==
  ASSUME OInv
  PROVE  /\ alerts' = alerts => Quiet(alerts')
         /\ \A a \in AlertsOf(made) :
              alerts' = Append(alerts, a) /\ a.kind # "added" => Quiet(alerts')
<1>1. PICK m, al : m = made /\ al = alerts /\ m \in Nat /\ al \in Seq(AlertsOf(m))
  BY OInvIs
<1>2. PassA(m, al, al) /\ \A a \in AlertsOf(m) : a.kind # "added" => PassA(m, al, Append(al, a))
  BY <1>1, PassesA
<1>3. QED
  BY <1>1, <1>2 DEF Quiet

LEMMA PauseQuiet ==
  ASSUME OInv, NEW os \in SUBSET (1..made), DoPause(os)
  PROVE  Quiet(alerts')
<1>1. PICK rest, q :
        /\ rest \in SUBSET (1..made)
        /\ q = [i \in 1..Cardinality(rest) |-> Alert("paused", SetToSeq(rest)[i])]
        /\ Posts(q)
  BY DEF DoPause
<1>2. q \in Seq(AlertsOf(made)) /\ \A i \in DOMAIN q : q[i].kind = "paused"
  BY <1>1, OInvIs, SeveralAlerts
<1>3. QED
  BY <1>1, <1>2, PostsQuiet

LEMMA EngineCalm ==
  ASSUME OInv, IInv', UNCHANGED appVars, Calm, Quiet(alerts'),
         \/ ioq' = ioq
         \/ \E op : Runs(op) /\ op \notin {"add", "remove"}
         \/ \E h \in HandlersOf(made) : h.op # "add" /\ ioq' = Append(ioq, h)
  PROVE  OInv'
<1>1. PICK m, io, ba : m = made /\ io = ioq /\ ba = batch
                       /\ m \in Nat /\ io \in Seq(HandlersOf(m)) /\ ba \in Seq(AlertsOf(m))
  BY OInvIs
<1>2. /\ torrents_' = torrents_ /\ torrent_tags_' = torrent_tags_ /\ asked' = asked
      /\ batch' = batch /\ phase' = phase
  BY DEF appVars, maps, bounds
<1>3. PassH(m, io, ioq')
  <2>1. CASE ioq' = ioq
    BY <1>1, <2>1, PassesH
  <2>2. CASE \E op : Runs(op) /\ op \notin {"add", "remove"}
    <3>1. io # <<>> /\ Head(io).op # "remove" /\ ioq' = Tail(io)
      BY <1>1, <2>2 DEF Runs
    <3>2. QED
      BY <1>1, <3>1, PassesH
  <2>3. CASE \E h \in HandlersOf(made) : h.op # "add" /\ ioq' = Append(ioq, h)
    BY <1>1, <2>3, PassesH
  <2>4. QED
    BY <2>1, <2>2, <2>3
<1>4. PassA(m, ba, ba)
  BY <1>1, PassesA
<1>5. PassH(made, ioq, ioq') /\ PassA(made, batch, batch') /\ PassA(made, alerts, alerts')
  BY <1>1, <1>2, <1>3, <1>4 DEF Quiet
<1>6. Listed' \subseteq Listed
  BY CalmLists
<1>7. phase' # "updating" => batch' = <<>>
  BY <1>2 DEF OInv
<1>8. QED
  BY <1>2, <1>5, <1>6, <1>7, Kept

LEMMA HeadIs ==
  ASSUME OInv, NEW op, Runs(op)
  PROVE  /\ ioq # <<>> /\ ioq' = Tail(ioq) /\ Head(ioq) \in HandlersOf(made) /\ Head(ioq).op = op
         /\ made \in Nat
         /\ op \in Plain \cup {"auto"} => Head(ioq).obj \in 1..made
<1>1. ioq # <<>> /\ Head(ioq).op = op /\ ioq' = Tail(ioq)
  BY DEF Runs
<1>2. Head(ioq) \in HandlersOf(made)
  BY <1>1, OInvIs, HeadTailProperties
<1>3. QED
  BY <1>1, <1>2, OInvIs, HandlerIs

LEMMA HashStays ==
  ASSUME OInv, NEW o \in Created, NEW p,
         \/ torrent' = torrent
         \/ \E b, c : torrent' = [torrent EXCEPT ![p] = [torrent[p] EXCEPT !.auto = b, !.dirty = c]]
         \/ \E b, c : torrent' = [torrent EXCEPT ![p] =
                            [torrent[p] EXCEPT !.finished = b, !.dirty = c]]
         \/ \E b : torrent' = [torrent EXCEPT ![p].aborted = b]
         \/ \E b : torrent' = [torrent EXCEPT ![p].dirty = b]
         \/ \E b : torrent' = [torrent EXCEPT ![p].meta = b]
  PROVE  torrent'[o].hash = torrent[o].hash
<1>1. torrent \in Torrents /\ o \in Objs
  BY OInvIs
<1>2. ASSUME NEW b, NEW c,
             torrent' = [torrent EXCEPT ![p] = [torrent[p] EXCEPT !.auto = b, !.dirty = c]]
      PROVE  torrent'[o].hash = torrent[o].hash
  <2>1. torrent'[o] = torrent[o] \/ torrent'[o] = [torrent[o] EXCEPT !.auto = b, !.dirty = c]
    BY <1>1, <1>2 DEF Torrents
  <2>2. QED
    BY <1>1, <2>1 DEF Torrents, TorrentType
<1>3. ASSUME NEW b, NEW c,
             torrent' = [torrent EXCEPT ![p] = [torrent[p] EXCEPT !.finished = b, !.dirty = c]]
      PROVE  torrent'[o].hash = torrent[o].hash
  <2>1. torrent'[o] = torrent[o] \/ torrent'[o] = [torrent[o] EXCEPT !.finished = b, !.dirty = c]
    BY <1>1, <1>3 DEF Torrents
  <2>2. QED
    BY <1>1, <2>1 DEF Torrents, TorrentType
<1>4. ASSUME NEW b, torrent' = [torrent EXCEPT ![p].aborted = b]
      PROVE  torrent'[o].hash = torrent[o].hash
  <2>1. torrent'[o] = torrent[o] \/ torrent'[o] = [torrent[o] EXCEPT !.aborted = b]
    BY <1>1, <1>4 DEF Torrents
  <2>2. QED
    BY <1>1, <2>1 DEF Torrents, TorrentType
<1>5. ASSUME NEW b, torrent' = [torrent EXCEPT ![p].dirty = b]
      PROVE  torrent'[o].hash = torrent[o].hash
  <2>1. torrent'[o] = torrent[o] \/ torrent'[o] = [torrent[o] EXCEPT !.dirty = b]
    BY <1>1, <1>5 DEF Torrents
  <2>2. QED
    BY <1>1, <2>1 DEF Torrents, TorrentType
<1>6. ASSUME NEW b, torrent' = [torrent EXCEPT ![p].meta = b]
      PROVE  torrent'[o].hash = torrent[o].hash
  <2>1. torrent'[o] = torrent[o] \/ torrent'[o] = [torrent[o] EXCEPT !.meta = b]
    BY <1>1, <1>6 DEF Torrents
  <2>2. QED
    BY <1>1, <2>1 DEF Torrents, TorrentType
<1>7. QED
  BY <1>2, <1>3, <1>4, <1>5, <1>6, Zenon

LEMMA AutoListed ==
  ASSUME OInv, IInv', UNCHANGED appVars, SetAutoManaged
  PROVE  OInv'
<1>1. Runs("auto") /\ session' = session /\ made' = made /\ alerts' = alerts
  BY DEF SetAutoManaged
<1>2. PICK p, b, c : torrent' = [torrent EXCEPT ![p] = [torrent[p] EXCEPT !.auto = b, !.dirty = c]]
  BY DEF SetAutoManaged
<1>3. Calm
  BY <1>1, <1>2, HashStays DEF Calm
<1>4. QED
  BY <1>1, <1>3, AppendQuiet, EngineCalm

LEMMA PauseListed ==
  ASSUME OInv, IInv', UNCHANGED appVars, PauseTorrent
  PROVE  OInv'
<1>1. PICK graceful \in BOOLEAN :
        /\ Runs(IF graceful THEN "pause_gracefully" ELSE "pause")
        /\ LET p == Head(ioq).obj
           IN  \/ torrent' = torrent /\ alerts' = alerts
               \/ /\ torrent' = [torrent EXCEPT ![p] =
                         [@ EXCEPT !.allow = graceful, !.graceful = graceful, !.dirty = TRUE]]
                  /\ DoPause({p}) \/ alerts' = alerts
        /\ session' = session /\ made' = made
  BY DEF PauseTorrent
<1>2. PICK op \in {"pause_gracefully", "pause"} :
        op = (IF graceful THEN "pause_gracefully" ELSE "pause") /\ Runs(op)
  BY <1>1
<1>3. PICK p, g : p = Head(ioq).obj /\ p \in 1..made /\ g = graceful
  BY <1>2, HeadIs DEF Plain
<1>4. torrent' = torrent \/ torrent' = [torrent EXCEPT ![p] =
                               [torrent[p] EXCEPT !.allow = g, !.graceful = g, !.dirty = TRUE]]
  BY <1>1, <1>3
<1>5. Calm
  <2>1. ASSUME NEW o \in Created
        PROVE  torrent'[o].hash = torrent[o].hash
    <3>1. \/ torrent'[o] = torrent[o]
          \/ torrent'[o] = [torrent[o] EXCEPT !.allow = g, !.graceful = g, !.dirty = TRUE]
      BY <1>4, OInvIs DEF Torrents
    <3>2. PICK t, u : t = torrent[o] /\ u = torrent'[o] /\ t \in TorrentType
      BY OInvIs DEF Torrents
    <3>3. u.hash = t.hash
      BY <3>1, <3>2 DEF TorrentType
    <3>4. QED
      BY <3>2, <3>3
  <2>2. QED
    BY <1>1, <2>1 DEF Calm
<1>6. Quiet(alerts')
  <2>1. CASE alerts' = alerts
    BY <2>1, AppendQuiet
  <2>2. CASE DoPause({p})
    BY <1>3, <2>2, PauseQuiet
  <2>3. QED
    BY <1>1, <1>3, <2>1, <2>2
<1>7. QED
  BY <1>2, <1>5, <1>6, EngineCalm

LEMMA ResumeListed ==
  ASSUME OInv, IInv', UNCHANGED appVars, ResumeTorrent
  PROVE  OInv'
<1>1. Runs("resume") /\ session' = session /\ made' = made /\ alerts' = alerts
  BY DEF ResumeTorrent
<1>2. PICK p, g, d : p = Head(ioq).obj /\ g = (torrent[p].graceful /\ sesPaused)
                     /\ d = (torrent[p].dirty \/ ~sesPaused)
  OBVIOUS
<1>3. \/ torrent' = torrent
      \/ torrent' = [torrent EXCEPT ![p] =
            [torrent[p] EXCEPT !.allow = TRUE, !.graceful = g, !.dirty = d]]
  BY <1>2 DEF ResumeTorrent
<1>4. Calm
  <2>1. ASSUME NEW o \in Created
        PROVE  torrent'[o].hash = torrent[o].hash
    <3>1. \/ torrent'[o] = torrent[o]
          \/ torrent'[o] = [torrent[o] EXCEPT !.allow = TRUE, !.graceful = g, !.dirty = d]
      BY <1>3, OInvIs DEF Torrents
    <3>2. QED
      BY <3>1, OInvIs DEF Torrents, TorrentType
  <2>2. QED
    BY <1>1, <2>1 DEF Calm
<1>5. QED
  BY <1>1, <1>4, AppendQuiet, EngineCalm

LEMMA SaveListed ==
  ASSUME OInv, IInv', UNCHANGED appVars, SaveResumeData \/ OnSaveResumeData
  PROVE  OInv'
<1>1. PICK op \in {"save", "on_save"} : Runs(op)
  BY DEF SaveResumeData, OnSaveResumeData
<1>2. PICK p : p = Head(ioq).obj /\ p \in 1..made /\ made \in Nat
  BY <1>1, HeadIs DEF Plain
<1>3. session' = session /\ made' = made
  BY DEF SaveResumeData, OnSaveResumeData
<1>4. torrent' = torrent \/ torrent' = [torrent EXCEPT ![p].dirty = TRUE]
  BY <1>2 DEF SaveResumeData, OnSaveResumeData
<1>5. Calm
  BY <1>3, <1>4, HashStays DEF Calm
<1>6. \/ alerts' = alerts
      \/ alerts' = Append(alerts, Alert("saved", p))
      \/ alerts' = Append(alerts, Alert("save_failed", p))
  BY <1>2 DEF SaveResumeData, OnSaveResumeData, Fails
<1>7. /\ Alert("saved", p) \in AlertsOf(made) /\ Alert("saved", p).kind = "saved"
      /\ Alert("save_failed", p) \in AlertsOf(made) /\ Alert("save_failed", p).kind = "save_failed"
  BY <1>2, Made
<1>8. Quiet(alerts')
  BY <1>6, <1>7, AppendQuiet
<1>9. QED
  BY <1>1, <1>5, <1>8, EngineCalm

LEMMA PauseSessionListed ==
  ASSUME OInv, IInv', UNCHANGED appVars, PauseSession
  PROVE  OInv'
<1>1. Runs("pause_session") /\ session' = session /\ made' = made
  BY DEF PauseSession
<1>2. ASSUME NEW o \in Created
      PROVE  torrent'[o].hash = torrent[o].hash
  <2>1. CASE torrent' = torrent
    BY <2>1
  <2>2. CASE torrent' = [p \in Objs |-> [torrent[p] EXCEPT !.dirty = @ \/ p \in Listed]]
    BY <2>2, OInvIs DEF TorrentType, Torrents
  <2>3. QED
    BY <2>1, <2>2 DEF PauseSession
<1>3. Calm
  BY <1>1, <1>2 DEF Calm
<1>4. PICK os \in SUBSET (1..made) : os = Listed
  BY DEF Listed, Created
<1>5. alerts' = alerts \/ DoPause(os)
  BY <1>4 DEF PauseSession
<1>6. Quiet(alerts')
  BY <1>5, AppendQuiet, PauseQuiet
<1>7. QED
  BY <1>1, <1>3, <1>6, EngineCalm

LEMMA AppendedIsOne ==
  ASSUME NEW S, NEW q \in Seq(S), NEW x, Append(q, x) \in Seq(S)
  PROVE  x \in S
<1>1. PICK r \in Seq(S) : r = Append(q, x)
  OBVIOUS
<1>2. PICK n \in Nat : n = Len(q)
  BY LenProperties
<1>3. Len(r) = n + 1 /\ r[n + 1] = x
  BY <1>1, <1>2
<1>4. QED
  BY <1>2, <1>3, ElementOfSeq

LEMMA UpdatesListed ==
  ASSUME OInv, IInv', UNCHANGED appVars, PostTorrentUpdates
  PROVE  OInv'
<1>1. /\ Runs("updates") /\ session' = session /\ made' = made
      /\ torrent' = [p \in Objs |-> [torrent[p] EXCEPT !.dirty = FALSE]]
  BY DEF PostTorrentUpdates
<1>2. ASSUME NEW o \in Created
      PROVE  torrent'[o].hash = torrent[o].hash
  BY <1>1, OInvIs DEF TorrentType, Torrents
<1>3. Calm
  BY <1>1, <1>2 DEF Calm
<1>4. PICK status : \/ alerts' = alerts
                    \/ alerts' = Append(alerts, [kind |-> "updates", status |-> status])
  BY DEF PostTorrentUpdates
<1>5. Quiet(alerts')
  <2>1. CASE alerts' = alerts
    BY <2>1, AppendQuiet
  <2>2. CASE alerts' = Append(alerts, [kind |-> "updates", status |-> status])
    <3>1. PICK a : a = [kind |-> "updates", status |-> status]
      OBVIOUS
    <3>2. alerts' \in Seq(AlertsOf(made'))
      BY FitsIs DEF IInv, EngineOK
    <3>3. PICK m, al, bl : m = made /\ al = alerts /\ bl = alerts' /\ m \in Nat
                           /\ al \in Seq(AlertsOf(m)) /\ bl \in Seq(AlertsOf(m))
      BY <1>1, <3>2, OInvIs
    <3>4. bl = Append(al, a)
      BY <2>2, <3>1, <3>3
    <3>5. a \in AlertsOf(m)
      BY <3>3, <3>4, AppendedIsOne
    <3>6. a.kind # "added"
      BY <3>1
    <3>7. QED
      BY <2>2, <3>1, <3>3, <3>5, <3>6, AppendQuiet
  <2>3. QED
    BY <1>4, <2>1, <2>2
<1>6. QED
  BY <1>1, <1>3, <1>5, EngineCalm

LEMMA CompletionListed ==
  ASSUME OInv, IInv', UNCHANGED appVars, OnTorrentPaused \/ OnFilesReleased
  PROVE  OInv'
<1>1. PICK op \in {"on_paused", "on_released"} :
        Runs(op) /\ session' = session /\ made' = made /\ torrent' = torrent
  BY DEF OnTorrentPaused, OnFilesReleased
<1>2. Calm
  BY <1>1 DEF Calm
<1>3. PICK a \in AlertsOf(made) : a = Alert("paused", Head(ioq).obj) /\ a.kind = "paused"
  BY <1>1, HeadIs, Made, OInvIs DEF Plain
<1>4. Quiet(alerts')
  <2>1. CASE alerts' = alerts
    BY <2>1, AppendQuiet
  <2>2. CASE Posts(<<a>>)
    <3>1. PICK q \in Seq(AlertsOf(made)) : q = <<a>> /\ \A i \in DOMAIN q : q[i] = a
      BY Short
    <3>2. QED
      BY <1>3, <2>2, <3>1, PostsQuiet
  <2>3. QED
    BY <1>3, <2>1, <2>2 DEF OnTorrentPaused, OnFilesReleased
<1>5. QED
  BY <1>1, <1>2, <1>4, EngineCalm

LEMMA DiskListed ==
  ASSUME OInv, IInv', UNCHANGED appVars, DiskThread
  PROVE  OInv'
<1>1. PICK m : m = made /\ m \in Nat /\ jobs \in Seq(JobsOf(m))
  BY OInvIs
<1>2. /\ jobs # <<>> /\ torrent' = torrent /\ session' = session /\ made' = made
      /\ alerts' = alerts
  BY DEF DiskThread
<1>3. PICK j \in JobsOf(m) : j = Head(jobs)
  BY <1>1, <1>2, HeadTailProperties
<1>4. PICK op : op = CASE j.op = "save_job"       -> "on_save"
                       [] j.op = "release_paused" -> "on_paused"
                       [] OTHER                   -> "on_released"
  OBVIOUS
<1>5. PICK h : h = [j EXCEPT !.op = op] /\ ioq' = Append(ioq, h)
  BY <1>3, <1>4 DEF DiskThread
<1>6. op \in {"on_save", "on_paused", "on_released"}
  BY <1>4
<1>7. h \in HandlersOf(m) /\ h.op # "add"
  <2>1. h.op = op /\ h.obj = j.obj /\ h \in [op : Plain, obj : 1..m]
    BY <1>5, <1>6 DEF JobsOf, Plain
  <2>2. QED
    BY <1>6, <2>1 DEF HandlersOf
<1>8. Calm
  BY <1>2 DEF Calm
<1>9. QED
  BY <1>1, <1>2, <1>5, <1>7, <1>8, AppendQuiet, EngineCalm

LEMMA SwarmListed ==
  ASSUME OInv, IInv', UNCHANGED appVars, Swarm
  PROVE  OInv'
<1>1. PICK p \in Created : Metadata(p) \/ Finish(p) \/ AutoManage(p)
  BY DEF Swarm
<1>2. p \in 1..made /\ made \in Nat
  BY <1>1, OInvIs
<1>3. ioq' = ioq /\ session' = session /\ made' = made
  BY <1>1 DEF Metadata, Finish, AutoManage
<1>4. Calm
  <2>1. ASSUME NEW o \in Created
        PROVE  torrent'[o].hash = torrent[o].hash
    <3>1. CASE Metadata(p) \/ Finish(p)
      <4>1. \/ torrent' = [torrent EXCEPT ![p].meta = TRUE]
            \/ torrent' = [torrent EXCEPT ![p] =
                              [torrent[p] EXCEPT !.finished = TRUE, !.dirty = TRUE]]
        BY <3>1 DEF Metadata, Finish
      <4>2. \/ torrent'[o] = torrent[o] \/ torrent'[o] = [torrent[o] EXCEPT !.meta = TRUE]
            \/ torrent'[o] = [torrent[o] EXCEPT !.finished = TRUE, !.dirty = TRUE]
        BY <4>1, OInvIs DEF Torrents
      <4>3. PICK t, u : t = torrent[o] /\ u = torrent'[o] /\ t \in TorrentType
        BY OInvIs DEF Torrents
      <4>4. u.hash = t.hash
        BY <4>2, <4>3 DEF TorrentType
      <4>5. QED
        BY <4>3, <4>4
    <3>2. CASE AutoManage(p)
      <4>1. PICK b \in BOOLEAN :
              torrent' = [torrent EXCEPT ![p] =
                            [@ EXCEPT !.allow = b, !.graceful = ~b, !.dirty = TRUE]]
        BY <3>2 DEF AutoManage
      <4>2. PICK a, c : a = b /\ c = ~b
        OBVIOUS
      <4>3. \/ torrent'[o] = torrent[o]
            \/ torrent'[o] = [torrent[o] EXCEPT !.allow = a, !.graceful = c, !.dirty = TRUE]
        BY <4>1, <4>2, OInvIs DEF Torrents
      <4>4. PICK t, u : t = torrent[o] /\ u = torrent'[o] /\ t \in TorrentType
        BY OInvIs DEF Torrents
      <4>5. u.hash = t.hash
        BY <4>3, <4>4 DEF TorrentType
      <4>6. QED
        BY <4>4, <4>5
    <3>3. QED
      BY <1>1, <3>1, <3>2
  <2>2. QED
    BY <1>3, <2>1 DEF Calm
<1>5. Quiet(alerts')
  <2>1. ASSUME NEW a \in AlertsOf(made), a.kind # "added", Posts(<<a>>)
        PROVE  Quiet(alerts')
    <3>1. PICK q \in Seq(AlertsOf(made)) : q = <<a>> /\ \A i \in DOMAIN q : q[i] = a
      BY Short
    <3>2. QED
      BY <2>1, <3>1, PostsQuiet
  <2>2. /\ Alert("metadata", p) \in AlertsOf(made) /\ Alert("metadata", p).kind = "metadata"
        /\ Alert("finished", p) \in AlertsOf(made) /\ Alert("finished", p).kind = "finished"
    BY <1>2, Made
  <2>3. CASE Metadata(p) \/ Finish(p)
    BY <2>1, <2>2, <2>3 DEF Metadata, Finish
  <2>4. CASE AutoManage(p)
    <3>1. alerts' = alerts \/ DoPause({p})
      BY <2>4 DEF AutoManage
    <3>2. QED
      BY <1>2, <3>1, AppendQuiet, PauseQuiet
  <2>5. QED
    BY <1>1, <2>3, <2>4
<1>6. QED
  BY <1>3, <1>4, <1>5, EngineCalm

\* the entries and the news a step leaves, and the removals
LEMMA CoverStays ==
  ASSUME torrents_' = torrents_, batch' = batch, ToSet(alerts) \subseteq ToSet(alerts'),
         NEW o, \A h \in ToSet(ioq) : h.op = "remove" /\ h.obj = o => h \in ToSet(ioq'),
         Covered(o)
  PROVE  Covered(o)'
<1>1. CASE \E e \in torrents_ : e.obj = o
  BY <1>1 DEF Covered
<1>2. CASE \E a \in ToSet(alerts) \cup ToSet(batch) : a.kind = "added" /\ a.obj = o
  BY <1>2 DEF Covered
<1>3. CASE \E h \in ToSet(ioq) : h.op = "remove" /\ h.obj = o
  <2>1. \E h \in ToSet(ioq') : h.op = "remove" /\ h.obj = o
    BY <1>3
  <2>2. QED
    BY <2>1 DEF Covered
<1>4. QED
  BY <1>1, <1>2, <1>3 DEF Covered

LEMMA RemoveListed ==
  ASSUME OInv, IInv', UNCHANGED appVars, RemoveTorrent
  PROVE  OInv'
<1>1. PICK m, q, p : /\ m = made /\ q = ioq /\ p = Head(q).obj
                     /\ m \in Nat /\ q \in Seq(HandlersOf(m))
  BY OInvIs
<1>2. /\ Runs("remove") /\ made' = made /\ alerts' = alerts
      /\ \/ ~Live(p) /\ session' = session /\ torrent' = torrent
         \/ /\ session' = [session EXCEPT ![torrent[p].hash] = None]
            /\ torrent' = [torrent EXCEPT ![p].aborted = TRUE]
  BY <1>1 DEF RemoveTorrent
<1>3. q # <<>> /\ ioq' = Tail(q) /\ p \in 1..m /\ Head(q).op = "remove"
  BY <1>1, <1>2, HeadIs DEF Plain
<1>4. ASSUME NEW o \in Listed'
      PROVE  o \in Listed /\ o # p
  <2>1. /\ o \in Created /\ o \in Nat /\ o \in Objs /\ p \in Created /\ torrent \in Torrents
        /\ session \in SessionType(made)
    BY <1>1, <1>2, <1>3, OInvIs DEF Listed, Created
  <2>2. session'[torrent'[o].hash] = o
    BY DEF Listed, InSession
  <2>3. torrent'[o].hash = torrent[o].hash
    BY <1>2, <2>1, HashStays
  <2>4. torrent[o].hash \in Hashes /\ torrent[p].hash \in Hashes /\ o # None
    BY <2>1, OInvIs, TagsAssumption DEF Torrents, TorrentType
  <2>5. CASE ~Live(p) /\ session' = session
    <3>1. InSession(o)
      BY <2>1, <2>2, <2>3, <2>5 DEF InSession
    <3>2. o # p
      BY <2>5, <3>1 DEF Live
    <3>3. QED
      BY <2>1, <3>1, <3>2 DEF Listed
  <2>6. CASE session' = [session EXCEPT ![torrent[p].hash] = None]
    <3>1. torrent[o].hash # torrent[p].hash /\ session[torrent[o].hash] = o
      BY <2>1, <2>2, <2>3, <2>4, <2>6 DEF SessionType
    <3>2. QED
      BY <2>1, <3>1 DEF Listed, InSession
  <2>7. QED
    BY <1>2, <2>5, <2>6
<1>5. /\ torrents_' = torrents_ /\ torrent_tags_' = torrent_tags_ /\ asked' = asked
      /\ batch' = batch /\ phase' = phase
  BY DEF appVars, maps, bounds
<1>6. ASSUME NEW o \in Listed', phase' \notin Shut
      PROVE  Covered(o)'
  <2>1. Covered(o) /\ o # p
    BY <1>4, <1>5, <1>6 DEF OInv
  <2>2. ToSet(q) = {Head(q)} \cup ToSet(Tail(q))
    BY <1>1, <1>3, SetOfTail
  <2>3. \A h \in ToSet(ioq) : h.op = "remove" /\ h.obj = o => h \in ToSet(ioq')
    BY <1>1, <1>3, <2>1, <2>2
  <2>4. QED
    BY <1>2, <1>5, <2>1, <2>3, CoverStays
<1>7. ASSUME NEW t \in Tags
      PROVE  Used(ioq', alerts, batch, torrents_, t) <= asked[t]
  <2>1. PICK al, ba : /\ al = alerts /\ ba = batch
                      /\ al \in Seq(AlertsOf(m)) /\ ba \in Seq(AlertsOf(m))
    BY <1>1, OInvIs
  <2>2. PICK k \in Nat : k = asked[t]
    BY OInvIs, MaxAddsAssumption
  <2>3. Used(q, al, ba, torrents_, t) <= k
    BY <1>1, <2>1, <2>2 DEF OInv
  <2>4. PICK r : /\ r = Tail(q) /\ r \in Seq(HandlersOf(m))
                 /\ Count(r, AddsOf({t})) <= Count(q, AddsOf({t}))
    BY <1>1, <1>3, CountTailLess
  <2>5. PICK bl, ca : /\ bl = al /\ Count(bl, AddedOf({t})) <= Count(al, AddedOf({t}))
                      /\ ca = ba /\ Count(ca, AddedOf({t})) <= Count(ba, AddedOf({t}))
    <3>1. PICK x \in Nat, y \in Nat : x = Count(al, AddedOf({t})) /\ y = Count(ba, AddedOf({t}))
      BY <2>1, PlacesFinite
    <3>2. x <= x /\ y <= y
      OBVIOUS
    <3>3. QED
      BY <3>1, <3>2
  <2>6. Used(r, bl, ca, torrents_, t) <= k
    <3>1. /\ m \in Nat /\ q \in Seq(HandlersOf(m)) /\ al \in Seq(AlertsOf(m))
          /\ ba \in Seq(AlertsOf(m)) /\ bl \in Seq(AlertsOf(m)) /\ ca \in Seq(AlertsOf(m))
      BY <1>1, <2>1, <2>5
    <3>2. QED
      BY <2>3, <2>4, <2>5, <3>1, UsedLess
  <2>7. QED
    BY <1>3, <2>1, <2>2, <2>4, <2>5, <2>6
<1>8. QED
  BY <1>2, <1>5, <1>6, <1>7 DEF OInv

\* one request or one piece of news of a tag
LEMMA TagIs ==
  ASSUME NEW m \in Nat, NEW t \in Tags
  PROVE  /\ \A h \in HandlersOf(m) : h \in AddsOf({t}) <=> h.op = "add" /\ h.tag = t
         /\ \A a \in AlertsOf(m) : a \in AddedOf({t}) <=> a.kind = "added" /\ a.tag = t
<1>1. {t} \in SUBSET Tags
  OBVIOUS
<1>2. ASSUME NEW h \in HandlersOf(m)
      PROVE  h \in AddsOf({t}) <=> h.op = "add" /\ h.tag = t
  <2>1. h \in AddsOf({t}) <=> h.op = "add" /\ h.tag \in {t}
    BY <1>1, <1>2, HandlerIs
  <2>2. QED
    BY <2>1
<1>3. ASSUME NEW a \in AlertsOf(m)
      PROVE  a \in AddedOf({t}) <=> a.kind = "added" /\ a.tag = t
  <2>1. a \in AddedOf({t}) <=> a.kind = "added" /\ a.tag \in {t}
    BY <1>1, <1>3, AlertIs
  <2>2. QED
    BY <2>1
<1>4. QED
  BY <1>2, <1>3

LEMMA AddListed ==
  ASSUME OInv, IInv', UNCHANGED appVars, AddTorrent
  PROVE  OInv'
<1>1. PICK m, q, al, ba, h :
        /\ m = made /\ q = ioq /\ al = alerts /\ ba = batch /\ h = Head(q)
        /\ m \in Nat /\ q \in Seq(HandlersOf(m))
        /\ al \in Seq(AlertsOf(m)) /\ ba \in Seq(AlertsOf(m))
  BY OInvIs
<1>2. Runs("add")
  BY DEF AddTorrent
<1>3. q # <<>> /\ ioq' = Tail(q) /\ h \in HandlersOf(m) /\ h.op = "add" /\ h.tag \in Tags
  BY <1>1, <1>2, HeadIs, HandlerIs
<1>4. /\ torrents_' = torrents_ /\ torrent_tags_' = torrent_tags_ /\ asked' = asked
      /\ batch' = batch /\ phase' = phase
  BY DEF appVars, maps, bounds
<1>5. PICK a, x : /\ a = [kind |-> "added", obj |-> x, tag |-> h.tag] /\ alerts' = Append(al, a)
                  /\ \/ made' = m /\ session' = session /\ torrent' = torrent
                     \/ /\ made' = m + 1 /\ x = m + 1
                        /\ session' = [session EXCEPT ![HashOf[h.tag]] = m + 1]
                        /\ \E r : torrent' = [torrent EXCEPT ![m + 1] = r]
  <2>1. CASE session[HashOf[h.tag]] # None
    BY <1>1, <2>1 DEF AddTorrent
  <2>2. CASE session[HashOf[h.tag]] = None
    BY <1>1, <2>2 DEF AddTorrent
  <2>3. QED
    BY <2>1, <2>2
<1>6. PICK n, bl : /\ n = made' /\ bl = alerts' /\ n \in Nat /\ bl \in Seq(AlertsOf(n))
                   /\ al \in Seq(AlertsOf(n)) /\ (n = m \/ n = m + 1)
  <2>1. PICK n, bl : n = made' /\ bl = alerts' /\ n \in Nat /\ bl \in Seq(AlertsOf(n))
    BY FitsIs DEF IInv, EngineOK
  <2>2. n = m \/ n = m + 1
    BY <1>5, <2>1
  <2>3. al \in Seq(AlertsOf(n))
    BY <1>1, <2>2, OneMoreMade
  <2>4. QED
    BY <2>1, <2>2, <2>3
<1>7. bl = Append(al, a) /\ a \in AlertsOf(n)
  BY <1>5, <1>6, AppendedIsOne
<1>8. a.kind = "added" /\ a.obj = x /\ a.tag = h.tag
  BY <1>5
<1>9. ASSUME NEW t \in Tags
      PROVE  Used(ioq', alerts', batch, torrents_, t) <= asked[t]
  \* a request turns into news
  <2>1. PICK z \in Nat : z = (IF h \in AddsOf({t}) THEN 1 ELSE 0)
                         /\ z = (IF a \in AddedOf({t}) THEN 1 ELSE 0)
    <3>1. h \in AddsOf({t}) <=> h.tag = t
      <4>1. m \in Nat /\ h \in HandlersOf(m) /\ h.op = "add"
        BY <1>1, <1>3
      <4>2. QED
        BY <4>1, TagIs
    <3>2. n \in Nat /\ a \in AlertsOf(n)
      BY <1>6, <1>7
    <3>3. a \in AddedOf({t}) <=> a.tag = t
      BY <1>8, <3>2, TagIs
    <3>4. QED
      BY <1>8, <3>1, <3>3
  <2>2. PICK r \in {Tail(q)}, v \in Nat, y \in Nat, w \in Nat, d \in Nat :
          /\ r = Tail(q) /\ v = Count(r, AddsOf({t}))
          /\ y = Count(al, AddedOf({t})) /\ w = Count(ba, AddedOf({t}))
          /\ d = (IF \E e \in torrents_ : e.tag = t THEN 1 ELSE 0)
    <3>1. Count(Tail(q), AddsOf({t})) \in Nat
      BY <1>1, <1>3, HeadTailProperties, PlacesFinite
    <3>2. Count(al, AddedOf({t})) \in Nat /\ Count(ba, AddedOf({t})) \in Nat
      BY <1>1, PlacesFinite
    <3>3. (IF \E e \in torrents_ : e.tag = t THEN 1 ELSE 0) \in Nat
      OBVIOUS
    <3>4. QED
      BY <3>1, <3>2, <3>3
  <2>3. Count(q, AddsOf({t})) = v + z
    BY <1>1, <1>3, <2>1, <2>2, CountTail
  <2>4. Count(bl, AddedOf({t})) = y + z
    BY <1>6, <1>7, <2>1, <2>2, CountAppend
  <2>5. Used(r, bl, ba, torrents_, t) = v + (y + z) + w + d
    BY <2>2, <2>4 DEF Used
  <2>6. Used(q, al, ba, torrents_, t) = (v + z) + y + w + d
    BY <2>2, <2>3 DEF Used
  <2>7. v + (y + z) + w + d = (v + z) + y + w + d
    OBVIOUS
  <2>8. Used(ioq, alerts, batch, torrents_, t) <= asked[t]
    BY DEF OInv
  <2>9. QED
    BY <1>1, <1>3, <1>6, <2>2, <2>5, <2>6, <2>7, <2>8
<1>10. ToSet(bl) = ToSet(al) \cup {a}
  <2>1. PICK r : r = <<a>> /\ r \in Seq(AlertsOf(n)) /\ DOMAIN r = {1} /\ r[1] = a
    BY <1>7, Short
  <2>2. ToSet(r) = {a}
    BY <2>1 DEF ToSet
  <2>3. bl = al \o r
    BY <1>6, <1>7, <2>1, AppendIsConcat
  <2>4. al \in Seq(AlertsOf(n)) /\ r \in Seq(AlertsOf(n))
    BY <1>6, <2>1
  <2>5. ToSet(al \o r) = ToSet(al) \cup ToSet(r)
    BY <2>4, SetOfConcat
  <2>6. QED
    BY <2>2, <2>3, <2>5
<1>11. ASSUME NEW o \in Listed', phase' \notin Shut
       PROVE  Covered(o)'
  <2>1. CASE o = x
    <3>1. a \in ToSet(alerts') /\ a.kind = "added" /\ a.obj = o
      BY <1>6, <1>8, <1>10, <2>1
    <3>2. QED
      BY <3>1 DEF Covered
  <2>2. CASE o # x
    <3>1. o \in Listed
      <4>1. session'[torrent'[o].hash] = o /\ o \in 1..n
        BY <1>6 DEF Listed, InSession, Created
      <4>2. CASE made' = m /\ session' = session /\ torrent' = torrent
        BY <1>1, <1>6, <4>1, <4>2 DEF Listed, InSession, Created
      <4>3. CASE /\ made' = m + 1 /\ x = m + 1
                 /\ session' = [session EXCEPT ![HashOf[h.tag]] = m + 1]
                 /\ \E r : torrent' = [torrent EXCEPT ![m + 1] = r]
        <5>1. o \in 1..m /\ o # m + 1
          BY <1>1, <1>6, <2>2, <4>1, <4>3
        <5>2. torrent'[o] = torrent[o] /\ torrent[o].hash \in Hashes
          BY <1>1, <4>3, <5>1, OInvIs DEF Torrents, TorrentType
        <5>3. session[torrent[o].hash] = o
          BY <4>1, <4>3, <5>1, <5>2, OInvIs DEF SessionType
        <5>4. QED
          BY <1>1, <5>1, <5>3 DEF Listed, InSession, Created
      <4>4. QED
        BY <1>5, <4>2, <4>3
    <3>2. Covered(o)
      BY <1>4, <1>11, <3>1 DEF OInv
    <3>3. ToSet(q) = {h} \cup ToSet(Tail(q))
      BY <1>1, <1>3, SetOfTail
    <3>4. \A g \in ToSet(ioq) : g.op = "remove" /\ g.obj = o => g \in ToSet(ioq')
      BY <1>1, <1>3, <3>3
    <3>5. ToSet(alerts) \subseteq ToSet(alerts')
      BY <1>1, <1>6, <1>10
    <3>6. QED
      BY <1>4, <3>2, <3>4, <3>5, CoverStays
  <2>3. QED
    BY <2>1, <2>2
<1>12. QED
  BY <1>4, <1>9, <1>11 DEF OInv

LEMMA EngineListed ==
  ASSUME OInv, IInv', Engine
  PROVE  OInv'
<1>1. EngineNext /\ UNCHANGED appVars
  BY DEF Engine
<1>2. CASE NetworkThread
  BY <1>1, <1>2, AddListed, RemoveListed, AutoListed, PauseListed, ResumeListed, SaveListed,
     PauseSessionListed, UpdatesListed, CompletionListed, Zenon DEF NetworkThread
<1>3. CASE DiskThread
  BY <1>1, <1>3, DiskListed
<1>4. CASE Swarm
  BY <1>1, <1>4, SwarmListed
<1>5. QED
  BY <1>1, <1>2, <1>3, <1>4 DEF EngineNext

----------------------------------------------------------------------------
(* Every torrent has a tag: the application                                       *)

LEMMA ListedStays ==
  ASSUME UNCHANGED inside
  PROVE  Listed' = Listed /\ made' = made
<1>1. session' = session /\ torrent' = torrent /\ made' = made
  BY DEF inside
<1>2. QED
  BY <1>1 DEF Listed, InSession, Created

\* the queues and the entries get no more of any tag
LEMMA BudgetStays ==
  ASSUME OInv, PassH(made, ioq, ioq'),
         NEW m, m = made, NEW bl \in Seq(AlertsOf(m)), bl = alerts',
         NEW ca \in Seq(AlertsOf(m)), ca = batch',
         \A t : Count(bl, AddedOf({t})) <= Count(alerts, AddedOf({t})),
         \A t : Count(ca, AddedOf({t})) <= Count(batch, AddedOf({t})),
         \A t : (\E e \in torrents_' : e.tag = t) => \E e \in torrents_ : e.tag = t,
         asked' = asked
  PROVE  \A t \in Tags : Used(ioq', alerts', batch', torrents_', t) <= asked'[t]
<1>1. PICK io, al, ba, jo, es, fs :
        /\ io = ioq /\ al = alerts /\ ba = batch /\ jo = ioq'
        /\ es = torrents_ /\ fs = torrents_'
        /\ m \in Nat /\ io \in Seq(HandlersOf(m))
        /\ al \in Seq(AlertsOf(m)) /\ ba \in Seq(AlertsOf(m))
  BY OInvIs
<1>2. jo \in Seq(HandlersOf(m)) /\ \A t : Count(jo, AddsOf({t})) <= Count(io, AddsOf({t}))
  BY <1>1 DEF PassH
<1>3. ASSUME NEW t \in Tags
      PROVE  Used(jo, bl, ca, fs, t) <= asked[t]
  <2>1. PICK k \in Nat : k = asked[t]
    BY OInvIs, MaxAddsAssumption
  <2>2. Used(io, al, ba, es, t) <= k
    BY <1>1, <2>1 DEF OInv
  <2>3. /\ Count(bl, AddedOf({t})) <= Count(al, AddedOf({t}))
        /\ Count(ca, AddedOf({t})) <= Count(ba, AddedOf({t}))
        /\ (\E e \in fs : e.tag = t) => \E e \in es : e.tag = t
    BY <1>1
  <2>4. Used(jo, bl, ca, fs, t) <= k
    BY <1>1, <1>2, <2>2, <2>3, UsedLess
  <2>5. QED
    BY <2>1, <2>4
<1>4. QED
  BY <1>1, <1>3

\* a step of the application that handles no news and posts no request to add
LEMMA AppCalm ==
  ASSUME OInv, IInv', UNCHANGED inside, alerts' = alerts, torrents_' = torrents_,
         torrent_tags_' = torrent_tags_, asked' = asked,
         \/ batch' = batch
         \/ batch # <<>> /\ Head(batch).kind # "added" /\ batch' = Tail(batch),
         phase' # "updating" => batch' = <<>>, phase' \notin Shut => phase \notin Shut,
         \/ ioq' = ioq
         \/ \E p \in Seq(HandlersOf(made)) :
               (\A i \in DOMAIN p : p[i].op # "add") /\ ioq' = ioq \o p
  PROVE  OInv'
<1>1. PICK m, io, al, ba :
        /\ m = made /\ io = ioq /\ al = alerts /\ ba = batch /\ m \in Nat
        /\ io \in Seq(HandlersOf(m)) /\ al \in Seq(AlertsOf(m)) /\ ba \in Seq(AlertsOf(m))
  BY OInvIs
<1>2. PassH(m, io, ioq')
  BY <1>1, PassesH
<1>3. PassA(m, al, alerts')
  BY <1>1, PassesA
<1>4. PassA(m, ba, batch')
  BY <1>1, PassesA
<1>5. PassH(made, ioq, ioq') /\ PassA(made, alerts, alerts') /\ PassA(made, batch, batch')
  BY <1>1, <1>2, <1>3, <1>4
<1>6. Listed' \subseteq Listed
  BY ListedStays
<1>7. QED
  BY <1>5, <1>6, Kept

\* one request, or none
LEMMA PostsOne ==
  ASSUME OInv, NEW h \in HandlersOf(made), h.op # "add",
         ioq' = ioq \/ ioq' = ioq \o <<h>> \/ ioq' = ioq \o <<>>
  PROVE  \/ ioq' = ioq
         \/ \E p \in Seq(HandlersOf(made)) :
               (\A i \in DOMAIN p : p[i].op # "add") /\ ioq' = ioq \o p
<1>1. PICK p \in Seq(HandlersOf(made)) : p = <<h>> /\ DOMAIN p = {1} /\ p[1] = h
  BY Short
<1>2. \A i \in DOMAIN p : p[i].op # "add"
  BY <1>1
<1>3. ioq \o <<>> = ioq
  BY OInvIs, PostedNone
<1>4. QED
  BY <1>1, <1>2, <1>3

LEMMA PauseOrResumeListed ==
  ASSUME OInv, IInv', NEW tag \in Tags, Pause(tag) \/ Resume(tag)
  PROVE  OInv'
<1>1. /\ UNCHANGED inside /\ alerts' = alerts /\ torrents_' = torrents_
      /\ torrent_tags_' = torrent_tags_ /\ asked' = asked /\ batch' = batch /\ phase' = phase
  BY DEF Pause, Resume, Calls, maps
<1>2. phase' # "updating" => batch' = <<>>
  BY <1>1 DEF OInv
<1>3. \/ ioq' = ioq
      \/ \E p \in Seq(HandlersOf(made)) :
            (\A i \in DOMAIN p : p[i].op # "add") /\ ioq' = ioq \o p
  <2>1. CASE ioq' = ioq
    BY <2>1
  <2>2. CASE \E e \in Named(tag) :
                \/ Post(PauseRequests(e.obj))
                \/ Post(<<AutoRequest(e.obj, TRUE)>> \o
                        IF e.auto /\ e.paused THEN <<Request("resume", e.obj)>> ELSE <<>>)
    <3>1. PICK e \in Named(tag) :
                \/ Post(PauseRequests(e.obj))
                \/ Post(<<AutoRequest(e.obj, TRUE)>> \o
                        IF e.auto /\ e.paused THEN <<Request("resume", e.obj)>> ELSE <<>>)
      BY <2>2
    <3>2. PICK o : o = e.obj /\ o \in 1..made /\ made \in Nat
      BY <3>1, OInvIs DEF Named, EntryOf, MapsOK
    <3>3. PICK a \in HandlersOf(made), b \in HandlersOf(made), g \in HandlersOf(made),
               r \in HandlersOf(made) :
            /\ a = AutoRequest(o, FALSE) /\ a.op = "auto"
            /\ b = AutoRequest(o, TRUE) /\ b.op = "auto"
            /\ g = Request("pause_gracefully", o) /\ g.op = "pause_gracefully"
            /\ r = Request("resume", o) /\ r.op = "resume"
      <4>1. /\ AutoRequest(o, FALSE) \in HandlersOf(made) /\ AutoRequest(o, FALSE).op = "auto"
            /\ AutoRequest(o, TRUE) \in HandlersOf(made) /\ AutoRequest(o, TRUE).op = "auto"
        BY <3>2, Made
      <4>2. /\ Request("pause_gracefully", o) \in HandlersOf(made)
            /\ Request("pause_gracefully", o).op = "pause_gracefully"
            /\ Request("resume", o) \in HandlersOf(made) /\ Request("resume", o).op = "resume"
        BY <3>2, Made DEF Plain
      <4>3. QED
        BY <4>1, <4>2
    <3>4. PICK p : (p = <<a, g>> \/ p = <<b>> \/ p = <<b, r>>) /\ ioq' = ioq \o p
      <4>1. \/ ioq' = ioq \o <<a, g>>
            \/ ioq' = ioq \o (<<b>> \o <<r>>) \/ ioq' = ioq \o (<<b>> \o <<>>)
        BY <3>1, <3>2, <3>3 DEF Post, PauseRequests
      <4>2. QED
        BY <4>1, ShortConcat
    <3>5. p \in Seq(HandlersOf(made)) /\ \A i \in DOMAIN p : p[i] \in {a, b, g, r}
      BY <3>4, Short
    <3>6. \A i \in DOMAIN p : p[i].op # "add"
      BY <3>3, <3>5
    <3>7. QED
      BY <3>4, <3>5, <3>6
  <2>3. QED
    BY <2>1, <2>2 DEF Pause, Resume
<1>4. QED
  BY <1>1, <1>2, <1>3, AppCalm

LEMMA CloseListed ==
  ASSUME OInv, IInv', Close
  PROVE  OInv'
<1>1. /\ UNCHANGED inside /\ alerts' = alerts /\ torrents_' = torrents_ /\ phase = "idle"
      /\ torrent_tags_' = torrent_tags_ /\ asked' = asked /\ batch' = batch /\ phase' = "closing"
  BY DEF Close, AppStep, ScanStep
<1>2. PICK h : h = [op |-> "pause_session", obj |-> None] /\ ioq' = ioq \o <<h>>
  BY DEF Close, Post
<1>3. h \in HandlersOf(made) /\ h.op # "add"
  BY <1>2 DEF HandlersOf
<1>4. \/ ioq' = ioq
      \/ \E p \in Seq(HandlersOf(made)) :
            (\A i \in DOMAIN p : p[i].op # "add") /\ ioq' = ioq \o p
  BY <1>2, <1>3, PostsOne
<1>5. batch' = <<>> /\ phase' \in Shut
  BY <1>1 DEF OInv, Shut
<1>6. QED
  BY <1>1, <1>4, <1>5, AppCalm

LEMMA HandlesNoNews ==
  ASSUME OInv, IInv',
         HandleMetadata \/ HandleAskForResumeData \/ HandleResumeData
  PROVE  OInv'
<1>1. PICK kind \in {"metadata", "finished", "paused", "saved", "save_failed"} : Handles(kind)
  BY DEF HandleMetadata, HandleAskForResumeData, HandleResumeData
<1>2. /\ UNCHANGED inside /\ alerts' = alerts /\ asked' = asked /\ phase' = "updating"
      /\ phase = "updating" /\ batch # <<>> /\ Head(batch).kind # "added" /\ batch' = Tail(batch)
  BY <1>1 DEF Handles, bounds
<1>3. torrents_' = torrents_ /\ torrent_tags_' = torrent_tags_
  BY DEF HandleMetadata, HandleAskForResumeData, HandleResumeData, maps
<1>4. PICK o : o = Head(batch).obj /\ o \in 1..made /\ made \in Nat
  <2>1. Head(batch) \in AlertsOf(made) /\ Head(batch).kind = kind /\ made \in Nat
    BY <1>1, OInvIs, HandlesOne
  <2>2. QED
    BY <1>1, <2>1, AlertIs
<1>5. PICK h \in HandlersOf(made), g \in HandlersOf(made) :
        h = Request("save", o) /\ h.op = "save" /\ g = Request("remove", o) /\ g.op = "remove"
  BY <1>4, Made DEF Plain
<1>6. ioq' = ioq \/ ioq' = ioq \o <<>> \/ ioq' = ioq \o <<h>> \/ ioq' = ioq \o <<g>>
  BY <1>4, <1>5 DEF HandleMetadata, HandleAskForResumeData, HandleResumeData, Post
<1>7. \/ ioq' = ioq
      \/ \E p \in Seq(HandlersOf(made)) :
            (\A i \in DOMAIN p : p[i].op # "add") /\ ioq' = ioq \o p
  BY <1>5, <1>6, PostsOne
<1>8. QED
  BY <1>2, <1>3, <1>7, AppCalm DEF Shut

LEMMA EndsListed ==
  ASSUME OInv, IInv', EndUpdate \/ ScanEnds \/ CloseEnds
  PROVE  OInv'
<1>1. /\ UNCHANGED inside /\ torrents_' = torrents_ /\ torrent_tags_' = torrent_tags_
      /\ batch' = batch /\ ioq' = ioq /\ alerts' = alerts /\ asked' = asked
  BY DEF EndUpdate, ScanEnds, CloseEnds, AppStep, ScanStep
<1>2. phase \in {"updating", "scanning", "waiting"} /\ phase' \in {"idle", "scan", "closed"}
      /\ (phase = "waiting" => phase' = "closed") /\ (phase = "updating" => batch = <<>>)
  BY DEF EndUpdate, ScanEnds, CloseEnds, AppStep, ScanStep
<1>3. batch' = <<>> /\ (phase' \notin Shut => phase \notin Shut)
  BY <1>1, <1>2 DEF OInv, Shut
<1>4. QED
  BY <1>1, <1>3, AppCalm

LEMMA ScanListed ==
  ASSUME OInv, IInv', ScanPauses \/ ScanSaves
  PROVE  OInv'
<1>1. /\ UNCHANGED inside /\ torrents_' = torrents_ /\ torrent_tags_' = torrent_tags_
      /\ batch' = batch /\ alerts' = alerts /\ asked' = asked
  BY DEF ScanPauses, ScanSaves, AppStep, ScanStep
<1>2. phase \in {"scanning", "saving"} /\ phase' \in {"scanning", "saving"}
  BY DEF ScanPauses, ScanSaves, AppStep, ScanStep
<1>3. batch' = <<>> /\ phase \notin Shut
  BY <1>1, <1>2 DEF OInv, Shut
<1>4. \/ ioq' = ioq
      \/ \E e \in files_ : \/ Post(<<AutoRequest(e.obj, FALSE), Request("pause", e.obj)>>)
                           \/ Post(<<Request("save", e.obj)>>)
  BY DEF ScanPauses, ScanSaves
<1>5. \/ ioq' = ioq
      \/ \E p \in Seq(HandlersOf(made)) :
            (\A i \in DOMAIN p : p[i].op # "add") /\ ioq' = ioq \o p
  <2>1. CASE ioq' = ioq
    BY <2>1
  <2>2. CASE \E e \in files_ : \/ Post(<<AutoRequest(e.obj, FALSE), Request("pause", e.obj)>>)
                               \/ Post(<<Request("save", e.obj)>>)
    <3>1. PICK o \in 1..made : \/ Post(<<AutoRequest(o, FALSE), Request("pause", o)>>)
                               \/ Post(<<Request("save", o)>>)
      BY <2>2, OInvIs DEF MapsOK
    <3>2. PICK a \in HandlersOf(made), g \in HandlersOf(made), h \in HandlersOf(made) :
            /\ a = AutoRequest(o, FALSE) /\ a.op = "auto"
            /\ g = Request("pause", o) /\ g.op = "pause"
            /\ h = Request("save", o) /\ h.op = "save"
      <4>1. AutoRequest(o, FALSE) \in HandlersOf(made) /\ AutoRequest(o, FALSE).op = "auto"
        BY OInvIs, Made
      <4>2. /\ Request("pause", o) \in HandlersOf(made) /\ Request("pause", o).op = "pause"
            /\ Request("save", o) \in HandlersOf(made) /\ Request("save", o).op = "save"
        BY OInvIs, Made DEF Plain
      <4>3. QED
        BY <4>1, <4>2
    <3>3. PICK p : (p = <<a, g>> \/ p = <<h>>) /\ ioq' = ioq \o p
      BY <3>1, <3>2 DEF Post
    <3>4. p \in Seq(HandlersOf(made)) /\ \A i \in DOMAIN p : p[i] \in {a, g, h}
      <4>1. CASE p = <<a, g>>
        BY <4>1, Short
      <4>2. CASE p = <<h>>
        BY <4>2, Short
      <4>3. QED
        BY <3>3, <4>1, <4>2
    <3>5. \A i \in DOMAIN p : p[i].op # "add"
      BY <3>2, <3>4
    <3>6. QED
      BY <3>3, <3>4, <3>5
  <2>3. QED
    BY <1>4, <2>1, <2>2
<1>6. QED
  BY <1>1, <1>3, <1>5, AppCalm

LEMMA CloseAsksListed ==
  ASSUME OInv, IInv', CloseAsks
  PROVE  OInv'
<1>1. /\ UNCHANGED inside /\ torrents_' = torrents_ /\ torrent_tags_' = torrent_tags_
      /\ batch' = batch /\ alerts' = alerts /\ asked' = asked
      /\ phase = "closing" /\ phase' = "waiting"
  BY DEF CloseAsks, AppStep, ScanStep
<1>2. batch' = <<>> /\ phase' \in Shut
  BY <1>1 DEF OInv, Shut
<1>3. PICK need, p :
        /\ need \in SUBSET (1..made)
        /\ p = [i \in 1..Cardinality(need) |-> Request("save", SetToSeq(need)[i])]
        /\ ioq' = ioq \o p
  <2>1. Listed \subseteq 1..made
    BY DEF Listed, Created
  <2>2. QED
    BY <2>1 DEF CloseAsks, Post
<1>4. p \in Seq(HandlersOf(made)) /\ \A i \in DOMAIN p : p[i].op = "save"
  BY <1>3, OInvIs, SeveralRequests
<1>5. QED
  BY <1>1, <1>2, <1>3, <1>4, AppCalm

LEMMA CloseWaitsListed ==
  ASSUME OInv, IInv', CloseWaits
  PROVE  OInv'
<1>1. /\ UNCHANGED inside /\ torrents_' = torrents_ /\ torrent_tags_' = torrent_tags_
      /\ batch' = batch /\ alerts' = <<>> /\ asked' = asked /\ ioq' = ioq
      /\ phase = "waiting" /\ phase' = "waiting"
  BY DEF CloseWaits, AppStep, ScanStep
<1>2. PICK m, io, al, ba :
        /\ m = made /\ io = ioq /\ al = alerts /\ ba = batch /\ m \in Nat
        /\ io \in Seq(HandlersOf(m)) /\ al \in Seq(AlertsOf(m)) /\ ba \in Seq(AlertsOf(m))
  BY OInvIs
<1>3. PassH(made, ioq, ioq')
  BY <1>1, <1>2, PassesH
<1>4. \A t : Count(ba, AddedOf({t})) <= Count(ba, AddedOf({t}))
  <2>1. PassA(m, ba, ba)
    BY <1>2, PassesA
  <2>2. QED
    BY <2>1 DEF PassA
<1>5. PICK bl \in Seq(AlertsOf(m)) : bl = <<>>
  BY EmptySeq
<1>6. \A t : Count(bl, AddedOf({t})) <= Count(al, AddedOf({t}))
  <2>1. ASSUME NEW t
        PROVE  Count(bl, AddedOf({t})) <= Count(al, AddedOf({t}))
    <3>1. Count(bl, AddedOf({t})) = 0
      BY <1>5, CountEmpty
    <3>2. PICK c \in Nat : c = Count(al, AddedOf({t}))
      BY <1>2, PlacesFinite
    <3>3. QED
      BY <3>1, <3>2
  <2>2. QED
    BY <2>1
<1>7. \A t \in Tags : Used(ioq', alerts', batch', torrents_', t) <= asked'[t]
  BY <1>1, <1>2, <1>3, <1>4, <1>5, <1>6, BudgetStays
<1>8. phase' \in Shut /\ batch' = <<>>
  BY <1>1 DEF OInv, Shut
<1>9. QED
  BY <1>1, <1>7, <1>8 DEF OInv

\* the cached status of an entry is no part of its name
LEMMA StateUpdateListed ==
  ASSUME OInv, IInv', HandleStateUpdate
  PROVE  OInv'
<1>1. /\ UNCHANGED inside /\ alerts' = alerts /\ asked' = asked /\ ioq' = ioq
      /\ torrent_tags_' = torrent_tags_ /\ phase = "updating" /\ phase' = "updating"
      /\ batch # <<>> /\ Head(batch).kind # "added" /\ batch' = Tail(batch)
  BY DEF HandleStateUpdate, Handles, bounds
<1>2. PICK cached :
        /\ torrents_' = {cached[e] : e \in torrents_}
        /\ \A e \in torrents_ : cached[e].tag = e.tag /\ cached[e].obj = e.obj
  <2>1. PICK missed \in SUBSET Head(batch).status :
          LET news(e) == {s \in Head(batch).status \ missed : SameHandle(s.obj, e.obj)}
              kept(e) == IF news(e) = {} THEN e
                         ELSE LET s == CHOOSE s \in news(e) : TRUE
                              IN  [e EXCEPT !.auto = s.auto, !.paused = s.paused]
          IN  torrents_' = {kept(e) : e \in torrents_}
    BY DEF HandleStateUpdate
  <2>2. DEFINE news(e) == {s \in Head(batch).status \ missed : SameHandle(s.obj, e.obj)}
               kept(e) == IF news(e) = {} THEN e
                          ELSE LET s == CHOOSE s \in news(e) : TRUE
                               IN  [e EXCEPT !.auto = s.auto, !.paused = s.paused]
  <2>3. torrents_' = {kept(e) : e \in torrents_}
    BY <2>1
  <2>4. ASSUME NEW e \in torrents_
        PROVE  kept(e).tag = e.tag /\ kept(e).obj = e.obj
    <3>1. e \in [tag : Tags, obj : 1..made, auto : BOOLEAN, paused : BOOLEAN]
      BY OInvIs DEF MapsOK
    <3>2. PICK N : N = news(e)
      OBVIOUS
    <3>3. PICK x, y : kept(e) = IF N = {} THEN e ELSE [e EXCEPT !.auto = x, !.paused = y]
      BY <3>2
    <3>4. QED
      BY <3>1, <3>3
  <2>5. HIDE DEF kept
  <2>6. PICK cached : cached = [e \in torrents_ |-> kept(e)]
    OBVIOUS
  <2>7. QED
    BY <2>3, <2>4, <2>6
<1>3. PICK m, io, al, ba :
        /\ m = made /\ io = ioq /\ al = alerts /\ ba = batch /\ m \in Nat
        /\ io \in Seq(HandlersOf(m)) /\ al \in Seq(AlertsOf(m)) /\ ba \in Seq(AlertsOf(m))
  BY OInvIs
<1>4. PassH(made, ioq, ioq')
  BY <1>1, <1>3, PassesH
<1>5. PassA(m, al, al) /\ PassA(m, ba, Tail(ba))
  BY <1>1, <1>3, PassesA
<1>6. PICK bl, ca : bl = al /\ ca = Tail(ba) /\ PassA(m, al, bl) /\ PassA(m, ba, ca)
  BY <1>5
<1>7. \A t : (\E e \in torrents_' : e.tag = t) => \E e \in torrents_ : e.tag = t
  BY <1>2
<1>8. \A t \in Tags : Used(ioq', alerts', batch', torrents_', t) <= asked'[t]
  <2>1. /\ bl \in Seq(AlertsOf(m)) /\ ca \in Seq(AlertsOf(m)) /\ bl = alerts' /\ ca = batch'
        /\ \A t : Count(bl, AddedOf({t})) <= Count(alerts, AddedOf({t}))
        /\ \A t : Count(ca, AddedOf({t})) <= Count(batch, AddedOf({t}))
    BY <1>1, <1>3, <1>6 DEF PassA
  <2>2. QED
    BY <1>1, <1>3, <1>4, <1>7, <2>1, BudgetStays
<1>9. \A e \in torrents_' : torrent_tags_'[e.tag] = e.tag
  BY <1>1, <1>2 DEF OInv
<1>10. \A e, f \in torrents_' : e.tag = f.tag => e = f
  BY <1>2 DEF OInv
<1>11. ASSUME NEW o \in Listed'
       PROVE  Covered(o)'
  <2>1. Covered(o)
    BY <1>1, ListedStays DEF OInv, Shut
  <2>2. CASE \E e \in torrents_ : e.obj = o
    <3>1. \E e \in torrents_' : e.obj = o
      BY <1>2, <2>2
    <3>2. QED
      BY <3>1 DEF Covered
  <2>3. CASE \E a \in ToSet(alerts) \cup ToSet(batch) : a.kind = "added" /\ a.obj = o
    <3>1. \A a \in ToSet(ba) : a.kind = "added" => a \in ToSet(ca)
      BY <1>6 DEF PassA
    <3>2. \E a \in ToSet(alerts') \cup ToSet(batch') : a.kind = "added" /\ a.obj = o
      BY <1>1, <1>3, <1>6, <2>3, <3>1
    <3>3. QED
      BY <3>2 DEF Covered
  <2>4. CASE \E h \in ToSet(ioq) : h.op = "remove" /\ h.obj = o
    BY <1>1, <2>4 DEF Covered
  <2>5. QED
    BY <2>1, <2>2, <2>3, <2>4 DEF Covered
<1>12. QED
  BY <1>1, <1>8, <1>9, <1>10, <1>11 DEF OInv

LEMMA AddAsked ==
  ASSUME OInv, IInv', NEW tag \in Tags, Add(tag)
  PROVE  OInv'
<1>1. /\ UNCHANGED inside /\ alerts' = alerts /\ torrents_' = torrents_ /\ batch' = batch
      /\ torrent_tags_' = torrent_tags_ /\ phase = "idle" /\ phase' = phase
      /\ asked' = [asked EXCEPT ![tag] = asked[tag] + 1]
  BY DEF Add, Ready, maps
<1>2. PICK h : h = [op |-> "add", obj |-> None, tag |-> tag] /\ ioq' = ioq \o <<h>>
  BY DEF Add, Post
<1>3. PICK m, io, al, ba, es :
        /\ m = made /\ io = ioq /\ al = alerts /\ ba = batch /\ es = torrents_ /\ m \in Nat
        /\ io \in Seq(HandlersOf(m)) /\ al \in Seq(AlertsOf(m)) /\ ba \in Seq(AlertsOf(m))
  BY OInvIs
<1>4. h \in HandlersOf(m) /\ h.op = "add" /\ h.tag = tag
  BY <1>2 DEF HandlersOf
<1>5. PICK p \in Seq(HandlersOf(m)) : p = <<h>>
  BY <1>4, Short
<1>6. PICK jo : jo = io \o p /\ jo = ioq'
  BY <1>2, <1>3, <1>5
<1>7. /\ m \in Nat /\ io \in Seq(HandlersOf(m)) /\ h \in HandlersOf(m) /\ h.op = "add"
       /\ h.tag = tag /\ p \in Seq(HandlersOf(m)) /\ jo = io \o p
  BY <1>3, <1>4, <1>5, <1>6
<1>8. ASSUME NEW t \in Tags
      PROVE  Used(jo, al, ba, es, t) <= asked'[t]
  <2>1. PICK k \in Nat : k = asked[t]
    BY OInvIs, MaxAddsAssumption
  <2>2. PICK x \in Nat, y \in Nat, w \in Nat, d \in Nat :
          /\ x = Count(io, AddsOf({t})) /\ y = Count(al, AddedOf({t}))
          /\ w = Count(ba, AddedOf({t})) /\ d = (IF \E e \in es : e.tag = t THEN 1 ELSE 0)
    <3>1. /\ Count(io, AddsOf({t})) \in Nat /\ Count(al, AddedOf({t})) \in Nat
          /\ Count(ba, AddedOf({t})) \in Nat
      BY <1>3, PlacesFinite
    <3>2. (IF \E e \in es : e.tag = t THEN 1 ELSE 0) \in Nat
      OBVIOUS
    <3>3. QED
      BY <3>1, <3>2
  <2>3. x + y + w + d <= k
    <3>1. Used(io, al, ba, es, t) <= k
      BY <1>3, <2>1 DEF OInv
    <3>2. QED
      BY <2>2, <3>1 DEF Used
  <2>4. PICK z \in Nat : z = (IF h \in AddsOf({t}) THEN 1 ELSE 0) /\ z = (IF t = tag THEN 1 ELSE 0)
    <3>1. h \in AddsOf({t}) <=> h.tag = t
      <4>1. h = [op |-> "add", obj |-> None, tag |-> tag]
        BY <1>2
      <4>2. h \in AddsOf({t}) <=> tag \in {t}
        BY <4>1 DEF AddsOf
      <4>3. QED
        BY <1>4, <4>2
    <3>2. QED
      BY <1>4, <3>1
  <2>5. Count(p, AddsOf({t})) = z
    BY <1>4, <1>5, <2>4, CountOne
  <2>6. Count(jo, AddsOf({t})) = x + z
    BY <1>7, <2>2, <2>5, CountConcat
  <2>7. Used(jo, al, ba, es, t) = (x + z) + y + w + d
    BY <2>2, <2>6 DEF Used
  <2>8. asked'[t] = k + z
    <3>1. asked \in [Tags -> 0..MaxAdds]
      BY OInvIs
    <3>2. CASE t = tag
      BY <1>1, <2>1, <2>4, <3>1, <3>2
    <3>3. CASE t # tag
      BY <1>1, <2>1, <2>4, <3>1, <3>3
    <3>4. QED
      BY <3>2, <3>3
  <2>9. (x + z) + y + w + d <= k + z
    BY <2>3
  <2>10. QED
    BY <2>7, <2>8, <2>9
<1>9. \A t \in Tags : Used(ioq', alerts', batch', torrents_', t) <= asked'[t]
  BY <1>1, <1>3, <1>6, <1>8
<1>10. ASSUME NEW o \in Listed'
      PROVE  Covered(o)'
  <2>1. Covered(o)
    BY <1>1, ListedStays DEF OInv, Shut
  <2>2. ToSet(jo) = ToSet(io) \cup ToSet(p)
    BY <1>7, SetOfConcat
  <2>3. \A g \in ToSet(ioq) : g.op = "remove" /\ g.obj = o => g \in ToSet(ioq')
    BY <1>3, <1>6, <2>2
  <2>4. QED
    BY <1>1, <2>1, <2>3, CoverStays
<1>11. QED
  BY <1>1, <1>9, <1>10 DEF OInv

LEMMA UpdateListed ==
  ASSUME OInv, IInv', Update
  PROVE  OInv'
<1>1. /\ UNCHANGED inside /\ alerts' = <<>> /\ torrents_' = torrents_ /\ batch' = alerts
      /\ torrent_tags_' = torrent_tags_ /\ phase = "idle" /\ phase' = "updating"
      /\ asked' = asked /\ batch = <<>>
  BY DEF Update, Ready, maps, bounds, OInv
<1>2. PICK h : h = [op |-> "updates", obj |-> None] /\ ioq' = ioq \o <<h>>
  BY DEF Update, Post
<1>3. PICK m, io, al, es :
        /\ m = made /\ io = ioq /\ al = alerts /\ es = torrents_ /\ m \in Nat
        /\ io \in Seq(HandlersOf(m)) /\ al \in Seq(AlertsOf(m))
  BY OInvIs
<1>4. h \in HandlersOf(m) /\ h.op # "add"
  BY <1>2 DEF HandlersOf
<1>5. PICK p \in Seq(HandlersOf(m)) : p = <<h>> /\ DOMAIN p = {1} /\ p[1] = h
  BY <1>4, Short
<1>6. PICK jo : jo = io \o p /\ jo = ioq'
  BY <1>2, <1>3, <1>5
<1>7. PassH(m, io, jo)
  <2>1. \A i \in DOMAIN p : p[i].op # "add"
    BY <1>4, <1>5
  <2>2. QED
    BY <1>3, <1>6, <2>1, PassesH
<1>8. ASSUME NEW t \in Tags
      PROVE  Used(jo, <<>>, al, es, t) <= asked[t]
  <2>1. PICK k \in Nat : k = asked[t]
    BY OInvIs, MaxAddsAssumption
  <2>2. jo \in Seq(HandlersOf(m)) /\ Count(jo, AddsOf({t})) <= Count(io, AddsOf({t}))
    BY <1>7 DEF PassH
  <2>3. PICK x \in Nat, u \in Nat, y \in Nat, d \in Nat :
          /\ x = Count(io, AddsOf({t})) /\ y = Count(al, AddedOf({t}))
          /\ u = Count(jo, AddsOf({t})) /\ d = (IF \E e \in es : e.tag = t THEN 1 ELSE 0)
    <3>1. /\ Count(io, AddsOf({t})) \in Nat /\ Count(al, AddedOf({t})) \in Nat
          /\ Count(jo, AddsOf({t})) \in Nat
      BY <1>3, <2>2, PlacesFinite
    <3>2. (IF \E e \in es : e.tag = t THEN 1 ELSE 0) \in Nat
      OBVIOUS
    <3>3. QED
      BY <3>1, <3>2
  <2>4. Count(<<>>, AddedOf({t})) = 0
    BY CountEmpty
  <2>5. x + y + 0 + d <= k
    <3>1. Used(io, al, <<>>, es, t) <= k
      BY <1>1, <1>3, <2>1 DEF OInv
    <3>2. QED
      BY <2>3, <2>4, <3>1 DEF Used
  <2>6. Used(jo, <<>>, al, es, t) = u + 0 + y + d
    BY <2>3, <2>4 DEF Used
  <2>7. u <= x
    BY <2>2, <2>3
  <2>8. u + 0 + y + d <= k
    BY <2>5, <2>7
  <2>9. QED
    BY <2>1, <2>6, <2>8
<1>9. \A t \in Tags : Used(ioq', alerts', batch', torrents_', t) <= asked'[t]
  BY <1>1, <1>3, <1>6, <1>8
<1>10. ASSUME NEW o \in Listed'
       PROVE  Covered(o)'
  <2>1. Covered(o)
    BY <1>1, ListedStays DEF OInv, Shut
  <2>2. CASE \E e \in torrents_ : e.obj = o
    BY <1>1, <2>2 DEF Covered
  <2>3. CASE \E a \in ToSet(alerts) \cup ToSet(batch) : a.kind = "added" /\ a.obj = o
    <3>1. ToSet(batch) = {}
      BY <1>1 DEF ToSet
    <3>2. \E a \in ToSet(batch') : a.kind = "added" /\ a.obj = o
      BY <1>1, <2>3, <3>1
    <3>3. QED
      BY <3>2 DEF Covered
  <2>4. CASE \E h1 \in ToSet(ioq) : h1.op = "remove" /\ h1.obj = o
    <3>1. \E g \in ToSet(ioq') : g.op = "remove" /\ g.obj = o
      BY <1>3, <1>6, <1>7, <2>4 DEF PassH
    <3>2. QED
      BY <3>1 DEF Covered
  <2>5. QED
    BY <2>1, <2>2, <2>3, <2>4 DEF Covered
<1>11. QED
  BY <1>1, <1>9, <1>10 DEF OInv

LEMMA DelListed ==
  ASSUME OInv, IInv', NEW tag \in Tags, Del(tag)
  PROVE  OInv'
<1>1. /\ UNCHANGED inside /\ alerts' = alerts /\ batch' = batch /\ asked' = asked
      /\ phase = "idle" /\ phase' = phase /\ batch = <<>>
  BY DEF Del, Calls, Ready, OInv
<1>2. CASE ioq' = ioq /\ torrents_' = torrents_ /\ torrent_tags_' = torrent_tags_
  BY <1>1, <1>2, AppCalm
<1>3. CASE \E e \in Named(tag) :
             /\ torrents_' = torrents_ \ {e}
             /\ torrent_tags_' = [torrent_tags_ EXCEPT ![e.tag] = None, ![tag] = None]
             /\ Post(Removal(e.obj))
  <2>1. PICK e \in Named(tag) :
             /\ torrents_' = torrents_ \ {e}
             /\ torrent_tags_' = [torrent_tags_ EXCEPT ![e.tag] = None, ![tag] = None]
             /\ Post(Removal(e.obj))
    BY <1>3
  <2>2. e \in torrents_ /\ e.tag = torrent_tags_[tag]
    BY DEF Named, EntryOf
  <2>3. PICK o : o = e.obj /\ o \in 1..made /\ made \in Nat
    BY <2>2, OInvIs DEF MapsOK
  <2>4. PICK h \in HandlersOf(made) : h = Request("remove", o) /\ h.op = "remove" /\ h.obj = o
    <3>1. Request("remove", o) \in HandlersOf(made) /\ Request("remove", o).op = "remove"
      BY <2>3, Made DEF Plain
    <3>2. Request("remove", o).obj = o
      BY DEF Request
    <3>3. QED
      BY <3>1, <3>2
  <2>5. PICK io, m, jo : /\ io = ioq /\ m = made /\ m \in Nat /\ io \in Seq(HandlersOf(m))
                         /\ jo = ioq'
    BY OInvIs
  <2>6. PICK p \in Seq(HandlersOf(m)) : p = <<h>> /\ DOMAIN p = {1} /\ p[1] = h
    <3>1. h \in HandlersOf(m) /\ io \in Seq(HandlersOf(m))
      BY <2>4, <2>5
    <3>2. QED
      BY <3>1, Short
  <2>7. PassH(m, io, jo) /\ (Live(o) => h \in ToSet(jo))
    <3>1. \A i \in DOMAIN p : p[i].op # "add"
      BY <2>4, <2>6
    <3>2. CASE Live(o)
      <4>1. jo = io \o p
        BY <2>1, <2>3, <2>4, <2>5, <2>6, <3>2 DEF Post, Removal
      <4>2. ToSet(jo) = ToSet(io) \cup ToSet(p) /\ h \in ToSet(p)
        <5>1. io \in Seq(HandlersOf(m)) /\ p \in Seq(HandlersOf(m))
          BY <2>5
        <5>2. ToSet(io \o p) = ToSet(io) \cup ToSet(p)
          BY <5>1, SetOfConcat
        <5>3. h \in ToSet(p)
          BY <2>6 DEF ToSet
        <5>4. QED
          BY <4>1, <5>2, <5>3
      <4>3. PassH(m, io, io \o p)
        BY <2>5, <2>6, <3>1, PassesH
      <4>4. QED
        BY <4>1, <4>2, <4>3
    <3>3. CASE ~Live(o)
      <4>1. jo = io
        BY <2>1, <2>3, <2>5, <3>3, PostedNone DEF Post, Removal
      <4>2. QED
        BY <2>5, <3>3, <4>1, PassesH
    <3>4. QED
      BY <3>2, <3>3
  <2>8. PICK al, ba, bl, ca :
          /\ al = alerts /\ ba = batch /\ bl = alerts' /\ ca = batch'
          /\ al \in Seq(AlertsOf(m)) /\ ba \in Seq(AlertsOf(m))
          /\ PassA(m, al, bl) /\ PassA(m, ba, ca)
    <3>1. PICK al, ba : /\ al = alerts /\ ba = batch
                        /\ al \in Seq(AlertsOf(m)) /\ ba \in Seq(AlertsOf(m))
      BY <2>5, OInvIs
    <3>2. PassA(m, al, al) /\ PassA(m, ba, ba)
      BY <2>5, <3>1, PassesA
    <3>3. QED
      BY <1>1, <3>1, <3>2
  <2>9. \A t \in Tags : Used(ioq', alerts', batch', torrents_', t) <= asked'[t]
    <3>1. PassH(made, ioq, ioq')
      BY <2>5, <2>7
    <3>2. /\ bl \in Seq(AlertsOf(m)) /\ ca \in Seq(AlertsOf(m)) /\ bl = alerts' /\ ca = batch'
          /\ \A t : Count(bl, AddedOf({t})) <= Count(alerts, AddedOf({t}))
          /\ \A t : Count(ca, AddedOf({t})) <= Count(batch, AddedOf({t}))
      BY <2>8 DEF PassA
    <3>3. \A t : (\E f \in torrents_' : f.tag = t) => \E f \in torrents_ : f.tag = t
      BY <2>1
    <3>4. QED
      BY <1>1, <2>5, <3>1, <3>2, <3>3, BudgetStays
  <2>10. ASSUME NEW f \in torrents_'
         PROVE  torrent_tags_'[f.tag] = f.tag
    <3>1. f \in torrents_ /\ f # e /\ torrent_tags_[f.tag] = f.tag /\ f.tag # e.tag
      BY <2>1, <2>2 DEF OInv
    <3>2. f.tag # tag
      BY <2>2, <3>1
    <3>3. f.tag \in Tags /\ torrent_tags_ \in [Tags -> Tags \cup {None}]
      BY <3>1, OInvIs DEF MapsOK
    <3>4. QED
      BY <2>1, <3>1, <3>2, <3>3
  <2>11. \A f, g \in torrents_' : f.tag = g.tag => f = g
    BY <2>1 DEF OInv
  <2>12. ASSUME NEW x \in Listed'
         PROVE  Covered(x)'
    <3>1. Covered(x) /\ Live(x)
      BY <1>1, ListedStays DEF OInv, Shut, Listed, Live
    <3>2. CASE x = o
      <4>1. h \in ToSet(ioq') /\ h.op = "remove" /\ h.obj = x
        BY <2>4, <2>5, <2>7, <3>1, <3>2
      <4>2. QED
        BY <4>1 DEF Covered
    <3>3. CASE x # o /\ \E f \in torrents_ : f.obj = x
      <4>1. \E f \in torrents_' : f.obj = x
        BY <2>1, <2>3, <3>3
      <4>2. QED
        BY <4>1 DEF Covered
    <3>4. CASE \E a \in ToSet(alerts) \cup ToSet(batch) : a.kind = "added" /\ a.obj = x
      BY <1>1, <3>4 DEF Covered
    <3>5. CASE \E g \in ToSet(ioq) : g.op = "remove" /\ g.obj = x
      <4>1. \E g \in ToSet(ioq') : g.op = "remove" /\ g.obj = x
        BY <2>5, <2>7, <3>5 DEF PassH
      <4>2. QED
        BY <4>1 DEF Covered
    <3>6. QED
      BY <3>1, <3>2, <3>3, <3>4, <3>5 DEF Covered
  <2>13. QED
    BY <1>1, <2>9, <2>10, <2>11, <2>12 DEF OInv
<1>4. QED
  BY <1>2, <1>3 DEF Del, maps

\* every tag is in the queue of an addition as often as it is asked for: at most once
LEMMA ScanAddsOnce ==
  ASSUME NEW new \in SUBSET Tags, NEW q,
         q = [i \in 1..Cardinality(new) |-> [op |-> "add", obj |-> None, tag |-> SetToSeq(new)[i]]],
         NEW m \in Nat
  PROVE  /\ q \in Seq(HandlersOf(m))
         /\ \A t \in Tags : /\ Count(q, AddsOf({t})) \in {0, 1}
                            /\ t \notin new => Count(q, AddsOf({t})) = 0
<1>1. IsFiniteSet(new)
  BY TagsAssumption, FS_Subset
<1>2. PICK n, s : /\ n = Cardinality(new) /\ s = SetToSeq(new) /\ n \in Nat /\ s \in [1..n -> new]
                  /\ IsInjective(s)
  BY <1>1, Numbered
<1>3. q = [i \in 1..n |-> [op |-> "add", obj |-> None, tag |-> s[i]]]
  BY <1>2
<1>4. DOMAIN q = 1..n /\ \A i \in 1..n : q[i] = [op |-> "add", obj |-> None, tag |-> s[i]]
  BY <1>3
<1>5. q \in Seq(HandlersOf(m))
  <2>1. PICK T : T = HandlersOf(m)
    OBVIOUS
  <2>2. \A i \in 1..n : [op |-> "add", obj |-> None, tag |-> s[i]] \in T
    BY <1>2, <2>1 DEF HandlersOf
  <2>3. q \in [1..n -> T]
    BY <1>3, <2>2
  <2>4. QED
    BY <1>2, <2>1, <2>3, ASequence
<1>6. \A i, j \in 1..n : s[i] = s[j] => i = j
  BY <1>2 DEF IsInjective
<1>7. ASSUME NEW t \in Tags
      PROVE  Count(q, AddsOf({t})) \in {0, 1} /\ (t \notin new => Count(q, AddsOf({t})) = 0)
  <2>1. ASSUME NEW i \in 1..n
        PROVE  q[i] \in AddsOf({t}) <=> s[i] = t
    <3>1. q[i] = [op |-> "add", obj |-> None, tag |-> s[i]]
      BY <1>4
    <3>2. q[i] \in AddsOf({t}) <=> s[i] \in {t}
      BY <3>1, <1>2 DEF AddsOf
    <3>3. QED
      BY <3>2
  <2>2. \A i \in 1..n : q[i] \in AddsOf({t}) <=> s[i] = t
    BY <2>1
  <2>3. Places(q, AddsOf({t})) = {i \in 1..n : s[i] = t}
    BY <1>4, <2>2 DEF Places
  <2>4. CASE \E i \in 1..n : s[i] = t
    <3>1. PICK i \in 1..n : s[i] = t
      BY <2>4
    <3>2. Places(q, AddsOf({t})) = {i}
      BY <1>6, <2>3, <3>1
    <3>3. Count(q, AddsOf({t})) = 1 /\ t \in new
      BY <1>2, <3>1, <3>2, FS_Singleton DEF Count
    <3>4. QED
      BY <3>3
  <2>5. CASE ~\E i \in 1..n : s[i] = t
    <3>1. Places(q, AddsOf({t})) = {}
      BY <2>3, <2>5
    <3>2. Count(q, AddsOf({t})) = 0
      BY <3>1, FS_EmptySet DEF Count
    <3>3. QED
      BY <3>2
  <2>6. QED
    BY <2>4, <2>5
<1>8. QED
  BY <1>5, <1>7

LEMMA ScanAddsListed ==
  ASSUME OInv, IInv', ScanAdds
  PROVE  OInv'
<1>1. /\ UNCHANGED inside /\ alerts' = alerts /\ torrents_' = torrents_ /\ batch' = batch
      /\ torrent_tags_' = torrent_tags_ /\ phase = "scan" /\ phase' = "scanning"
      /\ batch = <<>>
  BY DEF ScanAdds, AppStep, ScanStep, OInv
<1>2. PICK new : new = {f \in dir : ~\E e \in files_ : e.key = f} /\ new \in SUBSET Tags
  BY OInvIs, MonitoredAssumption DEF MapsOK, Tags
<1>3. PICK p : p = [i \in 1 .. Cardinality(new) |->
                      [op |-> "add", obj |-> None, tag |-> SetToSeq(new)[i]]]
  OBVIOUS
<1>4. asked' = MoreTurns(asked, new) /\ ioq' = ioq \o p
  BY <1>2, <1>3 DEF ScanAdds, Post, MoreTurns
<1>5. PICK m, io, al, ba, es, jo :
        /\ m = made /\ io = ioq /\ al = alerts /\ ba = batch /\ es = torrents_ /\ m \in Nat
        /\ io \in Seq(HandlersOf(m)) /\ al \in Seq(AlertsOf(m)) /\ ba \in Seq(AlertsOf(m))
        /\ jo = ioq' /\ jo = io \o p
  BY <1>4, OInvIs
<1>6. ASSUME NEW t \in Tags
      PROVE  Used(jo, al, ba, es, t) <= asked'[t]
  <2>1. PICK k \in Nat : k = asked[t]
    BY OInvIs, MaxAddsAssumption
  <2>2. PICK x \in Nat, y \in Nat, w \in Nat, d \in Nat :
          /\ x = Count(io, AddsOf({t})) /\ y = Count(al, AddedOf({t}))
          /\ w = Count(ba, AddedOf({t})) /\ d = (IF \E e \in es : e.tag = t THEN 1 ELSE 0)
    <3>1. /\ Count(io, AddsOf({t})) \in Nat /\ Count(al, AddedOf({t})) \in Nat
          /\ Count(ba, AddedOf({t})) \in Nat
      BY <1>5, PlacesFinite
    <3>2. (IF \E e \in es : e.tag = t THEN 1 ELSE 0) \in Nat
      OBVIOUS
    <3>3. QED
      BY <3>1, <3>2
  <2>3. x + y + w + d <= k
    <3>1. Used(io, al, ba, es, t) <= k
      BY <1>5, <2>1 DEF OInv
    <3>2. QED
      BY <2>2, <3>1 DEF Used
  <2>4. m \in Nat /\ io \in Seq(HandlersOf(m))
    BY <1>5
  <2>5. PICK z \in Nat : /\ z = Count(p, AddsOf({t})) /\ p \in Seq(HandlersOf(m))
                         /\ z <= (IF t \in new THEN 1 ELSE 0)
    <3>1. /\ p \in Seq(HandlersOf(m)) /\ Count(p, AddsOf({t})) \in {0, 1}
          /\ t \notin new => Count(p, AddsOf({t})) = 0
      BY <1>2, <1>3, <2>4, ScanAddsOnce
    <3>2. QED
      BY <3>1
  <2>6. Count(io \o p, AddsOf({t})) = x + z
    BY <2>2, <2>4, <2>5, CountConcat
  <2>7. Used(jo, al, ba, es, t) = (x + z) + y + w + d
    BY <1>5, <2>2, <2>6 DEF Used
  <2>8. asked'[t] = k + (IF t \in new THEN 1 ELSE 0)
    BY <1>4, <2>1 DEF MoreTurns
  <2>9. PICK v \in Nat : v = (IF t \in new THEN 1 ELSE 0)
    OBVIOUS
  <2>10. (x + z) + y + w + d <= k + v
    BY <2>3, <2>5, <2>9
  <2>11. QED
    BY <2>7, <2>8, <2>9, <2>10
<1>7. \A t \in Tags : Used(ioq', alerts', batch', torrents_', t) <= asked'[t]
  BY <1>1, <1>5, <1>6
<1>8. ASSUME NEW o \in Listed'
      PROVE  Covered(o)'
  <2>1. Covered(o)
    BY <1>1, ListedStays DEF OInv, Shut
  <2>2. CASE \E e \in torrents_ : e.obj = o
    BY <1>1, <2>2 DEF Covered
  <2>3. CASE \E a \in ToSet(alerts) \cup ToSet(batch) : a.kind = "added" /\ a.obj = o
    BY <1>1, <2>3 DEF Covered
  <2>4. CASE \E h \in ToSet(ioq) : h.op = "remove" /\ h.obj = o
    <3>1. PICK h : h \in ToSet(io) /\ h.op = "remove" /\ h.obj = o
      BY <1>5, <2>4
    <3>2. m \in Nat /\ io \in Seq(HandlersOf(m)) /\ p \in Seq(HandlersOf(m))
      <4>1. m \in Nat /\ io \in Seq(HandlersOf(m))
        BY <1>5
      <4>2. QED
        BY <1>2, <1>3, <4>1, ScanAddsOnce
    <3>3. ToSet(io \o p) = ToSet(io) \cup ToSet(p)
      BY <3>2, SetOfConcat
    <3>4. h \in ToSet(ioq')
      BY <1>5, <3>1, <3>3
    <3>5. QED
      BY <3>1, <3>4 DEF Covered
  <2>5. QED
    BY <2>1, <2>2, <2>3, <2>4 DEF Covered
<1>9. QED
  BY <1>1, <1>7, <1>8 DEF OInv

\* the alert of a tag that was added once finds no entry of that tag
LEMMA NewsIsFirst ==
  ASSUME OInv, MaxAdds = 1, batch # <<>>, Head(batch).kind = "added"
  PROVE  Head(batch).tag \in Tags /\ ~\E e \in torrents_ : e.tag = Head(batch).tag
<1>1. PICK m, io, al, ba, es, a :
        /\ m = made /\ io = ioq /\ al = alerts /\ ba = batch /\ es = torrents_ /\ a = Head(ba)
        /\ m \in Nat /\ io \in Seq(HandlersOf(m)) /\ al \in Seq(AlertsOf(m))
        /\ ba \in Seq(AlertsOf(m)) /\ ba # <<>> /\ a.kind = "added"
  BY OInvIs
<1>2. a \in AlertsOf(m)
  <2>1. ba \in Seq(AlertsOf(m)) /\ ba # <<>>
    BY <1>1
  <2>2. Head(ba) \in AlertsOf(m)
    BY <2>1, HeadTailProperties
  <2>3. QED
    BY <1>1, <2>2
<1>3. PICK t \in Tags : t = a.tag
  BY <1>1, <1>2, AlertIs
<1>4. a \in AddedOf({t})
  BY <1>1, <1>2, <1>3, TagIs
<1>5. PICK x \in Nat, y \in Nat, w \in Nat, d \in {0, 1} :
        /\ x = Count(io, AddsOf({t})) /\ y = Count(al, AddedOf({t}))
        /\ w + 1 = Count(ba, AddedOf({t})) /\ d = (IF \E e \in es : e.tag = t THEN 1 ELSE 0)
  <2>1. io \in Seq(HandlersOf(m)) /\ al \in Seq(AlertsOf(m)) /\ ba \in Seq(AlertsOf(m))
        /\ ba # <<>> /\ Head(ba) \in AddedOf({t})
    BY <1>1, <1>4
  <2>2. Count(io, AddsOf({t})) \in Nat /\ Count(al, AddedOf({t})) \in Nat
    BY <2>1, PlacesFinite
  <2>3. /\ Tail(ba) \in Seq(AlertsOf(m))
        /\ Count(ba, AddedOf({t})) = Count(Tail(ba), AddedOf({t})) + 1
    BY <2>1, CountTailLess
  <2>4. Count(Tail(ba), AddedOf({t})) \in Nat
    BY <2>3, PlacesFinite
  <2>5. (IF \E e \in es : e.tag = t THEN 1 ELSE 0) \in {0, 1}
    OBVIOUS
  <2>6. QED
    BY <2>2, <2>3, <2>4, <2>5
<1>6. PICK k \in Nat : k = asked[t] /\ k <= 1
  BY OInvIs
<1>7. x + y + (w + 1) + d <= k
  <2>1. Used(io, al, ba, es, t) <= k
    BY <1>1, <1>6 DEF OInv
  <2>2. QED
    BY <1>5, <2>1 DEF Used
<1>8. d = 0
  BY <1>6, <1>7
<1>9. QED
  BY <1>1, <1>3, <1>5, <1>8

\* a new entry takes the place of the alert that told of it
LEMMA EntryForNews ==
  ASSUME NEW m \in Nat, NEW io \in Seq(HandlersOf(m)), NEW al \in Seq(AlertsOf(m)),
         NEW ba \in Seq(AlertsOf(m)), ba # <<>>, NEW es, NEW fs, NEW t \in Tags, NEW k \in Nat,
         Used(io, al, ba, es, t) <= k
  PROVE  /\ (\A e \in fs : e.tag = t => e \in es) => Used(io, al, Tail(ba), fs, t) <= k
         /\ Head(ba).kind = "added" /\ Head(ba).tag = t => Used(io, al, Tail(ba), fs, t) <= k
<1>1. Tail(ba) \in Seq(AlertsOf(m))
  BY CountTailLess
<1>2. ASSUME \A e \in fs : e.tag = t => e \in es
      PROVE  Used(io, al, Tail(ba), fs, t) <= k
  <2>1. /\ Count(Tail(ba), AddedOf({t})) <= Count(ba, AddedOf({t}))
    BY CountTailLess
  <2>2. PICK x \in Nat, y \in Nat : x = Count(io, AddsOf({t})) /\ y = Count(al, AddedOf({t}))
    BY PlacesFinite
  <2>3. Count(io, AddsOf({t})) <= Count(io, AddsOf({t}))
    BY <2>2
  <2>4. Count(al, AddedOf({t})) <= Count(al, AddedOf({t}))
    BY <2>2
  <2>5. (\E e \in fs : e.tag = t) => \E e \in es : e.tag = t
    BY <1>2
  <2>6. QED
    BY <1>1, <2>1, <2>3, <2>4, <2>5, UsedLess
<1>3. ASSUME Head(ba).kind = "added", Head(ba).tag = t
      PROVE  Used(io, al, Tail(ba), fs, t) <= k
  <2>1. Head(ba) \in AddedOf({t})
    <3>1. Head(ba) \in AlertsOf(m)
      BY HeadTailProperties
    <3>2. QED
      BY <1>3, <3>1, TagIs
  <2>2. Count(ba, AddedOf({t})) = Count(Tail(ba), AddedOf({t})) + 1
    BY <2>1, CountTailLess
  <2>3. PICK x \in Nat, y \in Nat, w \in Nat :
          /\ x = Count(io, AddsOf({t})) /\ y = Count(al, AddedOf({t}))
          /\ w = Count(Tail(ba), AddedOf({t}))
    BY <1>1, PlacesFinite
  <2>4. PICK d \in {0, 1}, v \in {0, 1} :
          /\ d = (IF \E e \in es : e.tag = t THEN 1 ELSE 0)
          /\ v = (IF \E e \in fs : e.tag = t THEN 1 ELSE 0)
    OBVIOUS
  <2>5. x + y + (w + 1) + d <= k
    BY <2>2, <2>3, <2>4 DEF Used
  <2>6. x + y + w + v <= k
    BY <2>5
  <2>7. QED
    BY <2>3, <2>4, <2>6 DEF Used
<1>4. QED
  BY <1>2, <1>3

LEMMA HandleAddedListed ==
  ASSUME OInv, IInv', MaxAdds = 1, HandleAdded
  PROVE  OInv'
<1>1. /\ UNCHANGED inside /\ alerts' = alerts /\ asked' = asked /\ ioq' = ioq
      /\ phase = "updating" /\ phase' = "updating"
      /\ batch # <<>> /\ Head(batch).kind = "added" /\ batch' = Tail(batch)
  BY DEF HandleAdded, Handles, bounds
<1>2. PICK m, io, al, ba, es, a :
        /\ m = made /\ io = ioq /\ al = alerts /\ ba = batch /\ es = torrents_ /\ a = Head(ba)
        /\ m \in Nat /\ io \in Seq(HandlersOf(m)) /\ al \in Seq(AlertsOf(m))
        /\ ba \in Seq(AlertsOf(m))
  BY OInvIs
<1>3. a.tag \in Tags /\ a.kind = "added" /\ ~\E e \in torrents_ : e.tag = a.tag
  BY <1>1, <1>2, NewsIsFirst
<1>4. torrent_tags_ \in [Tags -> Tags \cup {None}]
  BY OInvIs DEF MapsOK
<1>5. \/ /\ \E b, c : torrents_' = torrents_ \cup
                        {[tag |-> a.tag, obj |-> a.obj, auto |-> b, paused |-> c]}
         /\ torrent_tags_' = [torrent_tags_ EXCEPT ![a.tag] = a.tag]
      \/ \E e \in torrents_ :
            /\ SameHandle(e.obj, a.obj) /\ torrents_' = torrents_
            /\ torrent_tags_' = [torrent_tags_ EXCEPT ![a.tag] = e.tag]
  <2>1. PICK known \in Lookups(torrents_, a.obj) :
          IF EntryOf(a.tag) = {} /\ known = None
            THEN /\ torrents_' = torrents_ \cup
                      {[tag |-> a.tag, obj |-> a.obj,
                        auto   |-> Live(a.obj) /\ torrent[a.obj].auto,
                        paused |-> Live(a.obj) /\ Paused(a.obj)]}
                 /\ torrent_tags_' = [torrent_tags_ EXCEPT ![a.tag] = a.tag]
            ELSE /\ torrents_' = torrents_
                 /\ known # None =>
                      torrent_tags_' = [torrent_tags_ EXCEPT ![a.tag] = known.tag]
    BY <1>2 DEF HandleAdded
  <2>2. EntryOf(a.tag) = {}
    BY <1>3 DEF EntryOf
  <2>3. CASE known = None
    BY <2>1, <2>2, <2>3
  <2>4. CASE known # None
    <3>1. known \in torrents_ /\ SameHandle(known.obj, a.obj)
      BY <2>4 DEF Lookups
    <3>2. QED
      BY <2>1, <2>4, <3>1
  <2>5. QED
    BY <2>3, <2>4
<1>6. \A e \in torrents_' : e.tag = a.tag \/ e \in torrents_
  BY <1>5
<1>7. ASSUME NEW t \in Tags
      PROVE  Used(ioq', alerts', batch', torrents_', t) <= asked'[t]
  <2>1. PICK k, fs : k \in Nat /\ k = asked[t] /\ fs = torrents_'
    BY OInvIs, MaxAddsAssumption
  <2>2. Used(io, al, ba, es, t) <= k
    BY <1>2, <2>1 DEF OInv
  <2>3. /\ m \in Nat /\ io \in Seq(HandlersOf(m)) /\ al \in Seq(AlertsOf(m))
        /\ ba \in Seq(AlertsOf(m)) /\ ba # <<>>
    BY <1>1, <1>2
  <2>4. \/ \A e \in fs : e.tag = t => e \in es
        \/ Head(ba).kind = "added" /\ Head(ba).tag = t
    <3>1. \A e \in fs : e.tag = a.tag \/ e \in es
      BY <1>2, <1>6, <2>1
    <3>2. Head(ba).kind = "added" /\ Head(ba).tag = a.tag
      BY <1>2, <1>3
    <3>3. QED
      BY <3>1, <3>2
  <2>5. Used(io, al, Tail(ba), fs, t) <= k
    <3>1. k \in Nat
      BY <2>1
    <3>2. QED
      BY <2>2, <2>3, <2>4, <3>1, EntryForNews
  <2>6. QED
    BY <1>1, <1>2, <2>1, <2>5
<1>8. ASSUME NEW e \in torrents_'
      PROVE  torrent_tags_'[e.tag] = e.tag
  <2>1. CASE e \in torrents_
    <3>1. torrent_tags_[e.tag] = e.tag /\ e.tag # a.tag
      BY <1>3, <2>1 DEF OInv
    <3>2. PICK v : torrent_tags_' = [torrent_tags_ EXCEPT ![a.tag] = v]
      BY <1>5
    <3>3. QED
      BY <1>4, <3>1, <3>2
  <2>2. CASE e \notin torrents_
    <3>1. e.tag = a.tag /\ torrent_tags_' = [torrent_tags_ EXCEPT ![a.tag] = a.tag]
      BY <1>5, <1>6, <2>2
    <3>2. QED
      BY <1>3, <1>4, <3>1
  <2>3. QED
    BY <2>1, <2>2
<1>9. \A e, f \in torrents_' : e.tag = f.tag => e = f
  <2>1. \A e, f \in torrents_ : e.tag = f.tag => e = f
    BY DEF OInv
  <2>2. QED
    BY <1>3, <1>5, <2>1
<1>10. ASSUME NEW o \in Listed'
       PROVE  Covered(o)'
  <2>1. Covered(o) /\ Live(o)
    BY <1>1, ListedStays DEF OInv, Shut, Listed, Live
  <2>2. torrents_ \subseteq torrents_'
    BY <1>5
  <2>3. CASE \E e \in torrents_ : e.obj = o
    BY <2>2, <2>3 DEF Covered
  <2>4. CASE a.obj = o
    <3>1. \A p : SameHandle(p, a.obj) => p = o
      BY <2>1, <2>4 DEF SameHandle
    <3>2. CASE \E b, c : torrents_' = torrents_ \cup
                         {[tag |-> a.tag, obj |-> a.obj, auto |-> b, paused |-> c]}
      <4>1. PICK r : r.obj = a.obj /\ r \in torrents_'
        BY <3>2
      <4>2. QED
        BY <2>4, <4>1 DEF Covered
    <3>3. CASE \E e \in torrents_ : SameHandle(e.obj, a.obj) /\ torrents_' = torrents_
      <4>1. PICK e \in torrents_ : SameHandle(e.obj, a.obj)
        BY <3>3
      <4>2. e \in torrents_' /\ e.obj = o
        BY <2>2, <3>1, <4>1
      <4>3. QED
        BY <4>2 DEF Covered
    <3>4. QED
      BY <1>5, <3>2, <3>3
  <2>5. CASE \E b \in ToSet(alerts) \cup ToSet(batch) :
               b.kind = "added" /\ b.obj = o /\ b # a
    <3>1. ToSet(ba) = {a} \cup ToSet(Tail(ba))
      <4>1. ba \in Seq(AlertsOf(m)) /\ ba # <<>>
        BY <1>1, <1>2
      <4>2. ToSet(ba) = {Head(ba)} \cup ToSet(Tail(ba))
        BY <4>1, SetOfTail
      <4>3. QED
        BY <1>2, <4>2
    <3>2. \E b \in ToSet(alerts') \cup ToSet(batch') : b.kind = "added" /\ b.obj = o
      BY <1>1, <1>2, <2>5, <3>1
    <3>3. QED
      BY <3>2 DEF Covered
  <2>6. CASE \E h \in ToSet(ioq) : h.op = "remove" /\ h.obj = o
    BY <1>1, <2>6 DEF Covered
  <2>7. QED
    BY <2>1, <2>3, <2>4, <2>5, <2>6 DEF Covered
<1>11. QED
  BY <1>1, <1>7, <1>8, <1>9, <1>10 DEF OInv

LEMMA TakeFileListed ==
  ASSUME OInv, IInv', (\E f \in Monitored : TakeFile(f)) \/ UNCHANGED vars
  PROVE  OInv'
<1>1. /\ UNCHANGED inside /\ torrents_' = torrents_ /\ torrent_tags_' = torrent_tags_
      /\ batch' = batch /\ ioq' = ioq /\ alerts' = alerts /\ asked' = asked /\ phase' = phase
  BY DEF TakeFile, vars, appVars, engineVars, inside, maps, bounds
<1>2. phase' # "updating" => batch' = <<>>
  BY <1>1 DEF OInv
<1>3. QED
  BY <1>1, <1>2, AppCalm

LEMMA NextListed ==
  ASSUME OInv, MaxAdds = 1, [Next]_vars
  PROVE  OInv'
<1>1. IInv'
  BY NextKeeps DEF OInv
<1>2. CASE User
  BY <1>1, <1>2, AddAsked, DelListed, PauseOrResumeListed, UpdateListed, CloseListed, Zenon DEF User
<1>3. CASE Application
  <2>1. CASE HandleAdded
    BY <1>1, <2>1, HandleAddedListed
  <2>2. CASE HandleMetadata \/ HandleAskForResumeData \/ HandleResumeData
    BY <1>1, <2>2, HandlesNoNews
  <2>3. CASE HandleStateUpdate
    BY <1>1, <2>3, StateUpdateListed
  <2>4. CASE EndUpdate \/ ScanEnds \/ CloseEnds
    BY <1>1, <2>4, EndsListed
  <2>5. CASE ScanAdds
    BY <1>1, <2>5, ScanAddsListed
  <2>6. CASE ScanPauses \/ ScanSaves
    BY <1>1, <2>6, ScanListed
  <2>7. CASE CloseAsks
    BY <1>1, <2>7, CloseAsksListed
  <2>8. CASE CloseWaits
    BY <1>1, <2>8, CloseWaitsListed
  <2>9. QED
    BY <1>3, <2>1, <2>2, <2>3, <2>4, <2>5, <2>6, <2>7, <2>8, Zenon DEF Application
<1>4. CASE Engine
  BY <1>1, <1>4, EngineListed
<1>5. CASE (\E f \in Monitored : TakeFile(f)) \/ UNCHANGED vars
  BY <1>1, <1>5, TakeFileListed
<1>6. QED
  BY <1>2, <1>3, <1>4, <1>5 DEF Next

LEMMA ListedInit ==
  ASSUME Init
  PROVE  OInv
<1>1. IInv
  BY InitOK
<1>2. /\ made = 0 /\ ioq = <<>> /\ alerts = <<>> /\ batch = <<>> /\ torrents_ = {}
      /\ phase = "idle" /\ asked = [t \in Tags |-> 0]
  BY DEF Init, EngineInit
<1>3. Listed = {}
  BY <1>2 DEF Listed, Created
<1>4. ASSUME NEW t \in Tags
      PROVE  Used(ioq, alerts, batch, torrents_, t) <= asked[t]
  <2>1. /\ Count(ioq, AddsOf({t})) = 0 /\ Count(alerts, AddedOf({t})) = 0
        /\ Count(batch, AddedOf({t})) = 0
    BY <1>2, CountEmpty
  <2>2. Used(ioq, alerts, batch, torrents_, t) = 0 + 0 + 0 + 0
    BY <1>2, <2>1 DEF Used
  <2>3. QED
    BY <1>2, <2>2
<1>5. QED
  BY <1>1, <1>2, <1>3, <1>4 DEF OInv

\* add() and handle_alert(): when the application adds each tag once, a torrent that
\* runs in the session can be reached by a tag, or is about to be, or is about to go.
\* A tag added twice may leave the second torrent without an entry, as the tag still
\* has one (session_impl.cpp:943).
THEOREM AllReachable ==
  ASSUME MaxAdds = 1
  PROVE  Spec => []NoOrphan
<1>1. Init => OInv
  BY ListedInit
<1>2. OInv /\ [Next]_vars => OInv'
  BY NextListed
<1>3. OInv => NoOrphan
  <2>1. ASSUME OInv, NEW o \in Listed, phase \in {"idle", "updating"}
        PROVE  /\ Covered(o)
               /\ \A e \in torrents_ : torrent_tags_[e.tag] = e.tag
    BY <2>1 DEF OInv, Shut
  <2>2. QED
    BY <2>1 DEF NoOrphan, Covered
<1>4. QED
  BY <1>1, <1>2, <1>3, PTL DEF Spec
=============================================================================
