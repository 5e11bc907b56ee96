--------------------------- MODULE TrackerAnnounce ---------------------------
(***************************************************************************)
(* A torrent and its trackers: announce_with_tracker() picks the trackers to  *)
(* ask from a list in tiers, the answers reorder the list and set the times    *)
(* of the next announces, and update_tracker_timer() arms the one timer that   *)
(* wakes the torrent for the earliest of them.  The user pauses and resumes,   *)
(* the auto-manager starts, pauses and denies the torrent its turn with the     *)
(* trackers, peers and the user add trackers, and all of it may happen while    *)
(* requests are out and while the timer's handler is posted.                 *)
(*                                                                         *)
(* Times are relative: next and min count down to 0, which is "now or          *)
(* earlier".  The settings announce_to_all_trackers and announce_to_all_tiers   *)
(* are off, as they are by default.                                         *)
(***************************************************************************)
EXTENDS Integers, Sequences, FiniteSets, SequencesExt

CONSTANTS
    Trackers,       \* the trackers' urls
    Own,            \* those of the torrent itself, in the order of their tiers; without
                    \* any, nothing is announced
    Tier,           \* their tiers
    Tiers,          \* the tiers others may be added to
    FailLimit,      \* their fail_limit, 0 for none
    FailWrap,       \* values the bit-field `fails` has (128)
    Intervals,      \* what trackers answer: seconds to the next announce
    Delays,         \* a failure's delay: the back-off, or what the tracker asked for
    MinIntervals,   \* and at the least
    Retry,          \* when a tracker that was asked is due again (20 seconds)
    MinRetry,       \* and the earliest (10 seconds)
    MaxCalls        \* bound: calls of the user and the auto-manager

ASSUME OwnAssumption ==
    /\ Own \in Seq(Trackers) \ {<<>>} /\ IsInjective(Own)
    /\ Tiers \subseteq Nat /\ Tier \in [Trackers -> Nat]
    /\ \A i, j \in DOMAIN Own : i < j => Tier[Own[i]] <= Tier[Own[j]]
ASSUME FailAssumption == FailLimit \in [Trackers -> Nat] /\ FailWrap \in Nat \ {0}
ASSUME TimesAssumption ==
    /\ Intervals \subseteq Nat \ {0} /\ Delays \subseteq Nat \ {0}
    /\ MinIntervals \subseteq Nat
    /\ Retry \in Nat \ {0} /\ MinRetry \in Nat /\ MaxCalls \in Nat

Events == {"none", "started", "completed", "stopped", "paused"}
Past == -1          \* an expiry before now
Never == -2         \* max_time()
NoTracker == 0      \* m_last_working_tracker is -1

VARIABLES
    order,          \* m_trackers
    entry,          \* what m_trackers holds of each tracker
    lastWorking,    \* m_last_working_tracker, from 1
    requests,       \* the events of the requests out to each tracker
    allowPeers,     \* m_allow_peers
    graceful,       \* m_graceful_pause_mode
    announceTo,     \* m_announce_to_trackers
    announcing,     \* m_announcing
    checked,        \* m_files_checked
    progress,       \* "downloading", "finished" (without some files) or "seeding"
    aborted,        \* m_abort
    expires,        \* m_tracker_timer.expires_at()
    pending,        \* a wait on m_tracker_timer is pending
    posted,         \* on_tracker_announce_disp is posted, so many times
    calls,          \* calls of the user and the auto-manager so far
    missed,         \* the torrent returned from announcing without arming the timer
    worked,         \* the tracker that answered last
    slipped         \* a tracker was inserted where m_last_working_tracker points

list == <<order, entry, lastWorking, worked, slipped>>
switches == <<allowPeers, graceful, announceTo, announcing, checked, progress, aborted>>
timer == <<expires, pending, posted>>
vars == <<list, requests, switches, timer, calls, missed>>

Paused == ~allowPeers \/ graceful
Due == pending /\ expires \in {0, Past}

Listed == ToSet(order)
Index(s, t) == CHOOSE i \in DOMAIN s : s[i] = t
Before(s, t) == {s[i] : i \in 1..(Index(s, t) - 1)}

Fresh(tier) == [tier |-> tier, next |-> 0, min |-> 0, fails |-> 0, updating |-> FALSE,
                startSent |-> FALSE, completeSent |-> FALSE]

Init ==
    /\ order = Own /\ entry = [t \in Trackers |-> Fresh(Tier[t])]
    /\ lastWorking = NoTracker /\ worked = NoTracker /\ slipped = FALSE
    /\ requests = [t \in Trackers |-> <<>>]
    /\ allowPeers \in BOOLEAN /\ graceful = FALSE /\ announceTo = allowPeers
    /\ announcing = FALSE /\ checked = FALSE /\ progress = "downloading" /\ aborted = FALSE
    /\ expires = Past /\ pending = FALSE /\ posted = 0
    /\ calls = 0 /\ missed = FALSE

----------------------------------------------------------------------------
\* announce_entry's predicates, of the entry of tracker t
Working(x) == x.fails = 0
Dead(t, x) == FailLimit[t] # 0 /\ x.fails >= FailLimit[t]
CanAnnounce(t, x) ==
    /\ x.next = 0
    /\ x.min = 0 \/ (progress' = "seeding" /\ ~x.completeSent)
    /\ ~Dead(t, x)
    /\ ~x.updating

\* Whom announce_with_tracker() asks, going through the list es of the order s: those that
\* are due, up to the first working one.  One that works but is not due stops it at the end
\* of its tier.
Asked(s, es) ==
    {t \in ToSet(s) :
        /\ CanAnnounce(t, es[t])
        /\ \A u \in Before(s, t) :
             Working(es[u]) => es[u].tier = es[t].tier /\ ~CanAnnounce(u, es[u])}

\* the event the torrent announces when it is to announce e, and what a tracker is told
Event(e) ==
    IF aborted' THEN "stopped"
    ELSE IF e = "none" /\ progress' = "finished" THEN "paused"
    ELSE e
EventFor(x, e) ==
    IF e = "none" /\ ~x.startSent THEN "started"
    ELSE IF e = "none" /\ ~x.completeSent /\ progress' = "seeding" THEN "completed"
    ELSE e

\* Whom update_tracker_timer() waits for: the failing ones up to the first that works or is
\* being asked
Awaited(s, es) ==
    {t \in ToSet(s) :
        /\ ~Dead(t, es[t]) /\ ~es[t].updating
        /\ \A u \in Before(s, t) :
             ~Working(es[u]) /\ (Dead(u, es[u]) \/ ~es[u].updating)}

NextAnnounce(s, es) ==
    LET times == {Max({es[t].next, es[t].min}) : t \in Awaited(s, es)}
    IN  IF times = {} THEN Never ELSE Min(times)

\* update_tracker_timer(): the timer is set again unless it has that time already
InUse(time) == expires = time \/ pending         \* mutant of SameTime
SameTime(time) == expires = time
SetTimer ==
    /\ expires' = NextAnnounce(order', entry')
    /\ pending' = TRUE
    /\ missed' = FALSE
UpdateTimer ==
    IF ~announcing' \/ SameTime(NextAnnounce(order', entry'))
      THEN UNCHANGED <<expires, pending, missed>>
      ELSE SetTimer

\* announce_with_tracker(e), when the list is es and the requests rs; it may return early
Returns(e) == e # "stopped" /\ ~announceTo'
Requests(es, rs, e) ==
    IF Returns(Event(e))
      THEN entry' = es /\ requests' = rs
      ELSE LET asked == Asked(order', es)
           IN  /\ entry' = [t \in Trackers |->
                     IF t \in asked
                       THEN [es[t] EXCEPT !.updating = TRUE, !.next = Retry, !.min = MinRetry]
                       ELSE es[t]]
               /\ requests' = [t \in Trackers |->
                     IF t \in asked THEN Append(rs[t], EventFor(es[t], Event(e))) ELSE rs[t]]
AnnounceWithTracker(es, e) ==
    /\ Requests(es, requests, e)
    /\ IF Returns(Event(e))
         THEN missed' = (missed \/ announcing') /\ UNCHANGED <<expires, pending>>
         ELSE UpdateTimer

\* the entries es, those of the list replaced by new ones
OnListed(es, new) == [t \in Trackers |-> IF t \in Listed THEN new[t] ELSE es[t]]
DueNow(x) == [x EXCEPT !.next = 0, !.min = 0]

\* start_announcing() and stop_announcing()
Reset(x) == [DueNow(x) EXCEPT !.startSent = FALSE]
StartAnnouncing(es) ==
    IF Paused' \/ ~checked' \/ announcing
      THEN entry' = es /\ UNCHANGED <<announcing, requests, expires, pending, missed>>
      ELSE /\ announcing' = TRUE
           /\ AnnounceWithTracker(OnListed(es, [t \in Trackers |-> Reset(es[t])]), "none")

StopAnnouncing ==
    IF ~announcing
      THEN UNCHANGED <<announcing, entry, requests, expires, pending, missed>>
      ELSE /\ announcing' = FALSE
           /\ Requests(OnListed(entry, [t \in Trackers |-> DueNow(entry[t])]), requests, "stopped")
           /\ pending' = FALSE
           /\ UNCHANGED <<expires, missed>>

----------------------------------------------------------------------------
\* The list, in tiers: a tracker that answered goes to the front of its tier, one that
\* failed to its end, and m_last_working_tracker goes along.
Tiermates(t) == {i \in DOMAIN order : entry[order[i]].tier = entry[t].tier}
Move(t, place) == order' = InsertAt(RemoveAt(order, Index(order, t)), place, t)

Unshifted(i, end) == lastWorking                \* mutant of Shifted
Shifted(i, end) ==
    IF lastWorking = i THEN end
    ELSE IF lastWorking \in (i + 1)..end THEN lastWorking - 1
    ELSE lastWorking

Deprioritize(t) ==
    /\ Move(t, Max(Tiermates(t)))
    /\ lastWorking' = Shifted(Index(order, t), Max(Tiermates(t)))

\* add_tracker(): at the end of its tier
AtTheEnd(tier) == Len(order) + 1                \* mutant of Place
Place(tier) == 1 + Cardinality({i \in DOMAIN order : entry[order[i]].tier <= tier})
AddTracker(t) ==
    /\ t \notin Listed
    /\ UNCHANGED <<switches, posted, calls, worked>>
    /\ \E tier \in Tiers :
         /\ order' = InsertAt(order, Place(tier), t)
         /\ lastWorking' = IF Place(tier) < lastWorking THEN lastWorking + 1 ELSE lastWorking
         /\ slipped' = (slipped \/ Place(tier) = lastWorking)
         /\ AnnounceWithTracker([entry EXCEPT ![t] = Fresh(tier)], "none")

----------------------------------------------------------------------------
\* tracker_response() to the i-th request out to t.  When the tracker has an address of the
\* other kind too, the torrent announces once more, with the same event.
Response(t, i) ==
    LET e == requests[t][i]
        rs == [requests EXCEPT ![t] = RemoveAt(@, i)]
    IN  /\ UNCHANGED <<switches, posted, calls>>
        /\ Move(t, Min(Tiermates(t)))
        /\ lastWorking' = Min(Tiermates(t)) /\ worked' = t /\ slipped' = FALSE
        /\ \E interval \in Intervals, min \in MinIntervals, again \in BOOLEAN :
             LET es == [entry EXCEPT ![t] =
                          [tier |-> @.tier, next |-> interval, min |-> min, fails |-> 0,
                           updating |-> FALSE,
                           startSent |-> @.startSent \/ e = "started",
                           completeSent |-> @.completeSent \/ e = "completed"]]
             IN  /\ IF again /\ e # "stopped" THEN Requests(es, rs, e)
                    ELSE entry' = es /\ requests' = rs
                 /\ IF announcing /\ ~SameTime(NextAnnounce(order', es)) THEN SetTimer
                    ELSE UpdateTimer

\* tracker_request_error(): the torrent turns to the others, with the same event
StillUpdating(x) == x.updating                  \* mutant of NotUpdating
NotUpdating(x) == FALSE
Forgiven(x) == x.fails                          \* mutant of OneMore
OneMore(x) == (x.fails + 1) % FailWrap
Error(t, i) ==
    LET e == requests[t][i]
        rs == [requests EXCEPT ![t] = RemoveAt(@, i)]
    IN  /\ UNCHANGED <<switches, posted, calls, worked, slipped>>
        /\ Deprioritize(t)
        /\ \E delay \in Delays :
             LET es == [entry EXCEPT ![t].fails = OneMore(entry[t]),
                                     ![t].next = delay,
                                     ![t].updating = NotUpdating(entry[t])]
             IN  IF (~aborted /\ ~Paused) \/ e = "stopped" THEN Requests(es, rs, e)
                 ELSE entry' = es /\ requests' = rs
        /\ UpdateTimer

----------------------------------------------------------------------------
\* The timer.  Its handler, once posted, runs whatever was cancelled meanwhile, and before
\* any time passes.
Expire ==
    /\ Due
    /\ pending' = FALSE /\ posted' = posted + 1
    /\ UNCHANGED <<list, requests, switches, expires, calls, missed>>

OnTrackerAnnounce ==
    /\ posted > 0
    /\ posted' = posted - 1
    /\ UNCHANGED <<switches, order, lastWorking, worked, slipped, calls>>
    /\ IF aborted THEN UNCHANGED <<entry, requests, expires, pending, missed>>
       ELSE AnnounceWithTracker(entry, "none")

Less(time) == IF time > 0 THEN time - 1 ELSE time
Tick ==
    /\ posted = 0
    /\ entry' = [t \in Trackers |-> [entry[t] EXCEPT !.next = Less(@), !.min = Less(@)]]
    /\ expires' = IF expires = 0 THEN Past ELSE Less(expires)
    /\ UNCHANGED <<order, lastWorking, worked, slipped, requests, switches, pending, posted,
                   calls, missed>>

----------------------------------------------------------------------------
\* The user and the auto-manager.  pause() and resume() of a torrent_handle:
Calm == UNCHANGED <<order, lastWorking, worked, slipped, posted>>

Pause ==
    /\ allowPeers /\ ~aborted
    /\ allowPeers' = FALSE /\ announceTo' = FALSE /\ graceful' = FALSE
    /\ UNCHANGED <<checked, progress, aborted>> /\ Calm
    /\ StopAnnouncing

Resume ==
    /\ ~(allowPeers /\ announceTo) /\ ~aborted
    /\ allowPeers' = TRUE /\ announceTo' = TRUE /\ graceful' = FALSE
    /\ UNCHANGED <<checked, progress, aborted>> /\ Calm
    /\ StartAnnouncing(entry)

\* auto_manage_torrents() gives the torrent its turn with the trackers, or not, and then
\* leaves it running, starts it or pauses it.
AutoManage ==
    /\ checked /\ ~aborted
    /\ UNCHANGED <<checked, progress, aborted>> /\ Calm
    /\ \E turn \in BOOLEAN :
         \/ /\ ~Paused \/ (~allowPeers /\ graceful)
            /\ announceTo' = turn
            /\ UNCHANGED <<allowPeers, graceful, announcing, entry, requests, expires, pending,
                           missed>>
         \/ /\ Paused
            /\ announceTo' = turn /\ allowPeers' = TRUE /\ graceful' = FALSE
            /\ StartAnnouncing(entry)
         \/ /\ allowPeers \/ ~graceful
            /\ allowPeers' = FALSE /\ graceful' = TRUE /\ announceTo' = FALSE
            /\ StopAnnouncing

\* files_checked(): a torrent that is complete has nothing to tell of its completion
FilesChecked ==
    /\ ~checked /\ ~aborted
    /\ checked' = TRUE
    /\ progress' \in {"downloading", "finished", "seeding"}
    /\ UNCHANGED <<allowPeers, graceful, announceTo, aborted, calls>> /\ Calm
    /\ StartAnnouncing(IF progress' = "seeding"
                         THEN OnListed(entry, [t \in Trackers |->
                                [entry[t] EXCEPT !.completeSent = TRUE]])
                         ELSE entry)

\* finished() of a torrent with all its files, and completed(), or with some
Finished ==
    /\ checked /\ ~aborted /\ progress = "downloading"
    /\ UNCHANGED <<allowPeers, graceful, announceTo, announcing, checked, aborted>> /\ Calm
    /\ \/ /\ progress' = "finished" \/ (~announcing /\ progress' = "seeding")
          /\ UNCHANGED <<entry, requests, expires, pending, missed>>
       \/ /\ announcing /\ progress' = "seeding"
          /\ AnnounceWithTracker(
               OnListed(entry, [t \in Trackers |->
                 IF entry[t].completeSent THEN entry[t] ELSE DueNow(entry[t])]), "none")

ForceTrackerRequest ==
    /\ ~Paused /\ ~aborted
    /\ UNCHANGED <<switches, requests, order, lastWorking, worked, slipped, posted>>
    /\ entry' = OnListed(entry, [t \in Trackers |->
                  [entry[t] EXCEPT !.next = entry[t].min + 1]])
    /\ UpdateTimer

Abort ==
    /\ ~aborted
    /\ aborted' = TRUE
    /\ UNCHANGED <<allowPeers, graceful, announceTo, checked, progress>> /\ Calm
    /\ IF Paused THEN UNCHANGED <<announcing, entry, requests, expires, pending, missed>>
       ELSE StopAnnouncing

Answers(t) == \E i \in DOMAIN requests[t] : Response(t, i) \/ Error(t, i)
Calls ==
    /\ calls < MaxCalls /\ calls' = calls + 1
    /\ \/ Pause \/ Resume \/ AutoManage \/ Finished
       \/ ForceTrackerRequest \/ Abort

Next ==
    \/ Expire \/ OnTrackerAnnounce \/ Tick \/ FilesChecked \/ Calls
    \/ \E t \in Trackers : AddTracker(t) \/ Answers(t)

Spec == Init /\ [][Next]_vars

\* The timer fires, posted handlers run, time passes, and a request is answered or times out.
Fairness ==
    /\ WF_vars(Expire) /\ WF_vars(OnTrackerAnnounce) /\ WF_vars(Tick)
    /\ \A t \in Trackers : WF_vars(Answers(t))
FairSpec == Spec /\ Fairness

----------------------------------------------------------------------------
Live(t) == t \in Listed /\ ~Dead(t, entry[t])

(* Type correctness; the list holds a tracker once and is sorted by tiers, which the loops *)
(* of announce_with_tracker() and update_tracker_timer() take for granted, and              *)
(* m_last_working_tracker is an index of it.                                              *)
TypeOK ==
    /\ order \in Seq(Trackers) /\ IsInjective(order)
    /\ \A i, j \in DOMAIN order : i < j => entry[order[i]].tier <= entry[order[j]].tier
    /\ entry \in [Trackers -> [tier : Nat, next : Nat, min : Nat, fails : 0..(FailWrap - 1),
                               updating : BOOLEAN, startSent : BOOLEAN,
                               completeSent : BOOLEAN]]
    /\ lastWorking \in 0..Len(order) /\ worked \in Trackers \union {NoTracker}
    /\ requests \in [Trackers -> Seq(Events)]
    /\ allowPeers \in BOOLEAN /\ graceful \in BOOLEAN /\ announceTo \in BOOLEAN
    /\ announcing \in BOOLEAN /\ checked \in BOOLEAN /\ aborted \in BOOLEAN
    /\ progress \in {"downloading", "finished", "seeding"}
    /\ expires \in {Past, Never} \union Nat /\ pending \in BOOLEAN /\ posted \in Nat
    /\ calls \in 0..MaxCalls /\ missed \in BOOLEAN /\ slipped \in BOOLEAN

(* A tracker is marked as updating exactly while one request to it is out, and never has two, *)
(* however starts, stops, time-outs and failures of others overlap: a mark left behind would  *)
(* keep the tracker from being asked ever again, a mark lost would have it asked twice.       *)
UpdatingExact ==
    \A t \in Trackers : Len(requests[t]) = IF entry[t].updating THEN 1 ELSE 0

(* m_last_working_tracker, "the index to the last tracker that worked", follows that tracker *)
(* through every reordering of the list, except when add_tracker() inserts another right      *)
(* in front of it, which torrent.cpp:4213 does not count.                                  *)
LastWorkingNamed == lastWorking # NoTracker => order[lastWorking] = worked \/ slipped

(* No wake-up is lost: a torrent that announces, and has a tracker it has not given up, waits *)
(* for an answer or for a timer that will fire.  The exception is the torrent that was denied *)
(* its turn with the trackers when the timer fired or when it started: it returned without    *)
(* arming the timer, and getting the turn back does not wake it.                            *)
Awake ==
    announcing /\ ~missed /\ (\E t \in Trackers : Live(t))
      => \/ posted > 0
         \/ pending /\ expires # Never
         \/ \E t \in Trackers : requests[t] # <<>>

(* No tracker starves: as long as the torrent announces, each tracker it has not given up is *)
(* asked again and again, unless one of them keeps answering.                              *)
Steady(t) == Live(t) /\ announcing /\ announceTo /\ ~missed
Failover ==
    \A t \in Trackers :
       \/ []<>~Steady(t)
       \/ []<>(requests[t] # <<>>)
       \/ []<><<\E u \in Trackers : \E i \in DOMAIN requests[u] : Response(u, i)>>_vars
=============================================================================
