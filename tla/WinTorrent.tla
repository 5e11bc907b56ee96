---------------------------- MODULE WinTorrent ----------------------------
(***************************************************************************)
(* TorrentSessionImpl, the class behind the DLL: names ("tags") for torrents *)
(* on top of libtorrent's session (TorrentEngine).  The application calls    *)
(* add, del, pause and resume with a tag and update() again and again;       *)
(* update() pops the session's alerts and keeps torrents_, files_,           *)
(* non_files_ and torrent_tags_ in step with them, and counts the resume     *)
(* data it has asked for, which the destructor waits for.                   *)
(*                                                                         *)
(* One application thread.  Its asynchronous calls are one step; between two *)
(* alerts of a batch, and before a call that waits for the network thread    *)
(* (`Synced`), the engine runs.                                             *)
(***************************************************************************)
EXTENDS TorrentEngine

CONSTANTS
    MaxCalls,       \* bound on calls of del, pause and resume
    MaxScans,       \* bound on directory scans
    Monitored       \* .torrent files that may be put in monitor_dir_; {}: no such directory

ASSUME MonitoredAssumption == Monitored \subseteq FileTags

VARIABLES
    torrents_,      \* records [tag, obj, auto, paused]: the last two cached in status_
    files_,         \* records [key, path, obj]
    non_files_,     \* torrents that came from a link
    torrent_tags_,  \* torrent_tags_[tag]: the tag its torrent is known by, or None
    outstanding,    \* num_outstanding_resume_data_
    batch,          \* popped alerts update() has still to handle
    phase,          \* where the application thread is
    scan,           \* files of `valid` scan_dir() has still to visit, in order
    dir,            \* the .torrent files in monitor_dir_
    fault,          \* "none", or why the application thread is lost
    asked,          \* asked[tag]: how often tag has been added
    calls, scans,   \* del, pause and resume calls, and scans, so far
    wish            \* wish[o]: what the application last asked of o

maps    == <<torrents_, files_, non_files_, torrent_tags_>>
bounds  == <<asked, calls, scans>>
appVars == <<maps, outstanding, batch, phase, scan, dir, fault, bounds, wish>>
vars    == <<engineVars, appVars>>

----------------------------------------------------------------------------

\* A synchronous call on o's handle returns when all that was posted before it
\* has run; on a dead handle it returns at once.
Synced(o) == ioq = <<>> \/ ~Live(o)

\* Handles are compared by the object they lock: dead ones are all equal.
SameHandle(o, p) == o = p \/ (~Live(o) /\ ~Live(p))

\* A handle that dies while it is a key loses its place in the map's order, and a
\* search by handle may then miss what is there.
Disordered(map) == \E e \in map : ~Live(e.obj)

\* What a lookup by handle may find.
Lookups(map, o) ==
    LET hits == {e \in map : SameHandle(e.obj, o)}
    IN  hits \cup IF hits = {} \/ Disordered(map) THEN {None} ELSE {}

\* erase() takes an entry out of both indices and deletes it.  Missed in the index by
\* handle, it stays a key there: the application is lost with the next comparison.
Erasing(map) == {"none"} \cup IF Disordered(map) THEN {"stale_index"} ELSE {}

\* save_resume_data() has been called: so many alerts more to wait for.
Uncounted(n) == UNCHANGED outstanding       \* mutant of Counted
Counted(n)   == outstanding' = outstanding + n

\* What del() asks for an entry's torrent
NoRemoval(o) == <<>>                        \* mutant of Removal
Removal(o)   == IF Live(o) THEN <<Request("remove", o)>> ELSE <<>>

\* What pause() asks, and in the other order
PauseFirst(o)    == <<Request("pause_gracefully", o), AutoRequest(o, FALSE)>>
PauseRequests(o) == <<AutoRequest(o, FALSE), Request("pause_gracefully", o)>>

EntryOf(tag) == {e \in torrents_ : e.tag = tag}
Post(requests) == ioq' = ioq \o requests

\* The torrent a tag resolves to, if any: torrents_.find<0>(torrent_tags_[tag])
Named(tag) == EntryOf(torrent_tags_[tag])

----------------------------------------------------------------------------

Init ==
    /\ EngineInit
    /\ torrents_ = {} /\ files_ = {} /\ non_files_ = {}
    /\ torrent_tags_ = [t \in Tags |-> None]
    /\ outstanding = 0 /\ batch = <<>> /\ phase = "idle" /\ scan = <<>> /\ dir = Monitored
    /\ fault = "none"
    /\ asked = [t \in Tags |-> 0] /\ calls = 0 /\ scans = 0
    /\ wish = [o \in Objs |-> "none"]

Ready == phase = "idle" /\ fault = "none"

\* add(): the request is posted, the rest happens when the alert comes.
Add(tag) ==
    /\ Ready /\ asked[tag] < MaxAdds
    /\ asked' = [asked EXCEPT ![tag] = @ + 1]
    /\ Post(<<[op |-> "add", obj |-> None, tag |-> tag]>>)
    /\ UNCHANGED <<inside, alerts, maps, outstanding, batch, phase, scan, dir, fault,
                   calls, scans, wish>>

Calls ==
    /\ Ready /\ calls < MaxCalls
    /\ calls' = calls + 1
    /\ UNCHANGED <<inside, alerts, outstanding, batch, phase, scan, asked, scans>>

\* del(): a torrent named by the tag it is known by is erased from torrent_tags_
\* twice, the second time through end(), which throws or does worse.
Del(tag) ==
    /\ Calls
    /\ IF Named(tag) = {}
         THEN UNCHANGED <<ioq, maps, dir, fault>>
         ELSE \E e \in Named(tag), deletesFile \in BOOLEAN :
                /\ dir' = IF deletesFile THEN dir \ {f.path : f \in {g \in files_ : g.key = e.tag}}
                           ELSE dir
                /\ torrents_' = torrents_ \ {e}
                /\ files_' = {f \in files_ : f.key # e.tag}
                /\ non_files_' = non_files_ \ {e.obj}
                /\ torrent_tags_' = [torrent_tags_ EXCEPT ![e.tag] = None, ![tag] = None]
                /\ Post(Removal(e.obj))
                /\ fault' \in Erasing(torrents_)
                              \cup (IF \E f \in files_ : f.key = e.tag THEN Erasing(files_) ELSE {})
                              \cup (IF tag = e.tag THEN {"erase_end"} ELSE {})
    /\ UNCHANGED wish

\* pause()
Pause(tag) ==
    /\ Calls
    /\ IF \E e \in Named(tag) : Live(e.obj)
         THEN \E e \in Named(tag) :
                /\ Post(PauseRequests(e.obj))
                /\ wish' = [wish EXCEPT ![e.obj] = "pause"]
         ELSE UNCHANGED <<ioq, wish>>
    /\ UNCHANGED <<maps, dir, fault>>

\* resume(): whether the torrent is started at once depends on the cached status.
Resume(tag) ==
    /\ Calls
    /\ IF \E e \in Named(tag) : Live(e.obj)
         THEN \E e \in Named(tag) :
                /\ Post(<<AutoRequest(e.obj, TRUE)>> \o
                        IF e.auto /\ e.paused THEN <<Request("resume", e.obj)>> ELSE <<>>)
                /\ wish' = [wish EXCEPT ![e.obj] = "run"]
         ELSE UNCHANGED <<ioq, wish>>
    /\ UNCHANGED <<maps, dir, fault>>

----------------------------------------------------------------------------

\* update(): asks for the torrents' states and pops the alerts.
Update ==
    /\ Ready /\ ~\E h \in ToSet(ioq) : h.op = "updates"
    /\ Post(<<[op |-> "updates", obj |-> None]>>)
    /\ batch' = alerts /\ alerts' = <<>>
    /\ phase' = "updating"
    /\ UNCHANGED <<inside, maps, outstanding, scan, dir, fault, bounds, wish>>

\* handle_alert() for the first popped alert
Handles(kind) ==
    /\ phase = "updating" /\ fault = "none"
    /\ batch # <<>> /\ Head(batch).kind = kind
    /\ batch' = Tail(batch)
    /\ UNCHANGED <<inside, alerts, phase, scan, bounds, wish>>

\* files_.insert(): without effect when the key or the handle is found there.
InsertFile(key, path, o) ==
    \E found \in Lookups(files_, o) :
        files_' = IF found # None \/ \E f \in files_ : f.key = key
                    THEN files_
                    ELSE files_ \cup {[key |-> key, path |-> path, obj |-> o]}

\* add_torrent_alert.  When the tag is taken by another torrent the new one gets
\* no entry, and the entry that is then looked up by its handle may not exist.
HandleAdded ==
    /\ Handles("added") /\ Synced(Head(batch).obj)
    /\ LET a == Head(batch)
           fresh == [tag |-> a.tag, obj |-> a.obj,
                     auto   |-> Live(a.obj) /\ torrent[a.obj].auto,
                     paused |-> Live(a.obj) /\ Paused(a.obj)]
       IN  \E known \in Lookups(torrents_, a.obj) :
            IF EntryOf(a.tag) = {} /\ known = None
              THEN /\ torrents_' = torrents_ \cup {fresh}
                   /\ torrent_tags_' = [torrent_tags_ EXCEPT ![a.tag] = a.tag]
                   /\ IF a.tag \in FileTags
                        THEN /\ InsertFile(a.tag, a.tag, a.obj)
                             /\ UNCHANGED non_files_
                        ELSE /\ non_files_' = non_files_ \cup {a.obj}
                             /\ UNCHANGED files_
                   /\ UNCHANGED fault
              ELSE /\ UNCHANGED <<torrents_, files_, non_files_>>
                   /\ IF known = None
                        THEN fault' = "null_entry" /\ UNCHANGED torrent_tags_
                        ELSE /\ torrent_tags_' = [torrent_tags_ EXCEPT ![a.tag] = known.tag]
                             /\ UNCHANGED fault
    /\ UNCHANGED <<ioq, outstanding, dir>>

\* The file a torrent's metadata is saved to, if there is a directory to hold it.
SavedAs(o)   == {t \in Monitored : HashOf[t] = torrent[o].hash}
SavedPath(o) == IF SavedAs(o) = {} THEN None ELSE CHOOSE t \in SavedAs(o) : TRUE

\* metadata_received_alert: the entry's tag becomes the key in files_.
HandleMetadata ==
    /\ Handles("metadata") /\ Synced(Head(batch).obj)
    /\ LET o == Head(batch).obj
       IN  IF ~Live(o)
             THEN UNCHANGED <<files_, non_files_, dir>>
             ELSE /\ dir' = dir \cup SavedAs(o)
                  /\ \E e \in Lookups(torrents_, o) :
                       IF e = None
                         THEN UNCHANGED <<files_, non_files_>>
                         ELSE /\ InsertFile(e.tag, SavedPath(o), o)
                              /\ non_files_' = non_files_ \ {o}
    /\ UNCHANGED <<ioq, torrents_, torrent_tags_, outstanding, fault>>

\* torrent_finished_alert, torrent_paused_alert: resume data is asked for and
\* counted.  A dead handle takes the request and does nothing with it.
HandleAskForResumeData ==
    /\ Handles("finished") \/ Handles("paused")
    /\ LET o == Head(batch).obj
       IN  Post(IF Live(o) THEN <<Request("save", o)>> ELSE <<>>)
    /\ Counted(1)
    /\ UNCHANGED <<maps, dir, fault>>

\* save_resume_data_alert, save_resume_data_failed_alert: a torrent that is in
\* neither files_ nor non_files_ is removed from the session.
HandleResumeData ==
    /\ \/ Handles("saved") /\ Synced(Head(batch).obj)
       \/ Handles("save_failed")
    /\ outstanding' = outstanding - 1
    /\ LET o == Head(batch).obj
       IN  IF Live(o) /\ o \notin non_files_
             THEN \E f \in Lookups(files_, o) :
                    Post(IF f = None THEN <<Request("remove", o)>> ELSE <<>>)
             ELSE UNCHANGED ioq
    /\ UNCHANGED <<maps, dir, fault>>

\* state_update_alert: the cached status of the entries it names, those that a
\* lookup finds.
HandleStateUpdate ==
    /\ Handles("updates")
    /\ \A s \in Head(batch).status : Synced(s.obj)
    /\ \E missed \in SUBSET Head(batch).status :
        /\ \A s \in missed : None \in Lookups(torrents_, s.obj)
        /\ LET news(e) == {s \in Head(batch).status \ missed : SameHandle(s.obj, e.obj)}
               cached(e) == IF news(e) = {} THEN e
                            ELSE LET s == CHOOSE s \in news(e) : TRUE
                                 IN  [e EXCEPT !.auto = s.auto, !.paused = s.paused]
           IN  torrents_' = {cached(e) : e \in torrents_}
    /\ UNCHANGED <<ioq, files_, non_files_, torrent_tags_, outstanding, dir, fault>>

----------------------------------------------------------------------------

ScanStep(from, to) ==
    /\ phase = from /\ fault = "none"
    /\ phase' = to
    /\ UNCHANGED <<inside, torrents_, non_files_, torrent_tags_, batch, dir, calls, wish>>

AppStep(from, to) == ScanStep(from, to) /\ UNCHANGED fault

\* update() ends, with a scan when its time has come.
EndUpdate ==
    /\ batch = <<>>
    /\ \/ AppStep("updating", "idle")
       \/ Monitored # {} /\ scans < MaxScans /\ AppStep("updating", "scan")
    /\ UNCHANGED <<ioq, alerts, files_, outstanding, scan, asked, scans>>

\* scan_dir(): files that are not in files_ are added, and all are `valid`.
ScanAdds ==
    /\ AppStep("scan", "scanning")
    /\ LET new == {f \in dir : ~\E e \in files_ : e.key = f}
       IN  /\ \A f \in new : asked[f] < MaxAdds
           /\ asked' = [t \in Tags |-> IF t \in new THEN asked[t] + 1 ELSE asked[t]]
           /\ Post([i \in 1 .. Cardinality(new) |->
                       [op |-> "add", obj |-> None, tag |-> SetToSeq(new)[i]]])
    /\ scan' = SetToSeq(dir)
    /\ scans' = scans + 1
    /\ UNCHANGED <<alerts, files_, outstanding>>

\* The second loop of scan_dir(), over `valid`: a torrent that is found in files_
\* is paused, its resume data is asked for, and it leaves files_.
ScanPauses ==
    /\ scan # <<>>
    /\ LET found == {e \in files_ : e.key = Head(scan)}
       IN  IF \E e \in found : Live(e.obj)
             THEN /\ AppStep("scanning", "saving")
                  /\ \E e \in found :
                        Post(<<AutoRequest(e.obj, FALSE), Request("pause", e.obj)>>)
                  /\ UNCHANGED <<files_, scan>>
             ELSE /\ ScanStep("scanning", "scanning")
                  /\ files_' = files_ \ found
                  /\ fault' \in IF found = {} THEN {"none"} ELSE Erasing(files_)
                  /\ scan' = Tail(scan)
                  /\ UNCHANGED ioq
    /\ UNCHANGED <<alerts, outstanding, asked, scans>>

ScanSaves ==
    /\ ScanStep("saving", "scanning")
    /\ fault' \in Erasing(files_)
    /\ \E e \in files_ :
        /\ e.key = Head(scan) /\ Synced(e.obj)
        /\ \/ /\ Live(e.obj)
              /\ Post(<<Request("save", e.obj)>>)
              /\ Counted(1)
           \/ UNCHANGED <<ioq, outstanding>>
        /\ files_' = files_ \ {e}
    /\ scan' = Tail(scan)
    /\ UNCHANGED <<alerts, asked, scans>>

ScanEnds ==
    /\ scan = <<>> /\ AppStep("scanning", "idle")
    /\ UNCHANGED <<ioq, alerts, files_, outstanding, scan, asked, scans>>

----------------------------------------------------------------------------

\* ~TorrentSessionImpl(): save_setting() pauses the session, asks for the resume
\* data of the torrents that need it, and waits for as many alerts as it has
\* counted since the start.
Close ==
    /\ AppStep("idle", "closing")
    /\ Post(<<[op |-> "pause_session", obj |-> None]>>)
    /\ UNCHANGED <<alerts, files_, outstanding, scan, asked, scans>>

CloseAsks ==
    /\ AppStep("closing", "waiting")
    /\ ioq = <<>>
    /\ \E need \in SUBSET {o \in Listed : torrent[o].meta} :
        /\ Post([i \in 1 .. Cardinality(need) |-> Request("save", SetToSeq(need)[i])])
        /\ Counted(Cardinality(need))
    /\ UNCHANGED <<alerts, files_, scan, asked, scans>>

Results(as) == Cardinality({i \in DOMAIN as : as[i].kind \in {"saved", "save_failed"}})

CloseWaits ==
    /\ AppStep("waiting", "waiting")
    /\ outstanding > 0 /\ alerts # <<>>
    /\ outstanding' = outstanding - Results(alerts)
    /\ alerts' = <<>>
    /\ UNCHANGED <<ioq, files_, scan, asked, scans>>

CloseEnds ==
    /\ outstanding <= 0
    /\ AppStep("waiting", "closed")
    /\ UNCHANGED <<ioq, alerts, files_, outstanding, scan, asked, scans>>

----------------------------------------------------------------------------

User ==
    \/ \E tag \in Tags : Add(tag) \/ Del(tag) \/ Pause(tag) \/ Resume(tag)
    \/ Update
    \/ Close

\* The application thread inside update() or the destructor.
Application ==
    \/ HandleAdded \/ HandleMetadata \/ HandleAskForResumeData \/ HandleResumeData
    \/ HandleStateUpdate \/ EndUpdate
    \/ ScanAdds \/ ScanPauses \/ ScanSaves \/ ScanEnds
    \/ CloseAsks \/ CloseWaits \/ CloseEnds

\* Somebody takes a .torrent file out of the directory.
TakeFile(f) ==
    /\ f \in dir /\ dir' = dir \ {f}
    /\ UNCHANGED <<engineVars, maps, outstanding, batch, phase, scan, fault, bounds,
                   wish>>

\* The session's threads run until the process or the session ends.
Running == fault = "none" /\ phase # "closed"
Engine  == Running /\ EngineNext /\ UNCHANGED appVars

Next == User \/ Application \/ Engine \/ \E f \in Monitored : TakeFile(f)

\* The threads run what is queued.  A synchronous call returns once its own
\* handler has run, however much is posted behind it: hence SF.
Fairness ==
    /\ WF_vars(Running /\ NetworkThread /\ UNCHANGED appVars)
    /\ WF_vars(Running /\ DiskThread /\ UNCHANGED appVars)
    /\ SF_vars(Application)

Spec == Init /\ [][Next]_vars
FairSpec == Spec /\ Fairness

----------------------------------------------------------------------------

\* Type correctness of the wrapper's and the session's state.
TypeOK ==
    /\ made \in 0 .. Cardinality(Objs)
    /\ session \in [Hashes -> Created \cup {None}]
    /\ \A h \in ToSet(ioq) \cup ToSet(jobs) : h.obj \in Created \cup {None}
    /\ \A a \in ToSet(alerts) \cup ToSet(batch) : a.kind = "updates" \/ a.obj \in Created
    /\ \A e \in torrents_ :
         e.tag \in Tags /\ e.obj \in Created /\ {e.auto, e.paused} \subseteq BOOLEAN
    /\ \A e \in files_ : e.key \in Tags /\ e.path \in Tags \cup {None} /\ e.obj \in Created
    /\ non_files_ \subseteq Created
    /\ torrent_tags_ \in [Tags -> Tags \cup {None}]
    /\ outstanding \in Nat /\ dir \subseteq Monitored

\* Results of save_resume_data() under way: asked for, being made, or told.
Under(queue, ops) == Cardinality({i \in DOMAIN queue : queue[i].op \in ops})
Pending == Under(ioq, {"save", "on_save"}) + Under(jobs, {"save_job"})
           + Results(alerts) + Results(batch)

\* Every resume-data alert that will come is counted: update() and the destructor
\* between them never stop waiting while one is under way.
EnoughAwaited == Running => outstanding >= Pending

\* The assertion of ~alert_manager(): no resume data is lost in the alert queue,
\* nor on its way there, when the session is shut down.
NoResumeDataLeft == phase = "closed" => Pending = 0

\* An application that adds each torrent once never has a torrent running that
\* no tag leads to: an entry names it, or its alert or its removal is on the way.
NoOrphan ==
    phase \in {"idle", "updating"} =>
        \A o \in Listed :
            \/ \E e \in torrents_ : e.obj = o /\ torrent_tags_[e.tag] = e.tag
            \/ \E a \in ToSet(alerts) \cup ToSet(batch) : a.kind = "added" /\ a.obj = o
            \/ \E h \in ToSet(ioq) : h.op = "remove" /\ h.obj = o

\* pause() and resume() have the last word over the auto-manager, whatever alerts,
\* cached statuses and earlier requests were on the way.
LastWordWins ==
    \A o \in Listed :
        ~(\E h \in ToSet(ioq) : h.obj = o /\ h.op \in {"auto", "pause_gracefully", "resume"}) =>
            /\ wish[o] = "pause" => ~torrent[o].auto /\ Paused(o)
            /\ wish[o] = "run"   => torrent[o].auto

\* ~torrent() asserts that the torrent was aborted.
AbortedBeforeDestroyed == \A o \in Created : Live(o) \/ torrent[o].aborted

\* The destructor returns when no resume data was asked for in vain.
CleanShutdown ==
    phase = "waiting" /\ outstanding = Pending ~> phase = "closed"

=============================================================================
