--------------------------- MODULE TorrentEngine ---------------------------
(***************************************************************************)
(* libtorrent's session as its client sees it: requests go through the      *)
(* io_service to the network thread, which owns the torrents and answers     *)
(* with alerts; flushing and resume-data jobs go to the disk thread, whose   *)
(* completions come back through the io_service.                            *)
(*                                                                         *)
(* A torrent object stays alive, and handles to it valid, while the session  *)
(* lists it or a queued request, disk job or completion holds a shared_ptr   *)
(* to it.  Peers, pieces and trackers are left out: what they do to a        *)
(* torrent is Metadata (a magnet link's metadata arrives), Finish (its last  *)
(* piece does) and AutoManage.  Whether m_need_save_resume_data is set is    *)
(* left to whoever reads it, since every received block sets it.            *)
(***************************************************************************)
EXTENDS Integers, Sequences, FiniteSets, SequencesExt

CONSTANTS
    Hashes,         \* info-hashes
    FileTags,       \* names of .torrent files
    LinkTags,       \* magnet links
    HashOf,         \* HashOf[tag]: the info-hash of the torrent a tag names
    MaxAdds,        \* bound on how often one tag is added
    MaxEvents,      \* bound on what the swarm and the auto-manager do
    None            \* no torrent

Tags == FileTags \cup LinkTags

ASSUME TagsAssumption ==
    /\ FileTags \cap LinkTags = {} /\ IsFiniteSet(Tags)
    /\ HashOf \in [Tags -> Hashes]
    /\ None \notin Tags \cup Nat
ASSUME MaxAddsAssumption == MaxAdds \in Nat \ {0}

Objs == 1 .. MaxAdds * Cardinality(Tags)

VARIABLES
    ioq,            \* handlers posted to the io_service, in order
    session,        \* m_torrents: the torrent object filed under each info-hash
    torrent,        \* the torrent objects
    made,           \* how many of them exist or have existed
    jobs,           \* the disk thread's queue
    sesPaused,      \* session_impl::m_paused
    alerts,         \* alert_manager::m_alerts
    events          \* Metadata, Finish and AutoManage steps so far

inside     == <<session, torrent, made, jobs, sesPaused, events>>
engineVars == <<ioq, inside, alerts>>

----------------------------------------------------------------------------

Created == 1 .. made
InSession(o) == o \in Created /\ session[torrent[o].hash] = o
Listed == {o \in Created : InSession(o)}

\* Who holds a shared_ptr: every handler but "remove", which carries a handle.
Holds(h, o) == h.obj = o /\ h.op # "remove"
Live(o) ==
    \/ InSession(o)
    \/ \E h \in ToSet(ioq) \cup ToSet(jobs) : Holds(h, o)

\* is_paused(), m_owning_storage
Paused(o) == ~torrent[o].allow \/ sesPaused \/ torrent[o].graceful
HasStorage(o) == torrent[o].meta /\ ~torrent[o].aborted

Request(op, o)    == [op |-> op, obj |-> o]
AutoRequest(o, b) == [op |-> "auto", obj |-> o, to |-> b]
Alert(kind, o)    == [kind |-> kind, obj |-> o]

\* post_impl() of discardable alerts (metadata, finished, paused): those that come when
\* the queue is full are dropped.  Alerts this model leaves out fill the queue too: it may
\* be full from any time on.
Posts(more) == \E n \in 0 .. Len(more) : alerts' = alerts \o SubSeq(more, 1, n)

\* The network thread runs the handler at the head of its queue.
Runs(op) ==
    /\ ioq # <<>> /\ Head(ioq).op = op
    /\ ioq' = Tail(ioq)
    /\ UNCHANGED events

\* do_pause() of torrents that are paused: those with a storage release their files first
\* and tell that they are paused when it is done.
DoPause(os) ==
    LET stored == {o \in os : HasStorage(o)}
        rest   == os \ stored
    IN  /\ jobs' = jobs \o [i \in 1 .. Cardinality(stored) |->
                               Request("release_paused", SetToSeq(stored)[i])]
        /\ Posts([i \in 1 .. Cardinality(rest) |-> Alert("paused", SetToSeq(rest)[i])])

----------------------------------------------------------------------------

EngineInit ==
    /\ ioq = <<>> /\ jobs = <<>> /\ alerts = <<>>
    /\ session = [h \in Hashes |-> None]
    /\ torrent = [o \in Objs |->
                     [hash |-> CHOOSE h \in Hashes : TRUE, meta |-> FALSE, aborted |-> FALSE,
                      allow |-> FALSE, graceful |-> FALSE, auto |-> TRUE, dirty |-> FALSE,
                      finished |-> FALSE]]
    /\ made = 0 /\ sesPaused = FALSE /\ events = 0

\* add_torrent(): the torrent that is there already, or a new one.  A new
\* .torrent file's resume data may say the user had paused it.
AddTorrent ==
    /\ Runs("add")
    /\ LET tag == Head(ioq).tag
           h   == HashOf[tag]
       IN  IF session[h] # None
             THEN /\ alerts' = Append(alerts, [kind |-> "added", obj |-> session[h], tag |-> tag])
                  /\ UNCHANGED <<session, torrent, made>>
             ELSE /\ made' = made + 1
                  /\ session' = [session EXCEPT ![h] = made']
                  /\ \E managed \in IF tag \in FileTags THEN BOOLEAN ELSE {TRUE} :
                        torrent' = [torrent EXCEPT ![made'] =
                            [@ EXCEPT !.hash = h, !.meta = tag \in FileTags, !.auto = managed]]
                  /\ alerts' = Append(alerts, [kind |-> "added", obj |-> made', tag |-> tag])
    /\ UNCHANGED <<jobs, sesPaused>>

\* remove_torrent(): what is filed under the torrent's info-hash is dropped,
\* and the torrent the handle names is aborted.
RemoveTorrent ==
    /\ Runs("remove")
    /\ LET o == Head(ioq).obj
       IN  IF ~Live(o)
             THEN UNCHANGED <<session, torrent, jobs>>
             ELSE /\ session' = [session EXCEPT ![torrent[o].hash] = None]
                  /\ torrent' = [torrent EXCEPT ![o].aborted = TRUE]
                  /\ jobs' = IF HasStorage(o) THEN Append(jobs, Request("release", o)) ELSE jobs
    /\ UNCHANGED <<made, sesPaused, alerts>>

\* auto_managed()
SetAutoManaged ==
    /\ Runs("auto")
    /\ LET o == Head(ioq).obj
           b == Head(ioq).to
           t == torrent[o]
       IN  torrent' = [torrent EXCEPT ![o] =
                          [t EXCEPT !.auto = b, !.dirty = t.dirty \/ t.auto # b]]
    /\ UNCHANGED <<session, made, jobs, sesPaused, alerts>>

\* pause()
PauseTorrent ==
    \E graceful \in BOOLEAN :
        /\ Runs(IF graceful THEN "pause_gracefully" ELSE "pause")
        /\ LET o == Head(ioq).obj
           IN  IF ~torrent[o].allow
                 THEN UNCHANGED <<torrent, jobs, alerts>>
                 ELSE /\ torrent' = [torrent EXCEPT ![o] =
                             [@ EXCEPT !.allow = graceful, !.graceful = graceful, !.dirty = TRUE]]
                      /\ IF ~sesPaused \/ (torrent[o].graceful /\ ~graceful)
                           THEN DoPause({o})
                           ELSE UNCHANGED <<jobs, alerts>>
        /\ UNCHANGED <<session, made, sesPaused>>

\* resume(): returns early when the torrent runs and announces everywhere,
\* which the auto-manager's limits decide.
ResumeTorrent ==
    /\ Runs("resume")
    /\ LET o == Head(ioq).obj
           t == torrent[o]
       IN  \/ /\ t.allow /\ ~t.graceful
              /\ UNCHANGED torrent
           \/ torrent' = [torrent EXCEPT ![o] =
                  [t EXCEPT !.allow = TRUE, !.graceful = t.graceful /\ sesPaused,
                            !.dirty = t.dirty \/ ~sesPaused]]
    /\ UNCHANGED <<session, made, jobs, sesPaused, alerts>>

\* There is no resume data to give: save_resume_data_failed_alert.
FailsSilently(o) == UNCHANGED alerts        \* mutant of Fails
Fails(o)         == alerts' = Append(alerts, Alert("save_failed", o))

\* save_resume_data(): refused without metadata or storage, answered at once
\* while the files are being checked, else left to the disk thread.
SaveResumeData ==
    /\ Runs("save")
    /\ LET o == Head(ioq).obj
       IN  \/ /\ ~HasStorage(o)
              /\ Fails(o)
              /\ UNCHANGED <<torrent, jobs>>
           \/ /\ HasStorage(o)
              /\ torrent' = [torrent EXCEPT ![o].dirty = TRUE]
              /\ \/ alerts' = Append(alerts, Alert("saved", o)) /\ UNCHANGED jobs
                 \/ jobs' = Append(jobs, Request("save_job", o)) /\ UNCHANGED alerts
    /\ UNCHANGED <<session, made, sesPaused>>

\* session_impl::pause()
PauseSession ==
    /\ Runs("pause_session")
    /\ sesPaused' = TRUE
    /\ IF sesPaused
         THEN UNCHANGED <<torrent, jobs, alerts>>
         ELSE /\ torrent' = [o \in Objs |->
                                [torrent[o] EXCEPT !.dirty = @ \/ o \in Listed]]
              /\ DoPause(Listed)
    /\ UNCHANGED <<session, made>>

\* post_torrent_updates().  An alert without a torrent tells nothing and is left out.
PostTorrentUpdates ==
    /\ Runs("updates")
    /\ LET news == {o \in Created : torrent[o].dirty /\ Live(o)}
           status(o) == [obj |-> o, paused |-> Paused(o), auto |-> torrent[o].auto]
       IN  alerts' = IF news = {} THEN alerts
                     ELSE Append(alerts, [kind |-> "updates", status |-> {status(o) : o \in news}])
    /\ torrent' = [o \in Objs |-> [torrent[o] EXCEPT !.dirty = FALSE]]
    /\ UNCHANGED <<session, made, jobs, sesPaused>>

\* The disk thread finishes a job and posts its completion.
DiskThread ==
    /\ jobs # <<>>
    /\ jobs' = Tail(jobs)
    /\ ioq' = Append(ioq, [Head(jobs) EXCEPT !.op =
                  CASE @ = "save_job"       -> "on_save"
                    [] @ = "release_paused" -> "on_paused"
                    [] OTHER                -> "on_released"])
    /\ UNCHANGED <<session, torrent, made, sesPaused, alerts, events>>

\* on_save_resume_data()
OnSaveResumeData ==
    /\ Runs("on_save")
    /\ LET o == Head(ioq).obj
       IN  \/ /\ alerts' = Append(alerts, Alert("saved", o))
              /\ torrent' = [torrent EXCEPT ![o].dirty = TRUE]
           \/ /\ Fails(o)
              /\ UNCHANGED torrent
    /\ UNCHANGED <<session, made, jobs, sesPaused>>

\* on_torrent_paused()
OnTorrentPaused ==
    /\ Runs("on_paused")
    /\ Posts(<<Alert("paused", Head(ioq).obj)>>)
    /\ UNCHANGED <<session, torrent, made, jobs, sesPaused>>

\* on_cache_flushed(), on_files_released(): nothing but the reference is dropped.
OnFilesReleased ==
    /\ Runs("on_released")
    /\ UNCHANGED <<session, torrent, made, jobs, sesPaused, alerts>>

----------------------------------------------------------------------------

\* What the swarm and the clock do to a torrent of the session, MaxEvents times.
Happens(o) ==
    /\ InSession(o) /\ events < MaxEvents
    /\ events' = events + 1

\* A magnet link's metadata arrives.
Metadata(o) ==
    /\ Happens(o) /\ ~torrent[o].meta
    /\ torrent' = [torrent EXCEPT ![o].meta = TRUE]
    /\ Posts(<<Alert("metadata", o)>>)
    /\ UNCHANGED <<ioq, session, made, jobs, sesPaused>>

\* finished(), at most once for each torrent
Finish(o) ==
    /\ Happens(o) /\ torrent[o].meta /\ ~torrent[o].finished
    /\ torrent' = [torrent EXCEPT ![o] = [@ EXCEPT !.finished = TRUE, !.dirty = TRUE]]
    /\ Posts(<<Alert("finished", o)>>)
    /\ jobs' = Append(jobs, Request("release", o))
    /\ UNCHANGED <<ioq, session, made, sesPaused>>

\* The auto-manager starts or pauses one of its torrents: set_allow_peers().  It
\* rests while the session is paused.
AutoManage(o) ==
    /\ Happens(o) /\ torrent[o].auto /\ ~sesPaused
    /\ \E b \in BOOLEAN :
        /\ torrent[o].allow # b \/ torrent[o].graceful = b
        /\ torrent' = [torrent EXCEPT ![o] =
               [@ EXCEPT !.allow = b, !.graceful = ~b, !.dirty = TRUE]]
        /\ IF b THEN UNCHANGED <<jobs, alerts>> ELSE DoPause({o})
    /\ UNCHANGED <<ioq, session, made, sesPaused>>

Swarm == \E o \in Created : Metadata(o) \/ Finish(o) \/ AutoManage(o)

NetworkThread ==
    \/ AddTorrent \/ RemoveTorrent \/ SetAutoManaged \/ PauseTorrent \/ ResumeTorrent
    \/ SaveResumeData \/ PauseSession \/ PostTorrentUpdates
    \/ OnSaveResumeData \/ OnTorrentPaused \/ OnFilesReleased

EngineNext == NetworkThread \/ DiskThread \/ Swarm

=============================================================================
