--------------------------- MODULE PieceDownload ---------------------------
(***************************************************************************)
(* One piece of a torrent on its way from the peers to the disk: the       *)
(* piece_picker's block states and counters, the request and download      *)
(* queues of the peer_connections, the disk thread with its write cache,   *)
(* and the torrent, which checks the hash and passes or fails the piece.   *)
(*                                                                         *)
(* Two threads run.  The network thread runs one handler at a time; the    *)
(* disk thread takes one job at a time and gathers the completions it has  *)
(* to report in batches, each of which the network thread handles whole    *)
(* (completion_queue_handler).                                             *)
(***************************************************************************)
EXTENDS Integers, Sequences, FiniteSets

CONSTANTS
    Peers,        \* the peers that have the piece
    NoPeer,       \* a null policy::peer pointer
    NumBlocks,    \* blocks in the piece
    Fast,         \* the peers that support the FAST extension
    DropSkipped,  \* the setting drop_skipped_requests
    MaxBad,       \* bound: blocks sent with bad data
    MaxFaults     \* bound: failed flushes and failed reads

ASSUME PieceAssumption ==
    /\ IsFiniteSet(Peers) /\ NoPeer \notin Peers
    /\ Fast \subseteq Peers
    /\ NumBlocks \in Nat \ {0}
    /\ DropSkipped \in BOOLEAN
    /\ MaxBad \in Nat /\ MaxFaults \in Nat

Blocks == 0 .. NumBlocks - 1
NoBlock == NumBlocks
Data == [good : BOOLEAN, by : Peers]
NoData == [good |-> FALSE, by |-> NoPeer]

VARIABLES
    picker,      \* what piece_picker keeps of the piece
    rq,          \* m_request_queue of each peer: picked, not yet sent
    dq,          \* m_download_queue of each peer: requested, not yet received
    receiving,   \* m_receiving_block of each peer
    conn,        \* the connected peers
    banned,      \* peers the policy has banned
    parole,      \* peers on parole
    cancelled,   \* the entries of download queues a CANCEL was sent for
    uploadMode,  \* torrent::m_upload_mode
    net,         \* the network thread: idle, in a batch, or about to verify
    jobs,        \* the disk thread's m_jobs, of this piece
    cache,       \* the piece's entry in the write cache
    disk,        \* what the file holds
    queued,      \* m_queued_completions
    posted,      \* completions posted to the network thread
    orphans,     \* how many writes of a peer's block outlived its connection
    bad, faults  \* how much of the bounds is used

network == <<picker, rq, dq, receiving, conn, banned, parole, cancelled, uploadMode,
             orphans>>
storage == <<jobs, cache, disk, queued, posted>>
vars == <<network, net, storage, bad, faults>>

----------------------------------------------------------------------------
(* The picker                                                              *)

Sum(pk) == pk.requested + pk.writing + pk.finished

\* erase_download_piece: the counters and blocks go, 'full' stays behind
Erased(pk) ==
    [pk EXCEPT !.downloading = FALSE,
               !.state = [b \in Blocks |-> "none"],
               !.num_peers = [b \in Blocks |-> 0],
               !.peer = [b \in Blocks |-> NoPeer],
               !.requested = 0, !.writing = 0, !.finished = 0]

UpdateFull(pk) == [pk EXCEPT !.full = (Sum(pk) = NumBlocks)]

IsRequested(pk, b) == pk.state[b] = "requested"
IsOnDisk(pk, b) == pk.have \/ pk.state[b] = "finished"          \* mutant of IsDownloaded
IsDownloaded(pk, b) == pk.have \/ pk.state[b] \in {"writing", "finished"}
AllFinished(pk) == pk.downloading /\ pk.finished >= NumBlocks   \* mutant of IsPieceFinished
IsPieceFinished(pk) == pk.downloading /\ pk.finished + pk.writing >= NumBlocks

MarkDownloading(pk, b, p) ==
    IF ~pk.downloading
    THEN UpdateFull([Erased(pk) EXCEPT !.downloading = TRUE, !.state[b] = "requested",
                                       !.peer[b] = p, !.num_peers[b] = 1, !.requested = 1])
    ELSE IF pk.state[b] \in {"writing", "finished"} THEN pk
    ELSE LET more == [pk EXCEPT !.peer[b] = p, !.num_peers[b] = @ + 1] IN
         IF IsRequested(pk, b) THEN more
         ELSE UpdateFull([more EXCEPT !.state[b] = "requested", !.requested = @ + 1])

\* what is left of 'requested' and of 'writing' when b is no longer in that state
Unconditional(pk, b) == pk.requested - 1                        \* mutant of StillRequested
NeverLess(pk, b) == pk.requested                                \* mutant of StillRequested
StillRequested(pk, b) == IF IsRequested(pk, b) THEN pk.requested - 1 ELSE pk.requested

StillWriting(pk, b) == IF pk.state[b] = "writing" THEN pk.writing - 1 ELSE pk.writing

MarkWriting(pk, b, p) ==
    IF ~pk.downloading
    THEN IF pk.have THEN pk
         ELSE UpdateFull([Erased(pk) EXCEPT !.downloading = TRUE, !.state[b] = "writing",
                                            !.peer[b] = p, !.writing = 1])
    ELSE LET met == [pk EXCEPT !.peer[b] = p, !.requested = StillRequested(pk, b)] IN
         IF pk.state[b] \in {"writing", "finished"} THEN met
         ELSE [met EXCEPT !.state[b] = "writing", !.writing = @ + 1, !.num_peers[b] = 0]

MarkFinished(pk, b, p) ==
    IF ~pk.downloading
    THEN IF pk.have THEN pk
         ELSE [Erased(pk) EXCEPT !.downloading = TRUE, !.state[b] = "finished",
                                 !.peer[b] = p, !.finished = 1]
    ELSE IF pk.state[b] = "finished" THEN pk
    ELSE [pk EXCEPT !.state[b] = "finished", !.peer[b] = p, !.finished = @ + 1,
                    !.writing = StillWriting(pk, b)]

WriteFailed(pk, b) ==
    IF ~pk.downloading \/ pk.state[b] = "finished" THEN pk
    ELSE LET free == UpdateFull([pk EXCEPT !.state[b] = "none", !.peer[b] = NoPeer,
                                    !.writing = StillWriting(pk, b)])
         IN  IF Sum(free) = 0 THEN Erased(free) ELSE free

ClearPeer(pk, p) ==
    [pk EXCEPT !.peer = [b \in Blocks |-> IF @[b] = p THEN NoPeer ELSE @[b]]]

\* abort_download for every <<peer, block>> of a set, whose order does not matter
Abort(pk, set) ==
    LET By(b) == {p \in Peers : <<p, b>> \in set}
        Left(b) == pk.num_peers[b] - Cardinality(By(b))
        hit == {b \in Blocks : By(b) # {} /\ IsRequested(pk, b)}
        gone == {b \in hit : Left(b) <= 0}
        met == [pk EXCEPT
            !.num_peers = [b \in Blocks |-> IF b \in gone THEN 0
                                            ELSE IF b \in hit THEN Left(b) ELSE @[b]],
            !.peer = [b \in Blocks |-> IF b \in gone \/ (b \in hit /\ @[b] \in By(b))
                                       THEN NoPeer ELSE @[b]],
            !.state = [b \in Blocks |-> IF b \in gone THEN "none" ELSE @[b]],
            !.requested = @ - Cardinality(gone)]
    IN  IF gone = {} THEN met
        ELSE IF Sum(met) = 0 THEN Erased(UpdateFull(met)) ELSE UpdateFull(met)

----------------------------------------------------------------------------
(* The queues                                                              *)

\* what a handler of the network thread works on: the picker and the queues
Here == [picker |-> picker, rq |-> rq, dq |-> dq, cancelled |-> cancelled]
Becomes(s) == /\ picker' = s.picker /\ rq' = s.rq
              /\ dq' = s.dq /\ cancelled' = s.cancelled

\* the blocks p asks for, as the picker counts them
Asked(s, p) == s.rq[p] \cup {b \in Blocks : s.dq[p][b] = "live"}
Asking(s, C, b) == {p \in C : b \in Asked(s, p)}
Entries(s, p) == {b \in Blocks : s.dq[p][b] # "no"}

\* the entries X, pairs of a peer and a block, leave the download queues
Dequeued(s, X) ==
    [s EXCEPT !.dq = [p \in Peers |-> [b \in Blocks |->
                         IF <<p, b>> \in X THEN "no" ELSE @[p][b]]],
              !.cancelled = @ \ X]

Unqueued(s, X) ==
    [s EXCEPT !.rq = [p \in Peers |-> {b \in @[p] : <<p, b>> \notin X}]]

Live(s, X) == {x \in X : s.dq[x[1]][x[2]] = "live"}

\* incoming_reject_request for the entries X; on parole the request is kept
Rejected(s, X, onParole) ==
    LET live == Live(s, X)
        kept == {x \in live : x[1] \in onParole}
    IN  [Dequeued(s, X) EXCEPT
            !.picker = Abort(@, live \ kept),
            !.rq = [p \in Peers |-> @[p] \cup {b \in Blocks : <<p, b>> \in kept}]]

\* write_cancel for the entries X: a peer without the FAST extension is taken to
\* have rejected the request
Cancelled(s, X, onParole) ==
    LET slow == {x \in X : x[1] \notin Fast}
    IN  Rejected([s EXCEPT !.cancelled = @ \cup (X \ slow)], slow, onParole)

\* the requests in S not sent yet are aborted
Withdrawn(s, S) ==
    LET X == {x \in S \X Blocks : x[2] \in s.rq[x[1]]}
    IN  [Unqueued(s, X) EXCEPT !.picker = Abort(@, X)]

WithdrawnOnly(s, C, onParole) == Withdrawn(s, C)                \* mutant of CancelledAll

\* cancel_all_requests on the peers C: what is being received is not cancelled
CancelledAll(s, C, onParole) ==
    LET t == Withdrawn(s, C)
    IN  Cancelled(t, {x \in C \X Blocks : t.dq[x[1]][x[2]] # "no" /\ receiving[x[1]] # x[2]},
                  onParole)

\* cancel_block: cancel_request on every peer, for a block that is requested
CancelledBlock(s, b) ==
    IF ~IsRequested(s.picker, b) THEN s
    ELSE LET unsent == {p \in conn : s.dq[p][b] = "no" /\ b \in s.rq[p]} \X {b}
             sent == {p \in conn : s.dq[p][b] # "no"} \X {b}
         IN  Cancelled([Unqueued(s, unsent) EXCEPT !.picker = Abort(@, unsent)], sent, parole)

NotAborted(s, C) == Dequeued(Withdrawn(s, C), C \X Blocks)      \* mutant of Disconnected

\* disconnect: the peers C give up what they ask for
Disconnected(s, C) ==
    LET t == Withdrawn(s, C)
    IN  [Dequeued(t, C \X Blocks) EXCEPT !.picker = Abort(@, Live(t, C \X Blocks))]

\* restore_piece and restore_piece_state: the piece starts over, with the blocks
\* still asked for requested.  The downloader of a block is the last peer that
\* asks, in the order of m_connections
Downloaders(s, C) ==
    {last \in [Blocks -> Peers \cup {NoPeer}] : \A b \in Blocks :
        IF Asking(s, C, b) = {} THEN last[b] = NoPeer ELSE last[b] \in Asking(s, C, b)}

Restored(s, C, last) ==
    LET clean == Erased(s.picker)
        again == {b \in Blocks : Asking(s, C, b) # {}}
    IN  [s EXCEPT !.picker = IF again = {} THEN clean ELSE UpdateFull([clean EXCEPT
            !.downloading = TRUE,
            !.state = [b \in Blocks |-> IF b \in again THEN "requested" ELSE "none"],
            !.num_peers = [b \in Blocks |-> Cardinality(Asking(s, C, b))],
            !.peer = last,
            !.requested = Cardinality(again)])]

Init ==
    /\ picker = [have |-> FALSE, downloading |-> FALSE, full |-> FALSE,
                 state |-> [b \in Blocks |-> "none"], num_peers |-> [b \in Blocks |-> 0],
                 peer |-> [b \in Blocks |-> NoPeer],
                 requested |-> 0, writing |-> 0, finished |-> 0]
    /\ rq = [p \in Peers |-> {}]
    /\ dq = [p \in Peers |-> [b \in Blocks |-> "no"]]
    /\ receiving = [p \in Peers |-> NoBlock]
    /\ conn = Peers /\ banned = {} /\ parole = {} /\ cancelled = {}
    /\ uploadMode = FALSE /\ net = "idle"
    /\ jobs = <<>> /\ queued = <<>> /\ posted = <<>>
    /\ cache = [b \in Blocks |-> NoData] /\ disk = [b \in Blocks |-> NoData]
    /\ orphans = [p \in Peers |-> [b \in Blocks |-> 0]]
    /\ bad = 0 /\ faults = 0

----------------------------------------------------------------------------
(* The network thread: peers                                               *)

Idle(p) == net = "idle" /\ p \in conn
Peerless == <<conn, banned, parole, uploadMode, orphans>>

\* what add_blocks offers p: a full piece is skipped, and a peer on parole only
\* gets pieces nobody else had a part in
Exclusive(s, p) == \A b \in Blocks : s.picker.state[b] = "none" \/ s.picker.peer[b] = p
FreeAgain(s, p) ==                                              \* mutant of Free
    {b \in Blocks : s.picker.state[b] = "none" /\ b \notin s.rq[p]}
Free(s, p) == {b \in Blocks : s.picker.state[b] = "none" /\ b \notin s.rq[p] /\ s.dq[p][b] = "no"}
Offered(s, p) ==
    IF s.picker.have THEN {}
    ELSE IF s.picker.downloading
            /\ (IF p \in parole THEN ~Exclusive(s, p) ELSE s.picker.full) THEN {}
    ELSE Free(s, p)

\* add_request
Requested(s, p, b) == [s EXCEPT !.picker = MarkDownloading(@, b, p), !.rq[p] = @ \cup {b}]

\* request_a_block: a free block, or, when there is none and the peer has nothing
\* to do, a block that another peer was asked for (end game)
RequestABlock(p) ==
    /\ Idle(p) /\ ~uploadMode
    /\ \E b \in Blocks :
         /\ \/ b \in Offered(Here, p)
            \/ /\ Offered(Here, p) = {} /\ p \notin parole
               /\ rq[p] = {} /\ Entries(Here, p) = {}
               /\ IsRequested(picker, b) /\ picker.peer[b] # p
         /\ Becomes(Requested(Here, p, b))
    /\ UNCHANGED <<receiving, Peerless, net, storage, bad, faults>>

\* send_block_requests, for one block
SendBlockRequest(p) ==
    /\ Idle(p) /\ ~uploadMode
    /\ \E b \in rq[p] :
         LET s == Unqueued(Here, {<<p, b>>}) IN
         Becomes(IF IsDownloaded(picker, b)
                 THEN [s EXCEPT !.picker = Abort(@, {<<p, b>>})]
                 ELSE [s EXCEPT !.dq[p][b] = "live"])
    /\ UNCHANGED <<receiving, Peerless, net, storage, bad, faults>>

\* start_receive_piece: a block nobody asked for is entered as not wanted
StartReceivePiece(p) ==
    /\ Idle(p) /\ receiving[p] = NoBlock
    /\ \E b \in Blocks :
         /\ receiving' = [receiving EXCEPT ![p] = b]
         /\ Becomes(IF dq[p][b] # "no" THEN Here
                    ELSE [Unqueued(Here, {<<p, b>>}) EXCEPT
                             !.dq[p][b] = IF b \in rq[p] THEN "live" ELSE "not_wanted"])
    /\ UNCHANGED <<Peerless, net, storage, bad, faults>>

\* incoming_piece: entries the peer skipped may be dropped; the block goes to the
\* disk unless it came before, and the other peers' requests for it are cancelled
IncomingPiece(p, good, skipped) ==
    LET b == receiving[p]
        s == [Dequeued(Here, {p} \X skipped) EXCEPT
                 !.picker = Abort(@, Live(Here, {p} \X skipped))]
        taken == [Dequeued(s, {<<p, b>>}) EXCEPT !.picker = MarkWriting(@, b, p)]
        final == IF s.picker.num_peers[b] > 1 THEN CancelledBlock(taken, b) ELSE taken
    IN  /\ Idle(p) /\ b \in Blocks
        /\ skipped \subseteq (IF DropSkipped THEN Entries(Here, p) \ {b} ELSE {})
        /\ receiving' = [receiving EXCEPT ![p] = NoBlock]
        /\ bad' = IF good THEN bad ELSE bad + 1
        /\ bad' <= MaxBad
        /\ \/ /\ dq[p][b] = "no" /\ skipped = {}
              /\ Becomes(Here) /\ UNCHANGED <<net, jobs>>
           \/ /\ dq[p][b] # "no" /\ IsDownloaded(s.picker, b)
              /\ Becomes(Dequeued(s, {<<p, b>>})) /\ UNCHANGED <<net, jobs>>
           \/ /\ dq[p][b] # "no" /\ ~IsDownloaded(s.picker, b)
              /\ jobs' = Append(jobs, [kind |-> "write", block |-> b, good |-> good, by |-> p])
              /\ Becomes(final)
              /\ net' = IF IsPieceFinished(final.picker) /\ ~IsPieceFinished(s.picker)
                        THEN "verify" ELSE "idle"
        /\ UNCHANGED <<Peerless, cache, disk, queued, posted, faults>>

\* async_verify_piece, at the end of the same handler
AsyncVerifyPiece ==
    /\ net = "verify"
    /\ net' = "idle"
    /\ jobs' = Append(jobs, [kind |-> "hash"])
    /\ UNCHANGED <<network, cache, disk, queued, posted, bad, faults>>

\* incoming_reject_request
IncomingReject(p) ==
    /\ Idle(p)
    /\ \E b \in Entries(Here, p) : Becomes(Rejected(Here, {<<p, b>>}, parole))
    /\ UNCHANGED <<receiving, Peerless, net, storage, bad, faults>>

\* on_choke: clear_request_queue, and without the FAST extension all is rejected
IncomingChoke(p) ==
    /\ Idle(p)
    /\ LET s == IF p \in parole THEN Here ELSE Withdrawn(Here, {p})
       IN  Becomes(IF p \in Fast THEN s ELSE Rejected(s, {p} \X Entries(s, p), parole))
    /\ UNCHANGED <<receiving, Peerless, net, storage, bad, faults>>

\* snub_peer: requests not sent are wiped out, one block is picked at most, and a
\* request that keeps the piece from completing is timed out
SnubPeer(p) ==
    /\ Idle(p) /\ Entries(Here, p) # {} /\ p \notin parole
    /\ LET s == Withdrawn(Here, {p}) IN
       \E pick \in {{}} \cup {{b} : b \in IF uploadMode THEN {} ELSE Offered(s, p)} :
         LET t == IF pick = {} THEN s ELSE Requested(s, p, CHOOSE b \in pick : TRUE)
             live == {b \in Blocks : t.dq[p][b] = "live"}
         IN  IF live = {} \/ (~t.picker.have /\ Sum(t.picker) < NumBlocks)
             THEN Becomes(t)
             ELSE \E b \in live : Becomes([t EXCEPT !.dq[p][b] = "timed_out",
                                                    !.picker = Abort(@, {<<p, b>>})])
    /\ UNCHANGED <<receiving, Peerless, net, storage, bad, faults>>

\* A write belongs to the connection that received the block, and is reported to it
\* whether it is closed or not.  remove_peer cuts a connection from its policy::peer,
\* and a peer that comes back has a new one, so the writes under way are orphans.
\* As those of a block are reported in order, counting them is enough
Reports(s, p, b) == {i \in DOMAIN s : /\ s[i].kind = "write"
                                      /\ b \in DOMAIN s[i].by /\ s[i].by[b] = p}
Waiting(p, b) == {i \in DOMAIN jobs : /\ jobs[i].kind = "write"
                                       /\ jobs[i].block = b /\ jobs[i].by = p}
UnderWay(p, b, s) ==
    Cardinality(Waiting(p, b)) + (IF cache[b].by = p THEN 1 ELSE 0)
        + Cardinality(Reports(queued, p, b)) + Cardinality(Reports(s, p, b))

\* the connections of C are closed, with the completions s still to be handled
Orphaned(left, C, s) ==
    [p \in Peers |-> IF p \in C THEN [b \in Blocks |-> UnderWay(p, b, s)] ELSE left[p]]

\* disconnect, and a later connection to the same peer
Disconnect(p) ==
    /\ Idle(p)
    /\ Becomes(Disconnected(Here, {p}))
    /\ conn' = conn \ {p}
    /\ receiving' = [receiving EXCEPT ![p] = NoBlock]
    /\ orphans' = Orphaned(orphans, {p}, posted)
    /\ UNCHANGED <<banned, parole, uploadMode, net, storage, bad, faults>>

Connect(p) ==
    /\ net = "idle" /\ p \notin conn /\ p \notin banned
    /\ conn' = conn \cup {p}
    /\ UNCHANGED <<picker, rq, dq, receiving, banned, parole, cancelled, uploadMode,
                   orphans, net, storage, bad, faults>>

\* erase_peer, by erase_peers or a new filter, of a peer that is not connected: what
\* is known of it is forgotten, and clear_peer takes it out of the picker
ErasePeer(p) ==
    /\ net = "idle" /\ p \notin conn
    /\ picker' = ClearPeer(picker, p)
    /\ banned' = banned \ {p} /\ parole' = parole \ {p}
    /\ UNCHANGED <<rq, dq, receiving, conn, cancelled, uploadMode, orphans,
                   net, storage, bad, faults>>

\* set_upload_mode(false), by the user or after optimistic_disk_retry
LeaveUploadMode ==
    /\ net = "idle" /\ uploadMode
    /\ uploadMode' = FALSE
    /\ UNCHANGED <<picker, rq, dq, receiving, conn, banned, parole, cancelled,
                   orphans, net, storage, bad, faults>>

----------------------------------------------------------------------------
(* The network thread: completions                                         *)

\* the completion at the head; the thread stays in the batch until its last one.
\* The blocks of one flush are reported in order, each by a call of its own
Completion(kind) ==
    /\ net \in {"idle", "batch"} /\ posted # <<>> /\ Head(posted).kind = kind
    /\ UNCHANGED <<jobs, cache, disk, queued, bad, faults>>

Handled == /\ posted' = Tail(posted)
           /\ net' = IF Head(posted).last THEN "idle" ELSE "batch"

Verdict == Completion("hash") /\ Handled

WriteReport(b, ok) ==
    LET by == Head(posted).by IN
    /\ Completion("write") /\ Head(posted).ok = ok
    /\ b \in DOMAIN by /\ \A c \in DOMAIN by : b <= c
    /\ IF DOMAIN by = {b} THEN Handled
       ELSE /\ posted' = [posted EXCEPT ![1].by = [c \in DOMAIN by \ {b} |-> by[c]]]
            /\ net' = "batch"

\* the peer_info_struct() of the connection a write is reported to
PeerInfo(b) == LET p == Head(posted).by[b] IN IF orphans[p][b] > 0 THEN NoPeer ELSE p
OrphansLeft(b) == [orphans EXCEPT ![Head(posted).by[b]][b] = IF @ > 0 THEN @ - 1 ELSE 0]

\* the connections of C end, while the completions s are still to be handled
Drop(s, C, left, still) ==
    /\ Becomes(Disconnected(s, C))
    /\ conn' = conn \ C
    /\ receiving' = [p \in Peers |-> IF p \in C THEN NoBlock ELSE receiving[p]]
    /\ orphans' = Orphaned(left, C, still)

\* on_disk_write_complete
WriteComplete ==
    /\ \E b \in Blocks : /\ WriteReport(b, TRUE)
                          /\ picker' = MarkFinished(picker, b, PeerInfo(b))
                          /\ orphans' = OrphansLeft(b)
    /\ UNCHANGED <<rq, dq, receiving, conn, banned, parole, cancelled, uploadMode>>

\* on_disk_write_complete, handle_disk_error: out of memory costs the peer its
\* connection, a full or read-only disk starts upload mode, the rest is a pause
DiskErrorOnWrite ==
    /\ \E b \in Blocks :
         /\ WriteReport(b, FALSE)
         /\ LET s == [Here EXCEPT !.picker = WriteFailed(@, b)] IN
            \/ \E C \in {conn \cap {PeerInfo(b)}, conn} :
                 Drop(s, C, OrphansLeft(b), posted') /\ UNCHANGED uploadMode
            \/ /\ uploadMode' = TRUE
               /\ Becomes(IF uploadMode THEN s ELSE CancelledAll(s, conn, parole))
               /\ orphans' = OrphansLeft(b)
               /\ UNCHANGED <<conn, receiving>>
    /\ UNCHANGED <<banned, parole>>

\* on_piece_verified, piece_finished: a piece that is no longer finished is left alone
StaleVerdict ==
    /\ Verdict /\ Head(posted).ret # "error" /\ ~IsPieceFinished(picker)
    /\ UNCHANGED network

\* get_downloaders: a peer that is gone counts as one contributor nobody can name
Downloaded == {picker.peer[b] : b \in Blocks}
Contributors == Downloaded \ {NoPeer}

PiecePassed ==
    /\ Verdict /\ Head(posted).ret = "pass" /\ IsPieceFinished(picker)
    /\ picker' = [Erased(picker) EXCEPT !.have = TRUE]
    /\ parole' = parole \ Contributors
    /\ UNCHANGED <<rq, dq, receiving, conn, banned, cancelled, uploadMode, orphans>>

\* piece_failed: the only contributor is banned, others may be by their trust points
PieceFailed ==
    /\ Verdict /\ Head(posted).ret = "fail" /\ IsPieceFinished(picker)
    /\ parole' = parole \cup Contributors
    /\ \E B \in SUBSET Contributors :
         /\ Cardinality(Downloaded) = 1 => B = Contributors
         /\ banned' = banned \cup B
         /\ conn' = conn \ B
         /\ receiving' = [p \in Peers |-> IF p \in B THEN NoBlock ELSE receiving[p]]
         /\ orphans' = Orphaned(orphans, B \cap conn, posted)
         /\ LET s == Disconnected(Here, B \cap conn) IN
            \E last \in Downloaders(s, conn \ B) : Becomes(Restored(s, conn \ B, last))
    /\ UNCHANGED uploadMode

\* handle_disk_error for the hash job pauses, or does nothing when out of memory
DiskErrorOnHash ==
    /\ Verdict /\ Head(posted).ret = "error"
    /\ \E C \in {{}, conn} :
         LET s == Disconnected(Here, C) IN
         /\ conn' = conn \ C
         /\ receiving' = [p \in Peers |-> IF p \in C THEN NoBlock ELSE receiving[p]]
         /\ orphans' = Orphaned(orphans, C, posted)
         /\ IF IsPieceFinished(s.picker)
            THEN \E last \in Downloaders(s, conn \ C) : Becomes(Restored(s, conn \ C, last))
            ELSE Becomes(s)
    /\ UNCHANGED <<banned, parole, uploadMode>>

----------------------------------------------------------------------------
(* The disk thread                                                         *)

Cached == {b \in Blocks : cache[b] # NoData}
Report(S, ok) == [kind |-> "write", ok |-> ok, by |-> [b \in S |-> cache[b].by], last |-> FALSE]

\* flush_range: a failed write is reported for every block of the range, though
\* some of it (W) may have reached the file
FlushRange(S, ok, W) ==
    /\ W \subseteq S /\ (ok <=> W = S)
    /\ faults' = IF ok THEN faults ELSE faults + 1
    /\ faults' <= MaxFaults
    /\ disk' = [b \in Blocks |-> IF b \in W THEN cache[b] ELSE disk[b]]
    /\ cache' = [b \in Blocks |-> IF b \in S THEN NoData ELSE cache[b]]

\* flush_expired_pieces, or to make room
Flush ==
    /\ \E i, j \in Blocks, ok \in BOOLEAN :
         LET S == Cached \cap (i .. j) IN
         /\ S # {}
         /\ \E W \in SUBSET S : FlushRange(S, ok, W)
         /\ queued' = Append(queued, Report(S, ok))
    /\ UNCHANGED <<network, net, jobs, posted, bad>>

\* a write job: into the cache.  Were the block cached already, the older write's
\* callback would be swapped into this job and reported as done
WriteJob ==
    /\ jobs # <<>> /\ Head(jobs).kind = "write"
    /\ LET j == Head(jobs) IN
       /\ cache' = [cache EXCEPT ![j.block] = [good |-> j.good, by |-> j.by]]
       /\ queued' = IF j.block \in Cached THEN Append(queued, Report({j.block}, TRUE)) ELSE queued
    /\ jobs' = Tail(jobs)
    /\ UNCHANGED <<network, net, disk, posted, bad, faults>>

\* what a hash job reports: its own result after the writes it had to flush
Verified(ok, ret) ==
    Append(IF Cached = {} THEN queued ELSE Append(queued, Report(Cached, ok)),
           [kind |-> "hash", ret |-> ret, last |-> FALSE])

\* the blocks of the piece, read back one at a time, have the hash of the metadata
AllButLast(d) == \A b \in Blocks \ {NumBlocks - 1} : d[b].good  \* mutant of HashMatches
HashMatches(d) == \A b \in Blocks : d[b].good

\* a hash job: the cached blocks are flushed, then the piece is read back
HashJob ==
    /\ jobs # <<>> /\ Head(jobs).kind = "hash"
    /\ \E ok, readable \in BOOLEAN : \E W \in SUBSET Cached :
         /\ FlushRange(Cached, ok, W)
         /\ readable \/ \E b \in Blocks : disk'[b] = NoData
         /\ queued' = Verified(ok, IF ~readable THEN "error"
                                   ELSE IF HashMatches(disk') THEN "pass" ELSE "fail")
    /\ jobs' = Tail(jobs)
    /\ UNCHANGED <<network, net, posted, bad>>

\* the queued completions are posted as one batch: when the job queue is empty, or
\* when thirty have gathered, those of other pieces included
PostCompletions ==
    /\ queued # <<>>
    /\ posted' = posted \o [queued EXCEPT ![Len(queued)].last = TRUE]
    /\ queued' = <<>>
    /\ UNCHANGED <<network, net, jobs, cache, disk, bad, faults>>

----------------------------------------------------------------------------
Peer(p) ==
    \/ RequestABlock(p) \/ SendBlockRequest(p) \/ StartReceivePiece(p)
    \/ \E good \in BOOLEAN, skipped \in SUBSET Blocks : IncomingPiece(p, good, skipped)
    \/ IncomingReject(p) \/ IncomingChoke(p) \/ SnubPeer(p)
    \/ Disconnect(p) \/ Connect(p) \/ ErasePeer(p)

Complete ==
    \/ WriteComplete \/ DiskErrorOnWrite
    \/ StaleVerdict \/ PiecePassed \/ PieceFailed \/ DiskErrorOnHash

Disk == WriteJob \/ HashJob \/ PostCompletions

Next ==
    \/ \E p \in Peers : Peer(p)
    \/ LeaveUploadMode \/ AsyncVerifyPiece
    \/ Complete
    \/ Disk \/ Flush

Spec == Init /\ [][Next]_vars

\* both threads keep running; what the peers send is up to them.  Each action changes
\* the variable its fairness names
FairSpec ==
    /\ Spec
    /\ WF_jobs(AsyncVerifyPiece) /\ WF_posted(Complete)
    /\ WF_jobs(WriteJob \/ HashJob) /\ WF_queued(PostCompletions)
----------------------------------------------------------------------------
(* Properties                                                              *)

\* The variables have their types, no counter of the picker is negative, and the
\* bounds hold.
TypeOK ==
    /\ picker \in [have : BOOLEAN, downloading : BOOLEAN, full : BOOLEAN,
                   state : [Blocks -> {"none", "requested", "writing", "finished"}],
                   num_peers : [Blocks -> Nat], peer : [Blocks -> Peers \cup {NoPeer}],
                   requested : Nat, writing : Nat, finished : Nat]
    /\ rq \in [Peers -> SUBSET Blocks]
    /\ dq \in [Peers -> [Blocks -> {"no", "live", "timed_out", "not_wanted"}]]
    /\ receiving \in [Peers -> Blocks \cup {NoBlock}]
    /\ conn \subseteq Peers /\ banned \subseteq Peers /\ parole \subseteq Peers
    /\ cancelled \subseteq Peers \X Blocks
    /\ uploadMode \in BOOLEAN /\ net \in {"idle", "batch", "verify"}
    /\ orphans \in [Peers -> [Blocks -> Nat]]
    /\ cache \in [Blocks -> Data \cup {NoData}] /\ disk \in [Blocks -> Data \cup {NoData}]
    /\ bad \in 0 .. MaxBad /\ faults \in 0 .. MaxFaults

Having(state) == {b \in Blocks : picker.state[b] = state}

\* The counters of a downloading piece follow its blocks through every order of
\* requests, arrivals, aborts, cancels and completions: 'writing' and 'finished'
\* are exact, disk errors or not, and 'requested' is never too low.  Only after a
\* failed write may 'requested' stay too high and 'full' hide a free block
\* (piece_picker::check_invariant).
CountersExact ==
    /\ picker.writing = Cardinality(Having("writing"))
    /\ picker.finished = Cardinality(Having("finished"))
    /\ picker.requested >= Cardinality(Having("requested"))
    /\ faults = 0 =>
        /\ picker.requested = Cardinality(Having("requested"))
        /\ picker.downloading /\ picker.full => Having("none") = {}

\* Until a write fails, num_peers of a block not yet received is the number of
\* peers that have it in a queue, and it is marked as requested as long as there
\* is one: no request is forgotten, and none is left behind that keeps the block
\* from being picked (torrent::check_invariant).
RequestsCounted ==
    faults = 0 => \A b \in Blocks \ (Having("writing") \cup Having("finished")) :
        LET asking == Asking(Here, conn, b) IN
        picker.have \/ (/\ picker.num_peers[b] = Cardinality(asking)
                        /\ (IsRequested(picker, b) <=> asking # {}))

\* A peer has a block in one of its two queues at most: what it was asked for and
\* has not answered, timed out or not, is never picked again for it.
AskedOnce == \A p \in Peers : rq[p] \cap Entries(Here, p) = {}

Hashing(s) == \E i \in DOMAIN s : s[i].kind = "hash"

\* A piece whose blocks have all arrived has its hash check under way: in the hands
\* of the network thread, among the jobs, or among the completions.
VerdictPending ==
    IsPieceFinished(picker) =>
        net = "verify" \/ Hashing(jobs) \/ Hashing(queued) \/ Hashing(posted)

\* A piece we have is good on the disk, and stays so: no write of a block is still
\* on its way when the piece passes, whatever the peers send.
HaveIsGood == picker.have => \A b \in Blocks : disk[b].good

\* The peer the picker keeps for a finished block, the one that is banned when the
\* piece fails, sent the data that is on the disk.  It may be unknown when its
\* connection ended before the write did, or when it was erased since, but nobody
\* takes the blame for somebody else.
BlameTheSender ==
    faults = 0 => \A b \in Having("finished") : picker.peer[b] \in {disk[b].by, NoPeer}

\* A piece passes only when every block has been reported as written
\* (torrent::piece_passed: "make sure all blocks were successfully written before
\* we declare the piece as 'we have'").
PassedWhenWritten == [][~picker.have /\ picker'.have => Having("finished") = Blocks]_vars

\* In upload mode no block is awaited: what a peer was asked for was cancelled, or is
\* being received.
UploadModeQuiet ==
    uploadMode => \A p \in conn, b \in Blocks :
        dq[p][b] = "live" => <<p, b>> \in cancelled \/ receiving[p] = b

\* As long as no write fails, a piece whose blocks have all arrived is passed or
\* starts over.
VerdictReached ==
    IsPieceFinished(picker) /\ faults = 0 ~> ~IsPieceFinished(picker) \/ faults > 0
============================================================================
