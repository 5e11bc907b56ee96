# Specifications of bittorrent-windows-dll

The repository is a Windows DLL, `wintorrent`, on top of a copy of libtorrent
0.16. The DLL's class `TorrentSessionImpl` gives torrents names ("tags"), keeps
maps from tags and files to libtorrent handles, scans a directory for .torrent
files and saves resume data; libtorrent does the rest. This directory holds TLA+
specifications of the parts where order matters, the TLC configurations that
check them, and TLAPS proofs. Paths below are relative to `src/bittorrent`.

## The system

| component | state | operations | interacts with |
|---|---|---|---|
| `wintorrent/session_impl.cpp` | `torrents_`, `files_`, `non_files_`, `torrent_tags_`, `num_outstanding_resume_data_` | `add`, `del`, `pause`, `resume`, `update`, `setting`, getters, destructor | the session through posted calls and alerts; files |
| `wintorrent/tuple_map.hpp` | a set of tuples indexed by each element | `insert`, `find`, `erase` | handles as keys |
| `src/session_impl.cpp` | `m_torrents`, `m_paused`, `m_state_updates`, settings, peers | add, remove, pause, auto-manage, post updates, tick | everything; one network thread |
| `src/torrent.cpp` | paused, graceful, auto-managed and aborted flags, storage, picker, peers, trackers | pause, resume, save resume data, finish, abort | disk thread, alerts, picker, trackers |
| `src/torrent_handle.cpp` | a weak pointer to a torrent | asynchronous posts, synchronous calls | network thread |
| `src/alert.cpp` | `m_alerts`, its size limit | post, pop all, wait | network thread to application thread |
| `src/disk_io_thread.cpp`, `storage.cpp`, `file_pool.cpp` | job queue, cache, open files | read, write, hash, release, save resume data, abort | completions to the network thread |
| `src/connection_queue.cpp` | `m_queue`, `m_num_connecting`, `m_half_open_limit`, `m_timer` | `enqueue`, `done`, `close`, `limit`, `try_connect`, `on_timeout` | callbacks into peers, trackers, web seeds, SOCKS5 |
| `src/udp_socket.cpp` | SOCKS5 association, `m_outstanding_ops`, `m_connection_ticket` | bind, send, proxy handshake, close | `connection_queue`, trackers, DHT, uTP |
| `src/tracker_manager.cpp`, `*_tracker_connection.cpp` | `m_connections`, timeouts, connection-id cache | queue, receive, time out, abort | torrents, `udp_socket` |
| `src/kademlia/` | routing table, transactions, traversals | query, reply, tick, refresh | `udp_socket` |
| `src/bandwidth_*.cpp` | request queue, channel quotas | request, distribute, return | peers |
| `src/piece_picker.cpp` | block states, piece counters, availability | pick, request, write, fail, restore | peers, disk thread |
| `src/utp_stream.cpp` | sequence numbers, send and reorder buffers | send, ack, resend, close | `udp_socket` |
| `src/peer_connection.cpp`, `bt_peer_connection.cpp`, `policy.cpp` | protocol state of a peer | the BitTorrent protocol | all of the above |
| port mapping, discovery, parsing, stream adaptors, vendored code | | | |

Threads: the application's, libtorrent's network thread, which runs every handler
of the `io_service` one at a time, and the disk thread. Handlers are atomic
towards each other; what makes the program hard is what happens between them:

* a callback runs in the middle of a handler, with the lock released, and calls
  back (`connection_queue`);
* requests from the application are posted, and answered later by alerts, by
  which time the torrent may be gone, or another one may have its info-hash;
* a torrent lives as long as a queued job holds it, and handles are map keys;
* the destructor waits for a count of answers.

What makes each modelled component correct is stated in the modules as properties;
`PROJECT.json` lists the hazards, each at its line, with the properties aimed at it.

## Modules

| module | models |
|---|---|
| `ConnectionContract` | what `connection_queue` promises the owner of an attempt (abstract) |
| `ConnectionQueue` | `connection_queue.cpp`, callback by callback |
| `ConnectionQueue_proofs` | its inductive invariant, safety theorems and refinement |
| `TorrentEngine` | libtorrent's session, torrents, alerts and disk jobs as the DLL sees them |
| `WinTorrent` | `TorrentSessionImpl` and the directory it monitors, composed with `TorrentEngine` |
| `WinTorrent_proofs` | the inductive invariant of both together, types and the count of resume data |
| `WinTorrentUser_proofs` | what the application may rely on when it keeps to some limits: the last word, and that each torrent can be reached by a tag |
| `DhtTraversal` | a DHT search (`traversal_algorithm`, `find_data`, `refresh`) over `rpc_manager`'s request table |
| `DhtTraversal_proofs` | its inductive invariant and safety theorems |
| `PieceDownload` | one piece from the peers' answers to the verdict: `piece_picker`, request queues, write cache, disk thread, torrent |
| `PieceDownload_proofs` | its inductive invariants and safety theorems |
| `BandwidthManager` | `bandwidth_manager` with its channels and the peers that ask it for quota |
| `BandwidthManager_proofs` | its inductive invariants and safety theorems |
| `UdpSocket` | `udp_socket`'s association with a SOCKS5 proxy, a client of `ConnectionContract` |
| `UdpSocket_proofs` | its inductive invariant and safety theorems |
| `TrackerAnnounce` | a torrent's list of trackers, its announces, their answers and the announce timer |
| `TrackerAnnounce_proofs` | its inductive invariant and safety theorems |
| `WinTorrentMC` | constants for TLC: one torrent known by a file and by a magnet link |
| `PieceDownloadMC`, `BandwidthManagerMC`, `TrackerAnnounceMC` | the symmetry of peers; channels, memberships and limits; the list of trackers |

### ConnectionQueue

The variables are the members of the class, with `m_queue` as a set of tickets and
their positions, plus what a handler keeps on its stack while it calls out: `todo`
is `to_connect`, `timed_out` or `tmp`, `rearm` is `next_expire`. A handler is a
step up to its unlock, one step for each callback, and a step for its tail;
between them `Enqueue` and `Done` are enabled, which is what a re-entrant callback
does. `limit()` takes no lock and may come anywhere. Time is the set of started
attempts whose deadline has passed, and deadlines pass in any order: owners give
different timeouts. A posted handler is a count. `done()` on a ticket that is no
longer queued is a stuttering step, as in the code.

Run `connection_queue` (3 attempts of priority 0 or 2, limit 2 switched off and on at
will): `CheckInvariant` is the class's own `check_invariant()`; `TimerGuards` and
`NoLostWakeup` say that the single timer and the posted handlers never forget an
attempt; `FreeSlotIsOffered` that before `close()` nobody waits for a deadline beside a
free slot (free under every limit the session gives: raising the limit posts nothing);
`ImplementsContract` that owners see only the callback orders that
`connection_queue.hpp` documents; `Drains` that every attempt ends. Three attempts are
the least with one connecting, one timing out and one waiting; priority 1 differs
from 2 only in `close()` and from 0 only in its place, both of which are there.
`Drains` needs that the network thread runs its handlers, that callbacks return
and that deadlines pass; owners are under no fairness at all.

With limit 2 two attempts connect and one waits, so that `done()` and a time-out free one slot of two; with none all three
connect and the limit is then lowered below them.

What the model shows besides: a raised limit wakes nobody (the entries wait for the
next `done()`, `enqueue()` or timeout), and the timer waits for the first attempt's
deadline even when a later one has a shorter timeout.

### TorrentEngine and WinTorrent

`ioq` is the `io_service`'s queue, `jobs` the disk thread's, `alerts` the alert
queue. Every call of the DLL that posts is one step; a synchronous call can only
return when what was posted before it has run (`Synced`). `update()` pops the
alerts, then each alert is a step of its own, since the engine runs in between.
A torrent object is live while the session or a queued handler, job or completion
holds it; `SameHandle` compares handles by what they lock, so dead ones are all
equal, and `Lookups` says what a find in a map ordered by such keys may return: an entry may be missed once a key of the
map has died (`Disordered`). Insertion looks before it inserts and `erase` searches each index again, so both may
miss too: a file is then entered twice, or the entry is deleted while the index by handle still points at it.
`non_files_` is a hash set, whose live members are always found. Whether
`m_need_save_resume_data` is set is left open where it is read: every received
block sets it. Three faults end a behaviour: dereferencing the null entry of a
lookup that failed (`null_entry`), erasing `end()` in `del()` (`erase_end`), and an erased entry left in the
index by handle (`stale_index`).

| run | what it shows |
|---|---|
| `win_torrent` | a file and a magnet link of one torrent, each added once, two calls of `del`, `pause` or `resume`, one event of the swarm: counting never falls short, no torrent runs without a tag, the last `pause` or `resume` wins |
| `win_torrent_monitor` | a monitored file that is added once, by the application or by a scan of the directory, and scanned twice: no resume data is left in the queue at the end, and with the fairness below the destructor returns if nothing was asked in vain |
| `win_torrent_abort` | the assertion at `torrent.cpp:993` can fail |

Three comments disagree with the code without a run of their own. The destructor does not keep
"track of the number of resume data alerts to wait for" (`session_impl.cpp:755`): a torrent removed while its
paused or finished alert waits is counted, and no alert of it will come. And where `ScanDir` and the
metadata handler are modelled, no interleaving is needed: the loop under `session_impl.cpp:689` drops the
files that are present rather than those that are gone, and the file saved under
`session_impl.cpp:891` is entered under its tag, so the next scan adds it again.

Bounds: `MaxAdds`, `MaxEvents`, `MaxCalls` and `MaxScans` count calls and events, and
at most one state update is queued at a time. One info-hash with two names is where tags, maps
and handles disagree; torrents of different hashes share only the counter and
the queues. Two calls suffice for pause-resume, pause-del and their races with
the auto-manager; one add and two
scans for a file that is found and then dropped. `MaxAdds` holds for scans too: where a later scan would
add a dropped file once more, the model stops the application there, so such behaviours are checked up to that scan.

Fairness: the network thread and the disk thread run what is queued (weak). The
application thread inside a call is under strong fairness: a synchronous call
waits for its own handler, however much is posted behind it, while the model's
`Synced` waits for an empty queue. The application is not obliged to call anything.

`EnoughAwaited` bounds the counter from below; the equation would not hold. `CleanShutdown` says that the only way for the
destructor to hang is a count that is too high when it starts to wait.

Left out, since no property depends on it: rate limits and other settings that are posted
after an add, `delete_files`, torrents added by http URL (they change their key
in `m_torrents`), SSL certificates, error states, checking, the alerts the DLL
ignores (they matter only by filling the queue, so it may be full at any time),
and `state_update` alerts that name no torrent.

### DhtTraversal

A node stands for its observer, and its number for its distance to the target.
The sets `queried`, `alive`, `short` and `reported` are the observers' flags
(`flag_failed` is never read); `results` is `m_results`, which is sorted, so that
"the closest" is said with `Closer`; `transactions` is `m_transactions`, whose order
is the order of sending, kept in `sentAt`. A reply is one step: the names it brings, `finished()`,
the new requests and, when none is out, `done()`. `tick()` and `~rpc_manager()`
collect observers in a private list and call them one after the other: `calls` is what is
left of the list, `running` which of the two it is, and no reply comes in between. The
socket may refuse any message; it is then counted, and not entered in the table.
`bootstrap` is `refresh` with a larger `NumTargets` and some pings at its end.

Run `dht_traversal` (four nodes, results cut to three, two target nodes, branch factor
2, both kinds of search): `InvokeCountExact` and `BranchFactorExact` say that the two
counters follow the requests whatever happens to each; `BoundedConcurrency` what the
branch factor is for; `NothingAfterDone` that results are given once and finally;
`SearchComplete` that the search stops early only when it may; `Terminates` that it does
end. Three results of four nodes is the least in which a node is cut off while its request is out and another
one remains; two targets and two requests are the least where the one that
answers is not the one that decides. Run `dht_traversal_lost`: the comment in
`~observer` is wrong for malformed replies.

Fairness: the timer calls `tick()` again and again, so a request that stays in the table
is some time 20 s old when it does (strong, for each node: a tick that finds
it too young, or the steps of another one, may come in between); a thread
that has begun a list goes through it (weak). Nobody has to answer.

What the model shows besides: the comment in `observer.hpp` that `abort()` sends no new
messages holds because `rpc_manager` refuses them, but `refresh` counts them as sent;
`Terminates` therefore ends with the DHT's stop.

Left out: the routing table (the nodes a search starts with are any set), tokens and
peers, random ids for routers, `restrict_search_ips` (a refused node is one that was not
named), several searches at once (they share only the table), observers that cannot be allocated.

### PieceDownload

One piece, its blocks and the peers that have it. `picker` is what `piece_picker` keeps: the
state of each block (none, requested, writing, finished), the peer kept with it,
`num_peers`, the counters `requested`, `writing` and `finished`, `full`, and whether the
piece is downloading at all. `rq` and `dq` are the two queues of a connection, `receiving` its
partly received block; `conn`, `banned` and `parole` what the policy knows of it. `net` says where the network thread
is: idle, in the middle of a batch of completions, or about to ask for the hash check, which
`incoming_piece` does after the write is queued. The disk thread
has `jobs`, `cache` (with the peer that sent each block), the file itself (`disk`), the completions it
has `queued` and those it has `posted`; one posted batch is handled without a pause, each
completion as a step of its own. A write completion names the blocks of a flush; the blocks
of a job that is merged into a cached piece are reported with it, as `flush_range` does.
A flush that fails may have written any of its blocks. `uploadMode` is entered by a disk error and left at any time.

A write outlives its connection: the completion is still reported to it, but `remove_peer()` has called
`set_peer_info(0)` (`torrent.cpp:4373`), so `mark_as_finished()` keeps a null peer with the block. `orphans` counts such
writes for each peer and block; `PeerInfo` is null while there are any. A count is enough, because the writes of a block are
reported in the order they were queued, and the orphans come before those of the peer's next connection. `ErasePeer` is the policy forgetting a
peer that is away, which takes it out of the picker (`clear_peer`). `Downloaded` is the set that `piece_failed()` builds: a
null peer counts in it, so that the one other peer of a piece is not banned as its only source (`torrent.cpp:3335`, 3389).

| run | instance | what it shows |
|---|---|---|
| `piece_download` | two peers, two blocks, one bad block | the counters follow the blocks (`CountersExact`), `num_peers` follows the queues (`RequestsCounted`), a block is in one queue of a peer (`AskedOnce`), a complete piece has its hash check on the way behind its writes (`VerdictPending`), what we have is good (`HaveIsGood`), the peer kept for a finished block, if one is, sent the data on the disk (`BlameTheSender`) |
| `piece_faults` | two peers, one of them with FAST, one block, one failed flush or read | in upload mode no block is awaited: what was asked for was cancelled, or is being received (`UploadModeQuiet`), and every complete piece gets a verdict (`VerdictReached`) |
| `piece_passed` | one peer, two blocks, one failed flush | the assertion of `piece_passed()` can fail: a write fails after the hash job was queued and is reported before its verdict; the block comes again, with a second hash job; the first job's failure restores the piece, its blocks are asked for once more, and the second job, whose file is complete, passes it while a copy sent again is being written (`PassedWhenWritten`; without a fault it is proved) |

Two peers are the least at which a block is asked of two, arrives twice, and is blamed on
the wrong one; two blocks the least at which one is written while the other is out. Bad data
and faults are bounded by `MaxBad` and `MaxFaults`, which is what makes the runs finite; nothing else is counted.
`piece_download` follows behaviours with at most one bad block or one entry of the download queues that timed out or
that nobody asked for, with such entries or orphans but not both at once, and, after a bad block, with no peer away but
the banned ones (`FewStrays`). The invariants are proved without that bound.
`BlameTheSender` accepts a null peer, since the code may not know any more; what it forbids is that one peer is kept for
the data of another.
`CHECK_DEADLOCK` is off because all peers may end up banned.
Fairness (`VerdictReached`): the network thread handles what is posted and comes back from
`incoming_piece`, the disk thread takes its jobs and posts what it gathered (weak, for each).
No peer has to send anything.

What the model shows besides. In end game, when a block arrives that was asked of two peers, the CANCEL that
the comment at `peer_connection.cpp:2589` promises is never sent: `mark_as_writing` has run by
then, and `cancel_request` returns unless the block is requested (`IncomingPiece` therefore
leaves the other peer's request alone). After one failed write, a late block may be written over a
piece that has passed, so that with a bad block `HaveIsGood` fails too. With two faults a piece
may be completed by a late completion alone, and then nobody asks for its hash check: only
`incoming_piece` does. `full` is kept when a piece stops downloading, and hides its free
blocks when a late completion reopens it.

Left out: `prioritize_partials` (`piece_picker.cpp:1414-1429`, 1592-1602; `Offered` is the rule without it, and no
property depends on which of them offers a block), which piece and how many blocks a peer asks for (so `RequestABlock` and
`SendBlockRequest` are steps of their own, though a handler usually takes several), other
pieces (the torrent never becomes a seed), time-critical pieces, `add_piece()` of the API,
speed categories and queue sizes, the partial-hash cache, reads. A peer is unchoked, and the torrent resumed, when the
model lets it connect or ask again.

### BandwidthManager

The manager of one direction with the variables of `bandwidth_channel` and, of each peer, its quota and the
two bits of `m_channel_state` that matter. `queue` maps a peer to its request;
that there is only one is `FlaggedIffQueued`'s matter. `Tick` is `update_quotas()` from its
first loop to its last callback: a callback raises the peer's quota, so
`setup_receive()` starts a read rather than ask again, and the read's handler comes later. The
order of the queue has no influence: shares are computed from totals taken before.
Divisions and the rounding of `update_quota()` are the code's. `ttl` stops at 0, since only `<= 0` is asked.
A disconnected peer does not come back under its name.
Peers are numbered, in any order, so that a sum over some of them can be taken along their numbers (`UpTo`, a
recursive function); each sum stands for a loop of the code over the queue.

Run `bandwidth` (two peers, the session's channel switched between unlimited and 5 B/s, a torrent's
channel of 1 B/s, ticks of half a second and of four seconds, which the code cuts to three):
`CheckInvariant` is the class's own; `NeverOverdrawn` says that grants never exceed
what a channel has, so it is in debt at most by the `overhead` that is charged without asking;
`FlaggedIffQueued` that no peer is forgotten or queued twice; `Answered` that everybody
who waits is served. Requests of 3 bytes need several ticks of the slow channel and one of the
fast; two rounds of `ttl` (20 in the code) suffice to serve a request in part; one
change of a limit and one byte of overhead keep the run finite (`MaxSettings`, `MaxOverhead`).
Fairness: the session's timer ticks (weak). Peers need not do anything.

`Answered` depends on the rates of the run: what a tick brings, times the lowest priority, is at least the sum of the
priorities. With 2 B/s and priorities 1 and 3 TLC finds a behaviour in which one peer's share
is rounded to nothing in each tick while the other asks again and again. The comment at
`bandwidth_queue_entry.hpp:57`, that `ttl` ensures answers at very low rates, holds only for requests
that have been granted something; with torrent priorities, which are shifted by eight bits, the rates
at which this happens are not so low.

### UdpSocket

The session's UDP socket sends through a SOCKS5 proxy over a TCP connection, `m_socks5_sock`. Each change
of the settings and each hang-up begins an *association*: a name lookup, an attempt of the
`connection_queue` (of which `UdpSocket` sees `ConnectionContract`: `stage`), a connect, a handshake of writes and
reads and at last a read that waits for the proxy to hang up. Nothing withdraws the old one: the model
keeps for every association whether its lookup is to come, the stage of its attempt, and the
operation it has started (`op`) with how it ended (`outcome`), while `ticket`, `tunnel`, `queueing` and
`ops` are the members they share. `carrier` is the association whose connection `m_socks5_sock` is; an operation
started without a connection fails, and so does a connect while the socket has another. `Completes`
and the handler are two steps, because a close in between changes nothing any more, and a time-out in
between does. `strays` is a history variable: references that `on_connected()` gave back without a ticket.
`session_impl::abort()` closes the queue, which calls every `on_timeout`, and later the socket, in one
handler: between `Abort` and `Close` no other handler runs.

Run `udp_socket` (two associations, one packet; the least at which an old attempt's callbacks meet the new
one's members): `OpsExact` counts the handlers to come, `TypeOK` includes that `done()` is called
only for an attempt that may be ended, `NeverBypassed` says that no packet
slips past a configured proxy while its tunnel is rebuilt, and that none is overtaken by a tunnelled one,
`Released` that the last handler after `close()` clears the callback. Fairness: the `io_service` runs what
is posted, cancelled operations and lookups included, and `abort()` goes on to the end (weak, for each
association). Nothing is assumed of the proxy, the queue or the network. `CHECK_DEADLOCK` is off because a
closed socket stops.

What the model shows besides. `OpsExact` is stated with `strays` because the count alone is not exact: the connect
completes, `on_timeout()` runs before `on_connected()`, and both give the same reference back, the second against the
comment at `udp_socket.cpp:841` (TLC refutes `strays = 0` in six steps with one association). From then on
`m_outstanding_ops` is one too low: the callback may be cleared while a handler is still to come, or
the count may pass zero by and leave a closed socket unreleased, which is why `Released` excepts it. The ticket may be forgotten by an older
association's time-out too; the attempt it named then holds its slot of the queue until its own time-out.

Left out: binding and rebinding, wrapping and unwrapping packets, buffer sizes, the IPv6 socket (it is read like the
other), errors a read recovers from, and the send quota of `rate_limited_udp_socket`.

### TrackerAnnounce

`order` is `m_trackers` as a sequence of names, `entry` what it holds of each, `requests` the events of the
requests that are out to each. Times count down, as `next` and `min` do to 0, "now or
earlier"; the timer's expiry may also be before now (`Past`) or `max_time()` (`Never`), since
`update_tracker_timer()` compares it with the time it is about to set. `pending` is a wait on the timer,
`posted` its handler, which a cancel no longer reaches. `Asked` and `Awaited` say
as sets whom the loops of `announce_with_tracker()` and `update_tracker_timer()` pick. Both are called in the middle of
most handlers: `AnnounceWithTracker` takes the list and the requests as the handler has left
them. `missed`, `worked` and `slipped` are history variables: the torrent returned from announcing without arming its
timer; who answered last; a tracker was inserted where `m_last_working_tracker` points.

Run `tracker_announce` (a torrent with tracker `a`, and `b`, given up after one failure, added at any time in
front of it or in its tier; two calls of the user or the auto-manager): `UpdatingExact` says that `updating` follows the
requests, `LastWorkingNamed` that `m_last_working_tracker` follows the tracker that answered, `Awake` that no
wake-up is lost, `Failover` that a tracker is asked again and again unless another keeps answering. Two trackers are the
least that change places, stand in for each other and fail over; two calls suffice for a pause
and a resume around a request, or for a turn denied and given back. Intervals and delays are one unit, the
least time between announces two, so that each of the two decides somewhere. `fails` wraps at 2
rather than 128 (`FailWrap`). Each answer or failure may come at any time. `CHECK_DEADLOCK` is off
because an aborted torrent stops.

Fairness: the timer fires, its handlers run, time passes, and a request to a tracker is answered or fails,
because the connection times out in the end (weak, per tracker). `Tick` waits for posted handlers: a unit stands for
many seconds.

What the model shows besides. `Awake` has an exception, `missed`: when the auto-manager denies the torrent its
turn, the handler returns at `torrent.cpp:2245` before the timer is armed, and giving the turn back
only sets a flag; the torrent is silent until an answer, a new tracker, its completion or
a resume. `LastWorkingNamed` has one too, `slipped`: `add_tracker()` compares with `<`, so a tracker inserted
right in front of the last working one takes its place. A stop that fails after a resume
tells the next tracker that the torrent stopped.

Left out: the graceful pause (`torrent.cpp:7009`, 7019), which the DLL asks for: it leaves `m_allow_peers` set while the
peers finish, and for announcing it is the paused state that is modelled. Also the connections that carry the requests, scrapes, tracker ids, logins and anonymous mode,
`announce_to_all_trackers` and `announce_to_all_tiers` (off by default), `replace_trackers()`, `force_recheck()`,
magnet links before their metadata, files selected after finishing, a session-wide pause, and announcing to the DHT and the local network.

## Proofs

`ConnectionQueue_proofs` proves, for any number of attempts, any limits and any
priorities, from the named assumptions on the constants only: `TypeCorrect`,
`CheckInvariantHolds`, `TimerGuardsHolds`, `NoLostWakeupHolds`, `FreeSlotIsOfferedHolds` and
`ContractHolds`. None of the invariants is inductive by itself. `IInv` adds: `Held`,
where the entries a handler holds in its private list are (not queued while timing
out or closing, just started while connecting); `TimerOwed`, that a running
`on_timeout` guards only if it has found a deadline to re-arm for;
`ClosingOwed`, that what `close()` holds in `tmp` is still owed a timer or a wakeup, which
`FreeSlotIsOffered` gives it. One lemma
per action shows that it preserves `IInv`; `TryConnectEffect` states once what
`try_connect()` does, for its two callers. `ContractHolds` is the refinement: the
stage of an attempt as its owner sees it follows `ConnectionContract`.

`DhtTraversal_proofs` proves, for every finite set of nodes and all positive bounds,
`TypeCorrect`, `InvokeCountHolds`, `BranchFactorHolds`, `BoundedConcurrencyHolds`,
`NothingAfterDoneHolds` and `SearchCompleteHolds`. `IInv` is the conjunction of those
properties with `Held` (what is in the table or in a list has been asked and not reported)
and `InvokeBound` (`m_invoke_count` stays at or below `m_branch_factor` until the DHT is
stopped), from which `BoundedConcurrency` follows with `BranchFactorExact`.
`ReportIInv` is the heart: one request ends, its branch factor is given back, others are
asked, and the search may be over. It serves replies, both kinds of failure and
aborts. It needs that `NextToAsk` asks no more than the branch factor allows
(`FewRanks`: numbering a set by `Closer` is an injection) and asks somebody if anybody is
open (`LeastExists`), which is what makes a search that is over complete.

`PieceDownload_proofs` proves, for all finite sets of peers, any number of blocks, any
`Fast` and `DropSkipped` and any bounds: `TypeCorrect`, `NeverAskedTwice`, `PickerCounts`, `PeersCounted`,
`BlameIsRight` and `UploadIsQuiet` with any number of disk faults; `VerdictComes`, `PassedIsGood` and
`WrittenBeforePassed` when `MaxFaults` is 0, since one fault refutes the last (run `piece_passed`). The only assumption is `PieceAssumption`. There
are three inductive invariants. `TInv` holds whatever the disk does: `Ready`, which describes the picker and the
queues between two handlers; `PipeType` and `PeerType`, the types of the disk's side and of the peers'; `Silent`,
what peers that are gone no longer have. `GInv` adds what holds until a flush or a read fails: `Exact`
(the counters), `Numbered` (`num_peers`), `Flow`, that each write under way is in exactly one
of the job queue, the cache, the queued and the posted completions, and a block is
`writing` exactly while it is; `Behind`, that a hash check is under way exactly when all blocks
have arrived, and behind every write; `Told`, that completions tell the truth about
the disk and that the peer kept for a finished block is null or the one whose data is there.
`EraseFlows` and `WriteCompleteFlows` are where a peer is lost; neither puts another in its place. Counters are cardinalities, so a block that changes its state moves one element between two
sets; the heart of the proof is that a step of the disk thread moves a write from one place to the next
and that the network thread's handlers take it out. Helpers that change one record (`MarkWriting`, `Abort`, `Restored`, ...)
have a lemma each, which the actions' lemmas cite. `UInv` adds to `TInv` that in upload mode every request that
is awaited was cancelled or is being received (`Hushed`). Most handlers keep it because they await no more than before and
forget no cancellation of what they still await (`Fewer`, an order on what a handler leaves behind, with a lemma for each
helper); a peer that leaves takes its block with it, and its requests (`LeaveHushed`). The property is about requests that
were sent: a peer that is on parole keeps those it has not sent when it is choked or the mode is entered
(`Rejected`), and may have some in `rq` when it comes off parole; they are not sent in upload mode. Before it was proved, `GInv` was checked by TLC on one peer with
two blocks and a fault, and on two peers without.

`BandwidthManager_proofs` proves, for any number of peers, any channels, limits, sizes, priorities and
ticks: `TypeCorrect`, `FlagsMatchQueue`, `QueuedBytesExact` and `GrantsWithinQuota`. `IInv` carries the flags;
`BInv` adds types, that no request has been granted more than its size, the counter and the
quota. What a tick does to the counter is a difference of two sums, request by request
(`SumMinus`); that shares of a channel do not add up to more than what is distributed is
`SumLeq` with the total weight as a factor: a share times the weight is at most the priority times
what is distributed, so the same holds of the sums, and a sum of priorities is the weight. Sums
are taken by induction on the number of peers. `Induction` is stated with a set instead of
a predicate and proved by cardinality: if a set that contains 0 and every successor missed a
number, adding one would map the part of it below that number into itself without 0.

`UdpSocket_proofs` proves, for any number of associations and packets, `TypeCorrect`, `OpsCounted` and
`ProxyNeverBypassed`. `IInv` adds to the three invariants `Fresh` (an association has no operation before its attempt
is started) and `Quiet` (no attempt outlives `close()`, since the queue is closed first), on which the count depends: were an
attempt left over, `on_connect()` would find `m_abort` set, give its reference back without calling `done()`, and the time-out would
give it back again. For the
count each action moves one element in or out of the lookups, the attempts or the operations; `CountKept` turns what
an action does to the three sets into `OpsExact`.

`TrackerAnnounce_proofs` proves, for any trackers, tiers, limits, delays and times, from the named
assumptions on the constants: `TypeCorrect`, `MarksExact`, `LastWorkingFollows` and `NoWakeUpLost`. `IInv` is
`ListOK` (the list holds each known tracker once, sorted by tiers, and `m_last_working_tracker` is an index of
it), `Asks` and `Exact` (how many requests are out to whom), `Names`, `SwitchOK` (which of the torrent's flags go together) and
`TimerOK`, with `Clock`: unless a turn was missed, a torrent that announces has its timer set to the time of its next
announce, and waiting, or its handler is posted and the next announce is due. `Clock` survives announcing because whoever
is still awaited afterwards is not due (`NotDue`), and the passing of time because it takes the next announce and the timer down
together (`NextTick`). `Awake` follows with `SomeoneAsked`: when no announce is to come although
a tracker has not been given up, a request is out.
`MovedInTier` and `InsertedInTier` are the lemmas about the list: what a swap within a tier, a shift to its end and an
insertion do to the order and to indices into it.

`WinTorrent_proofs` proves, for any tags, info-hashes, monitored files and bounds, from
`TagsAssumption`, `MaxAddsAssumption` and `MonitoredAssumption`: `TypeCorrect`, `NoneForgotten` (`EnoughAwaited`)
and `NoneLost` (`NoResumeDataLeft`). `IInv` is `EngineOK` and `MapsOK` and says that a closed session awaits nothing.
`EngineOK` says what may stand in the four queues between the threads (`HandlersOf`, `JobsOf`, `AlertsOf`:
each names a torrent that has been made), that the torrents made and the requests to add one are no more than the
calls of `add` so far (so `Objs` is never exhausted), and that `outstanding` is at least the number of results under way.
`EnoughAwaited` is not inductive alone: a handler or job that names no torrent, or of an unknown kind, could
turn into a result. The numbers are `Count(queue, kinds)`, a cardinality of places, with a lemma for each thing
done to a queue (`CountAppend`, `CountTail`, `CountConcat`, ...); `Fits` packs the bounds into one predicate on
values, so that the lemmas `FitsRun`, `FitsPost`, `FitsJobs`, `FitsAlerts` hold of any queues. Each step of the
engine and of the application has its lemma above those; a request moves from `ioq` to `jobs`, back to `ioq`, to
`alerts` and to `batch`, and is taken off the count where it leaves the last.

`WinTorrentUser_proofs` adds, for `Monitored = {}`, `LastWordKept` (`LastWordWins`): pausing or resuming a torrent
has the last word over the auto-manager. The hypothesis is needed: a scanned directory pauses what it finds
(`session_impl.cpp:705`), without asking the application. `WInv` is `IInv` and `Granted(ioq, o, torrent[o], ...)`
for every torrent made: the last request in `ioq` that concerns `auto_managed` is the one the wish calls for, or there is
none and the flag already has that value; for a pause, the last deciding request of any kind is `pause_gracefully`, or there
is none and the torrent is paused (`AutoEnds`, `PauseEnds`). A torrent not yet made has no wish, because no entry of
`torrents_` names it. `Final` and `Absent` say which element of a queue is the last of its kind; their lemmas are about
what running the head and posting more do to that. The auto-manager only steps in where `auto` is set, hence where the
request that clears it is still to run, or no pause was wished for.

It also has `AllReachable` (`NoOrphan`), from the hypothesis `MaxAdds = 1`: each tag is added at most once. Beyond that
it is false: when a tag is added again before it is deleted, the insertion at `session_impl.cpp:943` fails, since the tag still
has the entry of the first torrent, and the second is left without one. `OInv` is `IInv` and four facts. A tag is a request to add, an alert that
one was added, or an entry no more often than it was asked for (`Used`). Entries have different tags, and
`torrent_tags_` leads from each to itself. `batch` is empty outside `update()`. Until the session closes each listed torrent is
`Covered`: it has an entry, its alert is on the way, or its removal is. With one addition for each tag, an alert
that is read finds no entry of its tag, so it makes one of its own. Every other step passes requests and alerts on; `PassH`
and `PassA` say what it may do to a queue: add no addition, and lose no removal and no news of an addition.

Only model-checked: `Drains`, `CleanShutdown`, `Terminates`, `VerdictReached`, `Answered`, `Released` and `Failover`: liveness, which the
prover does not do. The invariants and action properties that the runs check are all proved, two of them under the hypotheses on
`Monitored` and `MaxAdds` above and three for `MaxFaults = 0`; those of the runs that expect a violation are of course not.

## Plan

1. `TrackerManager` under `TrackerAnnounce`: transaction ids, timeouts and the connection-id cache.
2. `UtpSequence`: the 16-bit sequence arithmetic and the reorder buffer.

## Not modelled

`PROJECT.json` gives the reason for each component. In short:

* Peers and policy as a whole: handshakes, bitfields, choking and uploading have a state too large to be
  checked with profit; what they share with the disk and the rate limiter is in
  `PieceDownload` and `BandwidthManager`.
* Parsing, formatting, metadata and resume-data formats: sequential and within reach of tests.
* Port mapping, local discovery, stream adaptors: linear exchanges with devices outside the program.
* Vendored code (`mpi.c`, `puff.cpp`, `GeoIP.c`, `ConvertUTF.cpp`, `sha1.cpp`), bindings, examples
  and build files.

That is why the models stand for a small part of the repository's lines: most of libtorrent
is protocol text, parsing and settings, and the parts modelled are those where threads, callbacks,
counters and late answers meet.
