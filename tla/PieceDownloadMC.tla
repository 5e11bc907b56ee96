-------------------------- MODULE PieceDownloadMC --------------------------
(* Bounds and symmetry for the runs of PieceDownload. *)
EXTENDS PieceDownload, TLC

\* the peers differ by nothing but their names when none or all are in Fast
Symmetry == Permutations(Peers)

\* what was left behind: entries of the download queues that timed out or that nobody
\* asked for, and writes that outlived their connection
Strays == {x \in Peers \X Blocks : dq[x[1]][x[2]] \in {"timed_out", "not_wanted"}}
Orphans == {x \in Peers \X Blocks : orphans[x[1]][x[2]] > 0}

\* The run follows behaviours with at most one stray entry or one bad block, with stray
\* entries or orphans but not both at once, and, once a bad block was sent, with no
\* peer away but the banned ones.
FewStrays ==
    /\ Cardinality(Strays) + bad <= 1
    /\ Strays = {} \/ Orphans = {}
    /\ bad = 1 => conn \cup banned = Peers
============================================================================
