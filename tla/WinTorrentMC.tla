---------------------------- MODULE WinTorrentMC ----------------------------
(***************************************************************************)
(* Small applications for TLC: one torrent known under the name of its file  *)
(* and as a magnet link.                                                   *)
(***************************************************************************)
EXTENDS WinTorrent

CONSTANTS h1, f1, m1

OneHash   == {h1}
OneFile   == {f1}
OneLink   == {m1}
NoTags    == {}
SameHash  == [t \in {f1, m1} |-> h1]
FileHash  == [t \in {f1} |-> h1]
LinkHash  == [t \in {m1} |-> h1]

=============================================================================
