-------------------------- MODULE BandwidthManagerMC --------------------------
(* Two peers share the session's channel; one of them belongs to a torrent with a  *)
(* limit of its own.                                                              *)
EXTENDS BandwidthManager, TLC

CONSTANTS session, torrent

MCMemberships == <<{session, torrent}, {session}>>
MCLimits == (session :> {0, 5}) @@ (torrent :> {1})
=============================================================================
