-------------------------- MODULE TrackerAnnounceMC --------------------------
(* Two trackers, one of which is given up after its first failure.  *)
EXTENDS TrackerAnnounce

CONSTANTS a, b

MCOwn == <<a>>
MCTier == [t \in {a, b} |-> 1]
MCFailLimit == [t \in {a, b} |-> IF t = a THEN 0 ELSE 1]
=============================================================================
