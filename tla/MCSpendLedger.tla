--------------------------- MODULE MCSpendLedger ---------------------------
(* Instances of SpendLedger: reservations, classes, processes, anchors.    *)
EXTENDS SpendLedger, TLC

CONSTANTS v1, v2, v3, poller, smoke

One == {v1}
Two == {v1, v2}
Three == {v1, v2, v3}
Alike == Permutations(Resv)
OnePoller == {poller}
OneSmoke == {smoke}
NoProcess == {}
RuntimeOnly == {"watch_refresh"}
\* billed is a record of the platform's charges that no action reads; a run none
\* of whose properties reads it tells states apart without it.
Unbilled == <<now, anchor, cycles, held, resv, trip, proc, due, done, faults>>
AllClasses == Class
=============================================================================
