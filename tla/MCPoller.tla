------------------------------ MODULE MCPoller ------------------------------
(* Poller on small instances.                                              *)
EXTENDS Poller

Cells(drive, other) == [c \in Categories |-> IF c = "drive" THEN drive ELSE other]
Local(heartbeat, ebay, cell) ==
    [provider |-> "local", heartbeat |-> heartbeat, ebay |-> ebay, retired |-> FALSE, cell |-> cell]

\* eBay with its sweeps (both lanes) and without (heartbeat only), an Actor-backed
\* source, a retired one with a stray admitted cell, and one never admitted.
AllProfiles ==
    {Local(TRUE, TRUE, Cells("not_admitted", "admitted")),
     Local(TRUE, TRUE, Cells("admitted", "not_admitted")),
     [Local(FALSE, FALSE, Cells("admitted", "not_applicable")) EXCEPT !.provider = "apify"],
     [Local(FALSE, FALSE, Cells("admitted", "retired")) EXCEPT !.retired = TRUE],
     Local(FALSE, FALSE, Cells("not_admitted", "not_applicable"))}
BothLanes == {Local(TRUE, FALSE, Cells("admitted", "not_applicable"))}
=============================================================================
