------------------------------ MODULE MCActorRun ------------------------------
(* Instances of ActorRun for TLC.                                           *)
EXTENDS ActorRun

CONSTANTS r1, r2, poller, smoke, smoke2

OneRun == {r1}
TwoRuns == {r1, r2}
OnePoller == {poller}
WithSmoke == {poller, smoke}

\* Every attempt belongs to the poller's scheduler.
PollerStarts == [r \in Runs |-> poller]
\* Two invocations of apify_smoke, each a process of its own.
TwoSmokes == {smoke, smoke2}
SmokeStarts == [r \in Runs |-> IF r = r2 THEN smoke2 ELSE smoke]
NoRun == {}
OneScope == [r \in Runs |-> "scope"]
=============================================================================
