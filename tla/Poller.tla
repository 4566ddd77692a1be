------------------------------- MODULE Poller -------------------------------
(***************************************************************************)
(* One source in the poller: its scheduled jobs, the admission gate, the   *)
(* lifecycle and cadence rows their outcomes move, the token buckets and   *)
(* their checkpoint, the dead-man push, and the loss of the process or of  *)
(* the database under all of them.                                         *)
(*                                                                         *)
(* poll, heartbeat and probe are separate jobs on one event loop: each is  *)
(* one instance at a time, and they interleave at every await.  Writing an *)
(* outcome is one transaction.  Times are countdowns and ages that stop at *)
(* the first value that matters, so the clock has no bound; tokens refill  *)
(* one a tick, as the time passes (the code refills when it looks).        *)
(***************************************************************************)
EXTENDS Naturals, FiniteSets

CONSTANTS
    Profiles,        \* configurations of the source this instance starts from
    Baseline,        \* cadence_baseline_s
    Ceiling,         \* cadence_ceiling_s
    CleanPolls,      \* AUTO_RAMP_CLEAN_POLLS
    RotThreshold,    \* PARSER_ROT_TRIP_THRESHOLD
    BackoffBase,     \* BACKOFF_BASE_S
    BackoffCap,      \* BACKOFF_CAP_S
    SourceBurst,     \* bucket_burst
    DomainBurst,     \* DOMAIN_BURST
    Window,          \* freshness_window_s
    MaxFails         \* bound on the failure counters

ASSUME PollerAssumption ==
    /\ {Baseline, Ceiling, CleanPolls, RotThreshold} \subseteq Nat \ {0}
    /\ Ceiling <= Baseline
    /\ {BackoffBase, BackoffCap, SourceBurst, DomainBurst, Window, MaxFails} \subseteq Nat
    /\ RotThreshold <= MaxFails

VARIABLES
    source,    \* the policy part of SourceConfig, with its row of the admission matrix
    config,    \* its managed part: lifecycle state and failure counters (durable)
    lane,      \* the two SourceLaneState rows (durable)
    runAge,    \* ticks since the last successful collection run finished (durable)
    remote,    \* kinds of Actor run whose import is undecided (durable)
    up,        \* ticks since the process started, or Down
    job,       \* what each job is doing (lost with the process)
    tokens,    \* BucketRegistry: the source's and the domain's bucket (lost with it)
    saved,     \* the checkpointed buckets (durable)
    unsaved,   \* tokens taken since the checkpoint
    db,        \* the database server is up
    conn,      \* the jobs' cached connection works
    fed        \* the off-box monitor was pushed since the last tick

vars == <<source, config, lane, runAge, remote, up, job, tokens, saved, unsaved, db, conn,
          fed>>
-----------------------------------------------------------------------------
LifecycleState == {"active", "backing_off", "paused_pending_fix", "skip"}
LifecycleEvent == {"success", "transient_failure", "anti_bot", "parser_rot", "degradation",
                   "unknown_failure", "probe_success", "probe_failure", "manual_skip",
                   "manual_reactivate"}
SuccessEvents == {"success", "probe_success"}
FailureEvents == {"transient_failure", "anti_bot", "parser_rot", "unknown_failure"}
Jobs == {"poll", "heartbeat", "probe"}
Lanes == {"full", "heartbeat"}
Buckets == {"source", "domain"}
LaneOf(j) == IF j = "heartbeat" THEN "heartbeat" ELSE "full"
Burst(b) == IF b = "source" THEN SourceBurst ELSE DomainBurst

\* The admission matrix: a retired source, or one without an admitted category,
\* gets no job.  Categories other than drive are eBay's own sweeps.
Categories == {"drive", "other"}
CellStatus == {"retired", "not_admitted", "admitted", "not_applicable"}
Profile == [provider: {"local", "apify"}, heartbeat: BOOLEAN, ebay: BOOLEAN,
            retired: BOOLEAN, cell: [Categories -> CellStatus]]
IsAdmitted(c) == ~source.retired /\ source.cell[c] = "admitted"
AdmittedCategories == {c \in Categories : IsAdmitted(c)}
SchedulingBlock == source.retired \/ AdmittedCategories = {}

\* registers_full_lane: eBay's probe is its drive fetch, so only its other sweeps
\* need a full lane beside a heartbeat.
RegistersFullLane ==
    ~source.heartbeat \/ ~source.ebay \/ AdmittedCategories \ {"drive"} # {}

Config == [enabled: BOOLEAN, state: LifecycleState, fails: 0..MaxFails, rot: 0..MaxFails]
LaneRow == [interval: Ceiling..Baseline, clean: 0..CleanPolls - 1, backoff: 0..BackoffCap]
JobRow == [pc: {"idle", "read", "running", "fired"}, seen: LifecycleState]
Down == Window + 2

TypeOK ==
    /\ source \in Profile
    /\ config \in Config
    /\ lane \in [Lanes -> LaneRow]
    /\ runAge \in 0..Window + 1
    /\ remote \subseteq {"full", "probe"}
    /\ up \in 0..Down
    /\ job \in [Jobs -> JobRow]
    /\ tokens \in [Buckets -> Nat] /\ \A b \in Buckets : tokens[b] <= Burst(b)
    /\ saved \in [Buckets -> Nat]
    /\ unsaved \in [Buckets -> Nat]
    /\ {db, conn, fed} \subseteq BOOLEAN

IdleJob == [pc |-> "idle", seen |-> "active"]
FullBuckets == [b \in Buckets |-> Burst(b)]
NoTokens == [b \in Buckets |-> 0]

Init ==
    /\ source \in Profiles
    /\ config \in [enabled: BOOLEAN, state: {"active", "paused_pending_fix"}, fails: {0}, rot: {0}]
    /\ lane = [l \in Lanes |-> [interval |-> Baseline, clean |-> 0, backoff |-> 0]]
    /\ runAge = Window + 1
    /\ remote = {}
    /\ up = 0
    /\ job = [j \in Jobs |-> IdleJob]
    /\ tokens = FullBuckets
    /\ saved = FullBuckets
    /\ unsaved = NoTokens
    /\ db = TRUE
    /\ conn = TRUE
    /\ fed = FALSE
-----------------------------------------------------------------------------
(* The pure pieces (lifecycle.py, backoff.py, apply.py).                   *)

Least(a, b) == IF a <= b THEN a ELSE b
Most(a, b) == IF a >= b THEN a ELSE b

Transition(state, event, rot) ==
    IF event = "manual_skip" THEN "skip"
    ELSE IF event = "manual_reactivate" THEN "active"
    ELSE IF state = "skip" \/ (state = "paused_pending_fix" /\ event # "probe_success") THEN state
    ELSE CASE event \in SuccessEvents -> "active"
           [] event \in {"anti_bot", "unknown_failure"} -> "paused_pending_fix"
           [] event = "parser_rot" ->
                 IF rot + 1 >= RotThreshold THEN "paused_pending_fix" ELSE "backing_off"
           [] event = "transient_failure" -> "backing_off"
           [] OTHER -> state

\* backoff_delay_s: anything up to the envelope, which doubles with each failure.
BackoffDelays(fails) == 0..Least(BackoffCap, BackoffBase * 2^fails)

\* The repair crawl beside a heartbeat never ramps.
RampFloor(l) == IF l = "full" /\ source.heartbeat THEN Baseline ELSE Ceiling

IntervalAfterSuccess(row, floor) ==
    IF row.clean + 1 >= CleanPolls
    THEN [row EXCEPT !.interval = Most(floor, row.interval \div 2), !.clean = 0]
    ELSE [row EXCEPT !.clean = @ + 1]

\* _apply_locked, on the rows c and w: the results for every possible back-off.
Health(c, event) ==
    [enabled |-> c.enabled,
     state |-> Transition(c.state, event, c.rot),
     fails |-> CASE event \in SuccessEvents -> 0
                 [] event \in FailureEvents -> Least(c.fails + 1, MaxFails)
                 [] OTHER -> c.fails,
     rot |-> CASE event = "parser_rot" -> Least(c.rot + 1, MaxFails)
               [] event \in (SuccessEvents \union FailureEvents) \ {"parser_rot"} -> 0
               [] OTHER -> c.rot]
Cadence(c, w, l, event) ==
    CASE event \in SuccessEvents ->
            {[IntervalAfterSuccess(w, RampFloor(l)) EXCEPT !.backoff = 0]}
      [] event \in FailureEvents ->
            {[interval |-> Baseline, clean |-> 0, backoff |-> d] : d \in BackoffDelays(c.fails + 1)}
      [] OTHER -> {w}

\* apply_run_outcome re-reads both rows under their locks; what the caller loaded
\* when the job began names them and no more.
ApplyLoaded(l, event, seen) ==
    /\ config' = Health([config EXCEPT !.state = seen], event)
    /\ \E w \in Cadence(config, lane[l], l, event) : lane' = [lane EXCEPT ![l] = w]
ApplyRunOutcome(l, event, seen) ==
    /\ config' = Health(config, event)
    /\ \E w \in Cadence(config, lane[l], l, event) : lane' = [lane EXCEPT ![l] = w]
-----------------------------------------------------------------------------
(* A job: read the rows, pass the gate, collect, apply the outcome.        *)

Running == up # Down
DbWorks == db /\ conn

\* ConnectionHygieneExecutor: a broken connection is dropped before and after
\* every job, so the next query opens one.
RecycledConnection == db

HasJob(j) ==
    CASE j = "poll" -> ~SchedulingBlock /\ RegistersFullLane
      [] j = "heartbeat" -> ~SchedulingBlock /\ source.heartbeat
      [] j = "probe" -> TRUE

\* recovery_probe_job takes enabled paused rows from the database, whether or not
\* they are scheduled, and so asks the matrix itself.
ProbeCandidateAny == config.enabled /\ config.state = "paused_pending_fix"
ProbeCandidate == config.enabled /\ config.state = "paused_pending_fix" /\ ~SchedulingBlock

\* _probe_actor_source: one undecided probe run at a time, before a token is spent.
NoOutstandingProbe == source.provider = "apify" => "probe" \notin remote

Begin(j) ==
    /\ Running
    /\ HasJob(j)
    /\ job[j].pc = "idle"
    /\ db
    /\ conn' = RecycledConnection
    /\ j = "probe" => ProbeCandidate /\ NoOutstandingProbe
    /\ job' = [job EXCEPT ![j] = [pc |-> "read", seen |-> config.state]]
    /\ UNCHANGED <<source, config, lane, runAge, remote, up, tokens, saved, unsaved, db, fed>>

\* check_admission, in its order, on what the job read: probes pass the pause and
\* the back-off window, and the buckets come last and together.
GatePasses(j) ==
    /\ config.enabled
    /\ job[j].seen # "skip"
    /\ j # "probe" => job[j].seen # "paused_pending_fix" /\ lane[LaneOf(j)].backoff = 0
BucketsAdmit == \A b \in Buckets : tokens[b] >= 1

TakeTokens ==
    /\ tokens' = [b \in Buckets |-> tokens[b] - 1]
    /\ unsaved' = [b \in Buckets |-> Least(unsaved[b] + 1, Burst(b))]

\* An Actor-backed source only starts a run here, unless it is denied.
Admit(j) ==
    /\ Running
    /\ job[j].pc = "read"
    /\ GatePasses(j) /\ BucketsAdmit
    /\ TakeTokens
    /\ IF source.provider = "local"
       THEN job' = [job EXCEPT ![j].pc = "running"] /\ UNCHANGED remote
       ELSE /\ job' = [job EXCEPT ![j] = IdleJob]
            /\ \/ UNCHANGED remote
               \/ remote' = remote \union {IF j = "probe" THEN "probe" ELSE "full"}
    /\ UNCHANGED <<source, config, lane, runAge, up, saved, db, conn, fed>>

Deny(j) ==
    /\ Running
    /\ job[j].pc = "read"
    /\ ~(GatePasses(j) /\ BucketsAdmit)
    /\ job' = [job EXCEPT ![j] = IdleJob]
    /\ UNCHANGED <<source, config, lane, runAge, remote, up, tokens, saved, unsaved, db, conn, fed>>

\* A heartbeat that sees a change goes on to a full run (run_heartbeat).
Fire ==
    /\ Running
    /\ job["heartbeat"].pc = "running"
    /\ DbWorks
    /\ job' = [job EXCEPT !["heartbeat"].pc = "fired"]
    /\ UNCHANGED <<source, config, lane, runAge, remote, up, tokens, saved, unsaved, db, conn, fed>>

\* A probe's outcome is a success or state-neutral; a clean heartbeat reports
\* success without a run.
Outcomes(j) ==
    IF j = "probe" THEN {"probe_success", "probe_failure"} ELSE {"success"} \union FailureEvents
Collects(j) == j = "heartbeat" => job[j].pc = "fired"
RecordedAny(j, event) == event \in SuccessEvents
Recorded(j, event) == event \in SuccessEvents /\ Collects(j)

Finish(j, event) ==
    /\ Running
    /\ job[j].pc \in {"running", "fired"}
    /\ DbWorks
    /\ event \in Outcomes(j)
    /\ ApplyRunOutcome(LaneOf(j), event, job[j].seen)
    /\ runAge' = IF Recorded(j, event) THEN 0 ELSE runAge
    /\ job' = [job EXCEPT ![j] = IdleJob]
    /\ conn' = RecycledConnection
    /\ UNCHANGED <<source, remote, up, tokens, saved, unsaved, db, fed>>

\* The database went away under the job: it raises, and its outcome is lost.
JobRaises(j) ==
    /\ Running
    /\ job[j].pc \in {"running", "fired"}
    /\ ~DbWorks
    /\ job' = [job EXCEPT ![j] = IdleJob]
    /\ conn' = RecycledConnection
    /\ UNCHANGED <<source, config, lane, runAge, remote, up, tokens, saved, unsaved, db, fed>>

\* apify-poll decides an import, and applies the outcome of its run (ActorRun).
ImportDecided(kind, event) ==
    /\ Running
    /\ DbWorks
    /\ kind \in remote
    /\ event \in Outcomes(IF kind = "probe" THEN "probe" ELSE "poll")
    /\ remote' = remote \ {kind}
    /\ ApplyRunOutcome("full", event, config.state)
    /\ runAge' = IF event \in SuccessEvents THEN 0 ELSE runAge
    /\ UNCHANGED <<source, up, job, tokens, saved, unsaved, db, conn, fed>>
-----------------------------------------------------------------------------
(* The process, its checkpoint and the database.                           *)

\* stale_collection_sources: judged by recorded runs, from process start at most.
Judged == config.enabled /\ ~SchedulingBlock /\ RegistersFullLane
Stale == Judged /\ Least(runAge, up) > Window

DeadmanPush ==
    /\ Running
    /\ db
    /\ conn' = RecycledConnection
    /\ ~Stale
    /\ fed' = TRUE
    /\ UNCHANGED <<source, config, lane, runAge, remote, up, job, tokens, saved, unsaved, db>>

Checkpoint ==
    /\ Running
    /\ db
    /\ conn' = RecycledConnection
    /\ saved' = tokens
    /\ unsaved' = NoTokens
    /\ UNCHANGED <<source, config, lane, runAge, remote, up, job, tokens, db, fed>>

\* Loss of the process; a clean stop is a Checkpoint before it.
Lose ==
    /\ Running
    /\ up' = Down
    /\ job' = [j \in Jobs |-> IdleJob]
    /\ UNCHANGED <<source, config, lane, runAge, remote, tokens, saved, unsaved, db, conn, fed>>

\* run: load_buckets takes the checkpoint without credit for the time since, then
\* build_scheduler configures the bucket of a scheduled source afresh.
LoadedFresh == FullBuckets
Loaded == saved
Boot ==
    /\ up = Down
    /\ db
    /\ up' = 0
    /\ conn' = TRUE
    /\ tokens' = IF SchedulingBlock THEN Loaded ELSE [Loaded EXCEPT !["source"] = SourceBurst]
    /\ UNCHANGED <<source, config, lane, runAge, remote, job, saved, unsaved, db, fed>>

DbLost ==
    /\ db
    /\ db' = FALSE
    /\ conn' = FALSE
    /\ UNCHANGED <<source, config, lane, runAge, remote, up, job, tokens, saved, unsaved, fed>>

DbBack ==
    /\ ~db
    /\ db' = TRUE
    /\ UNCHANGED <<source, config, lane, runAge, remote, up, job, tokens, saved, unsaved, conn,
                   fed>>

Tick ==
    /\ runAge' = Least(runAge + 1, Window + 1)
    /\ lane' = [l \in Lanes |-> [lane[l] EXCEPT !.backoff = IF @ = 0 THEN 0 ELSE @ - 1]]
    /\ up' = IF Running THEN Least(up + 1, Window + 1) ELSE Down
    /\ tokens' = IF Running THEN [b \in Buckets |-> Least(tokens[b] + 1, Burst(b))] ELSE tokens
    /\ fed' = FALSE
    /\ UNCHANGED <<source, config, remote, job, saved, unsaved, db, conn>>

Next ==
    \/ \E j \in Jobs : Begin(j) \/ Admit(j) \/ Deny(j) \/ JobRaises(j)
    \/ Fire \/ \E j \in Jobs, event \in LifecycleEvent : Finish(j, event)
    \/ \E kind \in {"full", "probe"}, event \in LifecycleEvent : ImportDecided(kind, event)
    \/ DeadmanPush \/ Checkpoint \/ Lose \/ Boot \/ DbLost \/ DbBack \/ Tick

Spec == Init /\ [][Next]_vars

\* Time passes; no job is promised a turn.
FairSpec == Spec /\ WF_vars(Tick)
-----------------------------------------------------------------------------
(* What makes it correct.                                                  *)

\* A paused source stays paused until a recovery probe succeeds: no outcome of a
\* run that began before the pause, on either lane, undoes it (apply_run_outcome).
PauseHolds ==
    [][config.state = "paused_pending_fix" /\ config'.state # "paused_pending_fix"
          => job["probe"].pc = "running" \/ "probe" \in remote]_vars

\* A source the matrix blocks is never collected, although an enabled paused row
\* of it may be in the database (build_scheduler, recovery_probe_job).
BlockedNeverRuns == SchedulingBlock => remote = {} /\ \A j \in Jobs : job[j].pc = "idle"

\* Once a scheduled source stops being collected, whatever the reason (its jobs
\* fail, raise, are denied, hang or have lost their connection, it is paused, only
\* its heartbeats answer, the process or the database is gone), the monitor is fed
\* no more (deadman_job, stale_collection_sources).  A process that keeps
\* restarting is excepted: each start is granted a window.
CollectionSucceeds ==
    \/ \E j \in Jobs, event \in SuccessEvents : Collects(j) /\ Finish(j, event)
    \/ \E kind \in {"full", "probe"}, event \in SuccessEvents : ImportDecided(kind, event)
MonitorGoesQuiet ==
    Judged /\ <>[][~(CollectionSucceeds \/ Boot)]_vars => <>[]~fed

\* A restart hands out no token of the domain beyond those spent since the last
\* checkpoint, and gives no credit for the time the process was down (load_buckets).
RestartKeepsDomain == [][Boot => tokens'["domain"] <= tokens["domain"] + unsaved["domain"]]_vars

\* checkpoint.py promises the same of every bucket; see the finding.
RestartKeepsBuckets ==
    [][Boot => \A b \in Buckets : tokens'[b] <= tokens[b] + unsaved[b]]_vars
=============================================================================
