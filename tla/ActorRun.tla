------------------------------ MODULE ActorRun ------------------------------
(***************************************************************************)
(* The life of one paid Actor run ("provider_run" row), from the start job *)
(* through the apify-poll tick: remote polling, the staged import, remote  *)
(* storage cleanup and settlement of its spend reservation.                *)
(*                                                                         *)
(* Every action is one committed database transaction or one remote call,  *)
(* the points between which the program awaits and other coroutines, a     *)
(* second process running the same tick, the operator, the platform and    *)
(* process loss may step in.  Time is abstracted to events: a deadline is  *)
(* a flag that becomes true, a back-off or a grace may be over at any step. *)
(* Amounts are the business of SpendLedger; here a reservation is open,    *)
(* settled or released.                                                    *)
(***************************************************************************)
EXTENDS Naturals, FiniteSets

CONSTANTS
    Runs,               \* start attempts; a run is its row, reservation and remote run
    Processes,          \* processes that start runs and execute apify_poll_tick
    ProcOf,             \* the process whose start job makes each attempt
    ScopeOf,            \* the (source, scope, run kind) each attempt sweeps
    OwnStarter,         \* attempts made outside the scheduler (apify_smoke)
    MaxRunPolls,        \* HW_RADAR_APIFY_MAX_RUN_POLLS
    MaxDatasetReads,    \* HW_RADAR_APIFY_MAX_DATASET_READS (and _KV_READS)
    MaxDeleteAttempts,  \* HW_RADAR_APIFY_MAX_DELETE_ATTEMPTS
    Trust404,           \* HW_RADAR_APIFY_DELETE_404_IS_ABSENT
    Masking,            \* whether the token hides inaccessible storage behind a 404
    Excess,             \* whether the platform may exceed a bound the run was priced at
    MaxFaults           \* bound on process losses and exhausted transaction retries

\* The setting may be true only after a probe showed that a 404 means absence
\* (the comment at settings.py:262): a masking token and trust never coexist.
ASSUME TrustAssumption == Trust404 \in BOOLEAN /\ Masking \in BOOLEAN /\ (Trust404 => ~Masking)
ASSUME ProcAssumption == Runs # {} /\ ProcOf \in [Runs -> Processes]
ASSUME StarterAssumption == OwnStarter \subseteq Runs /\ Excess \in BOOLEAN
ASSUME CapAssumption ==
    /\ MaxRunPolls \in Nat
    /\ MaxDatasetReads \in Nat
    /\ MaxDeleteAttempts \in Nat
    /\ MaxFaults \in Nat

VARIABLES
    row,      \* the provider_run rows (durable)
    resv,     \* status of each attempt's spend reservation (durable)
    trip,     \* per run and reason, the overrun latch row (durable)
    remote,   \* the platform: the run and its default storages
    start,    \* where each attempt's start job is (lost with its process)
    unit,     \* the tick unit each process is executing (lost with it)
    faults    \* faults so far, capped by MaxFaults

vars == <<row, resv, trip, remote, start, unit, faults>>
-----------------------------------------------------------------------------
Storage == {"dataset", "kv_store"}
Reason == {"start_option_mismatch", "orphaned_start", "delete_attempts_exhausted",
           "account_limit_refused", "observed_excess"}
ImportState == {"pending", "observations_committed", "absence_applied", "resolved",
                "evaluated", "finalized", "rejected"}
TerminalImport == {"finalized", "rejected"}

Row == [created: BOOLEAN,          \* the row exists (admitted_at set)
        extId: BOOLEAN,            \* external_run_id recorded
        remoteStatus: {"null", "active", "terminal"},
        mismatch: BOOLEAN,         \* stage_detail.start_mismatch
        refused: BOOLEAN,          \* stage_detail.start_error.status_code = 402
        importState: ImportState,
        outcomes: Nat,             \* how often apply_run_outcome was applied for it
        reads: Nat,                \* dataset_read_count (= kv_read_count)
        polls: Nat,                \* run_poll_count
        attempts: Nat,             \* storage_cleanup_attempts
        verified: SUBSET Storage,  \* stage_detail.storage_verified_deleted
        storageState: {"retained", "deleted", "delete_failed"},
        orphaned: BOOLEAN,         \* orphaned_start_at set
        anchored: BOOLEAN,         \* final_charge_op_at set
        due: BOOLEAN]              \* now >= storage_cleanup_due_at

NewRow == [created |-> FALSE, extId |-> FALSE, remoteStatus |-> "null", mismatch |-> FALSE,
           refused |-> FALSE, importState |-> "pending", outcomes |-> 0, reads |-> 0,
           polls |-> 0, attempts |-> 0, verified |-> {}, storageState |-> "retained",
           orphaned |-> FALSE, anchored |-> FALSE, due |-> FALSE]

\* "attached" is status reserved (or usage_provisional) with a provider_run;
\* "reserved" is still without one.
ReservationStatus == {"none", "reserved", "attached", "reconciled", "released"}
TripState == {"never", "open", "reset", "bumped"}
\* usable: what classify_run says of a finished run's dataset and OUTPUT record.
Remote == [run: {"none", "running", "finished"}, store: SUBSET Storage, usable: BOOLEAN]

StartPC == {"idle", "checked", "admitted", "created", "ok", "mismatched", "lost", "refused",
            "trip_refusal", "trip_mismatch", "reject", "abort", "trip_restart", "done"}
UnitPC == {"idle", "poll", "poll_get", "usage", "outstanding", "plan",
           "mm_trip", "read", "stage", "count", "fetch", "commit", "reject",
           "overdue", "begin", "abort", "confirm", "delete", "finish"}
\* restarted: the answer just recorded says that the platform restarted the run.
Unit == [pc: UnitPC, run: Runs, seen: ImportState, late: BOOLEAN, restarted: BOOLEAN,
         pending: SUBSET Storage, deleted: SUBSET Storage]

\* A process between two units; the other fields are dead until a selector sets them.
IdleUnit == [pc |-> "idle", run |-> CHOOSE r \in Runs : TRUE, seen |-> "pending",
             late |-> FALSE, restarted |-> FALSE, pending |-> {}, deleted |-> {}]

TypeOK ==
    /\ row \in [Runs -> Row]
    /\ resv \in [Runs -> ReservationStatus]
    /\ trip \in [Runs -> [Reason -> TripState]]
    /\ remote \in [Runs -> Remote]
    /\ start \in [Runs -> StartPC]
    /\ unit \in [Processes -> Unit]
    /\ faults \in 0..MaxFaults

Init ==
    /\ row = [r \in Runs |-> NewRow]
    /\ resv = [r \in Runs |-> "none"]
    /\ trip = [r \in Runs |-> [c \in Reason |-> "never"]]
    /\ remote = [r \in Runs |-> [run |-> "none", store |-> {}, usable |-> FALSE]]
    /\ start = [r \in Runs |-> "idle"]
    /\ unit = [p \in Processes |-> IdleUnit]
    /\ faults = 0
-----------------------------------------------------------------------------
(* The overrun latch (ledger.py).                                          *)

LatchTripped(t) == \E r \in Runs, c \in Reason : t[r][c] = "open"

\* trip_latch_locked: idempotent while the trip is open, so it only ever opens.
Tripped(t, r, c) == [t EXCEPT ![r] = [@ EXCEPT ![c] = "open"]]

\* unrecorded_start_refusals: a 402 on record that never had its trip, open or
\* cleared.
UnrecordedRefusal(r) == row[r].refused /\ trip[r]["account_limit_refused"] = "never"

\* trip_stranded_start_refusals_locked.
WithStrandedRefusals(t) ==
    [r \in Runs |->
        [c \in Reason |-> IF c = "account_limit_refused" /\ UnrecordedRefusal(r)
                          THEN "open" ELSE t[r][c]]]

\* Mutant: the bump clears the account's refusal too.
ClearedByBumpAll(t) ==
    [r \in Runs |-> [c \in Reason |-> IF t[r][c] = "open" THEN "bumped" ELSE t[r][c]]]

\* _clear_on_estimator_bump: clears trips recorded under another estimator
\* version, except the account's own refusal.
ClearedByBump(t) ==
    [r \in Runs |->
        [c \in Reason |-> IF c # "account_limit_refused" /\ t[r][c] = "open"
                          THEN "bumped" ELSE t[r][c]]]

\* clear_latch, the owner's apify_budget_reset: refused when nothing is open.
OwnerReset ==
    /\ LatchTripped(trip)
    /\ trip' = [r \in Runs |->
                  [c \in Reason |-> IF trip[r][c] = "open" THEN "reset" ELSE trip[r][c]]]
    /\ UNCHANGED <<row, resv, remote, start, unit, faults>>
-----------------------------------------------------------------------------
(* The platform (external): modelled from how client.py's callers read it.  *)

\* A running Actor finishes, fails, times out or is aborted by the platform.
RemoteFinishes(r) ==
    /\ remote[r].run = "running"
    /\ remote' = [remote EXCEPT ![r].run = "finished"]
    /\ UNCHANGED <<row, resv, trip, start, unit, faults>>

\* The storage deadline admitted_at + STORAGE_CLEANUP_MAX passes.
DeadlinePasses(r) ==
    /\ row[r].created /\ ~row[r].due
    /\ row' = [row EXCEPT ![r].due = TRUE]
    /\ UNCHANGED <<resv, trip, remote, start, unit, faults>>

\* What an answer may say of the run: that the platform restarted it.
Restarts == IF Excess THEN BOOLEAN ELSE {FALSE}

\* A parsed run answer recorded by _apply_run_fields: a terminal status stays,
\* whatever a later answer says.
Observed(r) ==
    [row EXCEPT ![r].remoteStatus =
        IF row[r].remoteStatus = "terminal" \/ remote[r].run = "finished"
        THEN "terminal" ELSE "active"]
-----------------------------------------------------------------------------
(* start_provider_run: one start job per attempt (jobs.py).                 *)

\* Mutant: a start whose answer never came is not outstanding.
OutstandingWithId(r) ==
    \E q \in Runs \ {r} :
        /\ ScopeOf[q] = ScopeOf[r]
        /\ row[q].created /\ row[q].extId
        /\ row[q].importState \notin TerminalImport

\* _has_outstanding_full_run and poller._has_outstanding_probe: an undecided
\* import of the same scope and kind.
Outstanding(r) ==
    \E q \in Runs \ {r} :
        /\ ScopeOf[q] = ScopeOf[r]
        /\ row[q].created
        /\ row[q].importState \notin TerminalImport

\* The scheduler's max_instances=1: one job per source and kind at a time.
\* A start outside the scheduler is not held back by it.
JobRunning(r) ==
    \E q \in Runs \ {r} :
        /\ ScopeOf[q] = ScopeOf[r]
        /\ q \notin OwnStarter
        /\ start[q] \notin {"idle", "done"}

\* The refusals that leave no row: of these only the outstanding check reads
\* state another actor writes.
StartCheck(r) ==
    /\ start[r] = "idle"
    /\ r \notin OwnStarter => ~JobRunning(r)
    /\ start' = [start EXCEPT ![r] = IF Outstanding(r) THEN "done" ELSE "checked"]
    /\ UNCHANGED <<row, resv, trip, remote, unit, faults>>

\* ledger.reserve under the budget lock: clear on a version bump, trip lost
\* refusals, read the latch, then decide.  Every other ground of denial
\* (SpendLedger) is the choice not to admit.
Reserve(r) ==
    /\ start[r] = "checked"
    /\ \E bumped \in BOOLEAN :
          LET t == WithStrandedRefusals(IF bumped THEN ClearedByBump(trip) ELSE trip)
          IN  /\ trip' = t
              /\ \/ /\ ~LatchTripped(t)
                    /\ resv' = [resv EXCEPT ![r] = "reserved"]
                    /\ start' = [start EXCEPT ![r] = "admitted"]
                 \/ /\ resv' = resv
                    /\ start' = [start EXCEPT ![r] = "done"]
    /\ UNCHANGED <<row, remote, unit, faults>>

\* Mutant: the attachment does not look at the reservation it finds.
CreateRunUnchecked(r) ==
    /\ start[r] = "admitted"
    /\ row' = [row EXCEPT ![r].created = TRUE]
    /\ start' = [start EXCEPT ![r] = "created"]
    /\ UNCHANGED <<resv, trip, remote, unit, faults>>

\* _create_run: the row and its attachment in one commit, or neither when the
\* reservation was released under this start.
CreateRun(r) ==
    /\ start[r] = "admitted"
    /\ IF resv[r] = "reserved"
       THEN /\ row' = [row EXCEPT ![r].created = TRUE]
            /\ resv' = [resv EXCEPT ![r] = "attached"]
            /\ start' = [start EXCEPT ![r] = "created"]
       ELSE /\ start' = [start EXCEPT ![r] = "done"]
            /\ UNCHANGED <<row, resv>>
    /\ UNCHANGED <<trip, remote, unit, faults>>

\* The one start request: accepted (with the requested options or not), lost
\* with or without a run behind it, or refused with HTTP 402.
SendStart(r) ==
    /\ start[r] = "created"
    /\ \E answer \in {"ok", "mismatched", "lost", "refused"}, ran, usable \in BOOLEAN :
          /\ answer \in {"ok", "mismatched"} => ran
          /\ answer = "refused" => ~ran
          /\ start' = [start EXCEPT ![r] = answer]
          /\ remote' = IF ran
                       THEN [remote EXCEPT ![r] = [run |-> "running", store |-> Storage,
                                                   usable |-> usable]]
                       ELSE remote
    /\ UNCHANGED <<row, resv, trip, unit, faults>>

\* _record_start_error.
RecordStartError(r) ==
    /\ start[r] \in {"lost", "refused"}
    /\ row' = [row EXCEPT ![r].refused = start[r] = "refused"]
    /\ start' = [start EXCEPT ![r] = IF start[r] = "refused" THEN "trip_refusal" ELSE "done"]
    /\ UNCHANGED <<resv, trip, remote, unit, faults>>

\* trip_start_refusal: only a refusal never recorded before trips.
TripStartRefusal(r) ==
    /\ start[r] = "trip_refusal"
    /\ trip' = IF UnrecordedRefusal(r) THEN Tripped(trip, r, "account_limit_refused") ELSE trip
    /\ start' = [start EXCEPT ![r] = "done"]
    /\ UNCHANGED <<row, resv, remote, unit, faults>>

\* _record_start: the response and, for a mismatch, the counted first cleanup
\* attempt, in one commit.
Started(w, mismatched) ==
    [w EXCEPT !.extId = TRUE, !.remoteStatus = "active", !.mismatch = mismatched,
              !.attempts = IF mismatched THEN @ + 1 ELSE @]

RecordStart(r) ==
    /\ start[r] \in {"ok", "mismatched"}
    /\ row' = [row EXCEPT ![r] = Started(@, start[r] = "mismatched")]
    /\ start' = [start EXCEPT ![r] = IF start[r] = "mismatched" THEN "trip_mismatch" ELSE "done"]
    /\ UNCHANGED <<resv, trip, remote, unit, faults>>

TripMismatch(r) ==
    /\ start[r] = "trip_mismatch"
    /\ trip' = Tripped(trip, r, "start_option_mismatch")
    /\ start' = [start EXCEPT ![r] = "reject"]
    /\ UNCHANGED <<row, resv, remote, unit, faults>>
-----------------------------------------------------------------------------
(* The work-completion anchor and the two outcome transactions.             *)

\* stamp_work_completion, called by both barrier transactions: the anchor is
\* set by whichever of a decided import and a verified deletion comes second.
Stamp(w) ==
    [w EXCEPT !.anchored =
        @ \/ (w.importState \in TerminalImport /\ w.storageState = "deleted")]

\* Mutant: a decided import is rejected again.
RejectedAgain(w) == Stamp([w EXCEPT !.importState = "rejected", !.outcomes = @ + 1])

\* importer._reject, a no-op on a decided import.
Rejected(w) ==
    IF w.importState \in TerminalImport THEN w
    ELSE Stamp([w EXCEPT !.importState = "rejected", !.outcomes = @ + 1])

\* _reject_mismatch from the start job.
StartReject(r) ==
    /\ start[r] = "reject"
    /\ row' = [row EXCEPT ![r] = Rejected(@)]
    /\ start' = [start EXCEPT ![r] = "abort"]
    /\ UNCHANGED <<resv, trip, remote, unit, faults>>

\* The mismatch abort: advisory, its answer recorded if one arrives.
StartAbort(r) ==
    /\ start[r] = "abort"
    /\ \E obeyed, answered \in BOOLEAN, restarted \in Restarts :
          /\ remote' = IF obeyed THEN [remote EXCEPT ![r].run = "finished"] ELSE remote
          /\ row' = IF answered /\ (obeyed \/ remote[r].run = "finished")
                    THEN [row EXCEPT ![r].remoteStatus = "terminal"] ELSE row
          /\ start' = [start EXCEPT ![r] = IF answered /\ restarted THEN "trip_restart" ELSE "done"]
    /\ UNCHANGED <<resv, trip, unit, faults>>

\* _record_observation trips for a restart after its commit.
StartTripRestart(r) ==
    /\ start[r] = "trip_restart"
    /\ trip' = Tripped(trip, r, "start_option_mismatch")
    /\ start' = [start EXCEPT ![r] = "done"]
    /\ UNCHANGED <<row, resv, remote, unit, faults>>
-----------------------------------------------------------------------------
(* apify_poll_tick: one unit at a time per process (jobs.py).               *)

\* apify_smoke starts its run first and only then drives the tick itself.
CanTick(p) ==
    /\ unit[p].pc = "idle"
    /\ \A r \in OwnStarter : ProcOf[r] = p => start[r] = "done"

Decided(r) == row[r].importState \in TerminalImport

\* _storage_work_left.
StorageWorkLeft(r) ==
    /\ row[r].storageState # "deleted"
    /\ row[r].attempts < MaxDeleteAttempts
    /\ ~row[r].orphaned

Handed(p, r, pc) ==
    /\ unit' = [unit EXCEPT ![p] = [IdleUnit EXCEPT !.pc = pc, !.run = r]]
    /\ UNCHANGED <<row, resv, trip, remote, start, faults>>

\* Selectors 1 to 3.  Back-off and poll spacing are the choice not to select
\* now.  The unit re-reads the row: what selected it may be stale by then.
SelectActive(p, r) ==
    /\ CanTick(p)
    /\ row[r].remoteStatus = "active"
    /\ row[r].polls < MaxRunPolls
    /\ Handed(p, r, "poll")

\* Mutant: a decided run with nothing left in store is not selected again.
SelectUnfinished(p, r) ==
    /\ CanTick(p)
    /\ row[r].remoteStatus = "terminal"
    /\ ~Decided(r) \/ StorageWorkLeft(r)
    /\ Handed(p, r, "outstanding")

SelectOutstanding(p, r) ==
    /\ CanTick(p)
    /\ row[r].remoteStatus = "terminal"
    /\ \/ ~Decided(r)
       \/ StorageWorkLeft(r)
       \/ row[r].storageState = "deleted" /\ resv[r] = "attached"
    /\ Handed(p, r, "outstanding")

SelectOverdue(p, r) ==
    /\ CanTick(p)
    /\ row[r].created /\ row[r].due
    /\ StorageWorkLeft(r)
    /\ Handed(p, r, "overdue")

\* A unit goes on only when it has tripped for a restart it recorded.
At(p, pc) == unit[p].pc = pc /\ ~unit[p].restarted
Goto(p, pc) == unit' = [unit EXCEPT ![p].pc = pc]
EndUnit(p) == unit' = [unit EXCEPT ![p] = IdleUnit]

\* Latch trips for what only the platform can show: a response, dataset or
\* record over its cap, a usage component or an amount that was not allowed for.
MayTrip(r, cs) ==
    \/ trip' = trip
    \/ Excess /\ \E c \in cs : trip' = Tripped(trip, r, c)
-----------------------------------------------------------------------------
(* Selector 1's unit, and the reads it shares with settlement.              *)

\* _count_poll: the poll is spent before the GET is sent.
CountPoll(p) ==
    /\ At(p, "poll")
    /\ LET r == unit[p].run
       IN IF row[r].extId /\ row[r].remoteStatus # "terminal" /\ row[r].polls < MaxRunPolls
          THEN /\ row' = [row EXCEPT ![r].polls = @ + 1]
               /\ Goto(p, "poll_get")
          ELSE /\ row' = row
               /\ EndUnit(p)
    /\ UNCHANGED <<resv, trip, remote, start, faults>>

\* _record_observation, after its commit: a restart reaches the latch in a
\* transaction of its own.
TripRestart(p) ==
    /\ unit[p].restarted
    /\ trip' = Tripped(trip, unit[p].run, "start_option_mismatch")
    /\ unit' = [unit EXCEPT ![p].restarted = FALSE]
    /\ UNCHANGED <<row, resv, remote, start, faults>>

\* GET run fails (the unit backs off, and trips if over its byte cap), or its
\* answer is recorded by _record_observation.
GetRun(p) ==
    /\ At(p, "poll_get")
    /\ LET r == unit[p].run
       IN \/ /\ EndUnit(p)
             /\ MayTrip(r, {"observed_excess"})
             /\ row' = row
          \/ /\ \E restarted \in Restarts :
                   unit' = [unit EXCEPT ![p].pc = "usage", ![p].restarted = restarted]
             /\ row' = Observed(r)
             /\ trip' = trip
    /\ UNCHANGED <<resv, remote, start, faults>>

\* _try_settle.  Reads, delays and the finalize deadline decide when; a spent
\* poll cap settles at the bound without waiting.
Settleable(r) ==
    /\ resv[r] = "attached"
    /\ Decided(r)
    /\ row[r].storageState = "deleted"
    /\ row[r].anchored

TrySettle(r) ==
    \/ Settleable(r) /\ resv' = [resv EXCEPT ![r] = "reconciled"]
    \/ ~(Settleable(r) /\ row[r].polls >= MaxRunPolls) /\ resv' = resv

\* record_run_usage.
RecordUsage(p) ==
    /\ At(p, "usage")
    /\ LET r == unit[p].run
       IN /\ TrySettle(r)
          /\ MayTrip(r, {"observed_excess", "start_option_mismatch"})
    /\ EndUnit(p)
    /\ UNCHANGED <<row, remote, start, faults>>

\* plan_settlement_read settles without a call: what was read is stable, the
\* finalize deadline has passed, or no read is left.
PlanSettles(p) ==
    /\ At(p, "plan")
    /\ LET r == unit[p].run
       IN /\ Settleable(r)
          /\ resv' = [resv EXCEPT ![r] = "reconciled"]
          /\ MayTrip(r, {"observed_excess"})
    /\ EndUnit(p)
    /\ UNCHANGED <<row, remote, start, faults>>

\* Or it waits, or counts one more read.
PlanSettlement(p) ==
    /\ At(p, "plan")
    /\ LET r == unit[p].run
       IN \/ /\ ~(Settleable(r) /\ row[r].polls >= MaxRunPolls)
             /\ row' = row
             /\ EndUnit(p)
          \/ /\ resv[r] = "attached" /\ row[r].anchored /\ row[r].extId
             /\ row[r].polls < MaxRunPolls
             /\ row' = [row EXCEPT ![r].polls = @ + 1]
             /\ Goto(p, "poll_get")
    /\ UNCHANGED <<resv, trip, remote, start, faults>>
-----------------------------------------------------------------------------
(* Selector 2's unit.                                                      *)

\* _outstanding_unit: an unlocked read picks the branch.
ReadOutstanding(p) ==
    /\ At(p, "outstanding")
    /\ LET r == unit[p].run
       IN Goto(p, CASE Decided(r) /\ row[r].storageState = "deleted" -> "plan"
                    [] Decided(r) /\ row[r].storageState # "deleted" -> "begin"
                    [] ~Decided(r) /\ row[r].mismatch -> "mm_trip"
                    [] OTHER -> "read")
    /\ UNCHANGED <<row, resv, trip, remote, start, faults>>

\* The resumed mismatch: trip, then reject.
ResumeMismatchTrip(p) ==
    /\ At(p, "mm_trip")
    /\ trip' = Tripped(trip, unit[p].run, "start_option_mismatch")
    /\ Goto(p, "reject")
    /\ UNCHANGED <<row, resv, remote, start, faults>>

\* import_provider_run: the claim and the read that opens each stage.
ImportRead(p) ==
    /\ At(p, "read")
    /\ LET r == unit[p].run
       IN IF Decided(r) THEN EndUnit(p)
          ELSE unit' = [unit EXCEPT ![p].pc = "stage", ![p].seen = row[r].importState]
    /\ UNCHANGED <<row, resv, trip, remote, start, faults>>

\* _stage1 before its read.  Of its preconditions only the deadline can refuse
\* an admitted run: start_provider_run has already refused an unknown or bounded
\* retention and an input that is not a QueryScope.
Stage1Check(p) ==
    /\ At(p, "stage") /\ unit[p].seen = "pending"
    /\ Goto(p, IF row[unit[p].run].due THEN "reject" ELSE "count")
    /\ UNCHANGED <<row, resv, trip, remote, start, faults>>

\* _count_reads: a compare-and-set; the read is spent before it is sent, and a
\* second one waits while the latch is open.
CountReads(p) ==
    /\ At(p, "count")
    /\ LET r == unit[p].run
       IN \/ /\ \/ row[r].importState # "pending"
                \/ /\ row[r].reads < MaxDatasetReads
                   /\ row[r].reads >= 1 /\ LatchTripped(trip)
             /\ EndUnit(p)
             /\ row' = row
          \/ /\ row[r].importState = "pending"
             /\ row[r].reads >= MaxDatasetReads
             /\ Goto(p, "reject")
             /\ row' = row
          \/ /\ row[r].importState = "pending"
             /\ row[r].reads < MaxDatasetReads
             /\ row[r].reads >= 1 => ~LatchTripped(trip)
             /\ row' = [row EXCEPT ![r].reads = @ + 1]
             /\ Goto(p, "fetch")
    /\ UNCHANGED <<resv, trip, remote, start, faults>>

\* provider.fetch and its checks: an error backs the unit off, a failed run (or
\* one whose OUTPUT record is gone) is rejected, the rest goes on to the commit.
Fetch(p) ==
    /\ At(p, "fetch")
    /\ LET r == unit[p].run
       IN /\ \/ EndUnit(p)
             \/ (~remote[r].usable \/ "kv_store" \notin remote[r].store)
                /\ Goto(p, "reject")
             \/ remote[r].usable /\ remote[r].store = Storage
                /\ Goto(p, "commit")
          /\ MayTrip(r, {"observed_excess"})
    /\ UNCHANGED <<row, resv, remote, start, faults>>

\* RetryExhausted: serialization failures used up the in-memory retries; the
\* batch is dropped and the row keeps its state.
Exhausted(p) ==
    /\ faults < MaxFaults
    /\ faults' = faults + 1
    /\ EndUnit(p)
    /\ UNCHANGED <<row, resv, trip, remote, start>>

\* The stage-1 transaction, which checks the deadline again.
Stage1Commit(p) ==
    /\ At(p, "commit")
    /\ LET r == unit[p].run
       IN \/ /\ row[r].importState # "pending"
             /\ EndUnit(p)
             /\ UNCHANGED <<row, resv, trip, remote, start, faults>>
          \/ /\ row[r].importState = "pending" /\ row[r].due
             /\ Goto(p, "reject")
             /\ UNCHANGED <<row, resv, trip, remote, start, faults>>
          \/ /\ row[r].importState = "pending" /\ ~row[r].due
             /\ row' = [row EXCEPT ![r].importState = "observations_committed"]
             /\ Goto(p, "read")
             /\ UNCHANGED <<resv, trip, remote, start, faults>>
          \/ Exhausted(p)

\* Stages 2 to 5 after the one committed, each a compare-and-set on the state
\* its read saw; the last applies the run's outcome.
NextImportState ==
    [observations_committed |-> "absence_applied", absence_applied |-> "resolved",
     resolved |-> "evaluated", evaluated |-> "finalized"]

\* Mutant: stage 5 leaves the anchor to the deletion.
AdvancedUnstamped(w) ==
    LET to == NextImportState[w.importState]
    IN  [w EXCEPT !.importState = to, !.outcomes = IF to = "finalized" THEN @ + 1 ELSE @]

Advanced(w) ==
    LET to == NextImportState[w.importState]
    IN  IF to = "finalized" THEN Stamp([w EXCEPT !.importState = to, !.outcomes = @ + 1])
        ELSE [w EXCEPT !.importState = to]

LaterStage(p) ==
    /\ At(p, "stage") /\ unit[p].seen # "pending"
    /\ LET r == unit[p].run
       IN \/ /\ row[r].importState = unit[p].seen
             /\ row' = [row EXCEPT ![r] = Advanced(@)]
             /\ Goto(p, "read")
             /\ UNCHANGED <<resv, trip, remote, start, faults>>
          \/ /\ row[r].importState # unit[p].seen
             /\ EndUnit(p)
             /\ UNCHANGED <<row, resv, trip, remote, start, faults>>
          \/ /\ unit[p].seen = "observations_committed"
             /\ Exhausted(p)

\* _reject for a stage-1 verdict or a resumed mismatch: it rejects from any
\* undecided state.
Reject(p) ==
    /\ At(p, "reject")
    /\ row' = [row EXCEPT ![unit[p].run] = Rejected(@)]
    /\ EndUnit(p)
    /\ UNCHANGED <<resv, trip, remote, start, faults>>
-----------------------------------------------------------------------------
(* Storage cleanup (storage_cleanup.py).                                   *)

\* Mutant: no only_from.
OverdueRejectAny(p) ==
    /\ At(p, "overdue")
    /\ row' = [row EXCEPT ![unit[p].run] = Rejected(@)]
    /\ unit' = [unit EXCEPT ![p].pc = "begin", ![p].late = TRUE]
    /\ UNCHANGED <<resv, trip, remote, start, faults>>

\* _reject_if_stage1_uncommitted: only_from makes it a compare-and-set.
OverdueReject(p) ==
    /\ At(p, "overdue")
    /\ LET r == unit[p].run
       IN row' = IF row[r].importState = "pending" THEN [row EXCEPT ![r] = Rejected(@)] ELSE row
    /\ unit' = [unit EXCEPT ![p].pc = "begin", ![p].late = TRUE]
    /\ UNCHANGED <<resv, trip, remote, start, faults>>

\* _begin, split by what it finds.  It marks and trips in one commit.
BeginNothing(p) ==
    /\ At(p, "begin")
    /\ LET r == unit[p].run
       IN \/ row[r].storageState = "deleted" \/ row[r].orphaned
          \/ ~unit[p].late /\ row[r].remoteStatus # "terminal"
    /\ EndUnit(p)
    /\ UNCHANGED <<row, resv, trip, remote, start, faults>>

\* Mutant: the mark commits before its trip.
BeginOrphanUntripped(p) ==
    /\ At(p, "begin") /\ unit[p].late
    /\ LET r == unit[p].run
       IN /\ row[r].storageState # "deleted" /\ ~row[r].orphaned /\ ~row[r].extId
          /\ row' = [row EXCEPT ![r].orphaned = TRUE]
    /\ EndUnit(p)
    /\ UNCHANGED <<resv, trip, remote, start, faults>>

BeginOrphan(p) ==
    /\ At(p, "begin") /\ unit[p].late
    /\ LET r == unit[p].run
       IN /\ row[r].storageState # "deleted" /\ ~row[r].orphaned /\ ~row[r].extId
          /\ row' = [row EXCEPT ![r].orphaned = TRUE]
          /\ trip' = Tripped(trip, r, "orphaned_start")
    /\ EndUnit(p)
    /\ UNCHANGED <<resv, remote, start, faults>>

\* A run id is on record and the attempt has, or needs no, terminal evidence.
Attemptable(p, r) ==
    /\ row[r].storageState # "deleted" /\ ~row[r].orphaned /\ row[r].extId
    /\ unit[p].late \/ row[r].remoteStatus = "terminal"

\* Mutant: a state the column's choices do not have.
MarkFailed(w) == [w EXCEPT !.storageState = "failed"]

\* _mark_delete_failed.
MarkDeleteFailed(w) == [w EXCEPT !.storageState = "delete_failed"]

BeginAtCap(p) ==
    /\ At(p, "begin")
    /\ LET r == unit[p].run
       IN /\ Attemptable(p, r) /\ row[r].attempts >= MaxDeleteAttempts
          /\ row' = [row EXCEPT ![r] = MarkDeleteFailed(@)]
          /\ trip' = Tripped(trip, r, "delete_attempts_exhausted")
    /\ EndUnit(p)
    /\ UNCHANGED <<resv, remote, start, faults>>

\* The attempt is spent before its first call.
BeginAttempt(p) ==
    /\ At(p, "begin")
    /\ LET r == unit[p].run
       IN /\ Attemptable(p, r) /\ row[r].attempts < MaxDeleteAttempts
          /\ row' = [row EXCEPT ![r].attempts = @ + 1]
          /\ unit' = [unit EXCEPT ![p].pc = IF row[r].remoteStatus = "terminal"
                                            THEN "delete" ELSE "abort",
                                  ![p].pending = Storage \ row[r].verified]
    /\ UNCHANGED <<resv, trip, remote, start, faults>>

\* _confirm_terminal: the abort, obeyed or not, answered or not, then a GET
\* unless the answer was terminal.
Abort(p) ==
    /\ At(p, "abort")
    /\ LET r == unit[p].run
       IN \E obeyed, answered \in BOOLEAN, restarted \in Restarts :
            LET after == IF obeyed THEN "finished" ELSE remote[r].run
            IN  /\ remote' = [remote EXCEPT ![r].run = after]
                /\ IF answered
                   THEN /\ row' = IF after = "finished"
                                  THEN [row EXCEPT ![r].remoteStatus = "terminal"] ELSE row
                        /\ unit' = [unit EXCEPT
                              ![p].pc = IF after = "finished" THEN "delete" ELSE "confirm",
                              ![p].restarted = restarted]
                   ELSE row' = row /\ Goto(p, "confirm")
    /\ UNCHANGED <<resv, trip, start, faults>>

\* Mutant: an answered GET is evidence enough.
ConfirmAnswered(p) ==
    /\ At(p, "confirm")
    /\ row' = Observed(unit[p].run)
    /\ Goto(p, "delete")
    /\ UNCHANGED <<resv, trip, remote, start, faults>>

\* Without terminal evidence the attempt deletes nothing.
Confirm(p) ==
    /\ At(p, "confirm")
    /\ LET r == unit[p].run
       IN \/ /\ row' = Observed(r)
             /\ \E restarted \in Restarts :
                   unit' = IF remote[r].run = "finished"
                           THEN [unit EXCEPT ![p].pc = "delete", ![p].restarted = restarted]
                           ELSE [unit EXCEPT ![p].pc = "finish", ![p].restarted = restarted,
                                             ![p].pending = {}]
          \/ /\ unit' = [unit EXCEPT ![p].pc = "finish", ![p].pending = {}]
             /\ row' = row
    /\ UNCHANGED <<resv, trip, remote, start, faults>>

\* Mutant: any answer verifies.
AnsweredVerified(u, s, verified) == [u EXCEPT !.pending = @ \ {s}, !.deleted = @ \cup {s}]

\* _delete: dataset first.  Deleted; lost with or without effect; or answered
\* 404, which counts only where it is trusted.
Answered(u, s, verified) ==
    [u EXCEPT !.pending = @ \ {s}, !.deleted = IF verified THEN @ \cup {s} ELSE @]

DeleteStorage(p) ==
    /\ At(p, "delete") /\ unit[p].pending # {}
    /\ LET r == unit[p].run
           s == IF "dataset" \in unit[p].pending THEN "dataset" ELSE "kv_store"
           verify(v) == unit' = [unit EXCEPT ![p] = Answered(@, s, v)]
           remove == remote' = [remote EXCEPT ![r].store = @ \ {s}]
       IN \/ s \in remote[r].store /\ remove /\ verify(TRUE)
          \/ remove /\ verify(FALSE)
          \/ remote' = remote /\ verify(FALSE)
          \/ /\ s \notin remote[r].store \/ Masking
             /\ remote' = remote /\ verify(Trust404)
    /\ UNCHANGED <<row, resv, trip, start, faults>>

DeletesSent(p) ==
    /\ At(p, "delete") /\ unit[p].pending = {}
    /\ Goto(p, "finish")
    /\ UNCHANGED <<row, resv, trip, remote, start, faults>>

\* _finish: progress, then deleted, another try later, or delete_failed, in
\* one commit.
Finish(p) ==
    /\ At(p, "finish")
    /\ LET r == unit[p].run
           verified == row[r].verified \cup unit[p].deleted
           w == [row[r] EXCEPT !.verified = verified]
       IN IF verified = Storage
          THEN /\ row' = [row EXCEPT ![r] = Stamp([w EXCEPT !.storageState = "deleted"])]
               /\ trip' = trip
          ELSE IF w.storageState # "deleted" /\ w.attempts >= MaxDeleteAttempts
          THEN /\ row' = [row EXCEPT ![r] = MarkDeleteFailed(w)]
               /\ trip' = Tripped(trip, r, "delete_attempts_exhausted")
          ELSE /\ row' = [row EXCEPT ![r] = w]
               /\ trip' = trip
    /\ EndUnit(p)
    /\ UNCHANGED <<resv, remote, start, faults>>
-----------------------------------------------------------------------------
(* The two sweeps that open a tick, and process loss.                       *)

\* _stranded: never tripped, open or cleared.
StrandedOrphan(r) == row[r].orphaned /\ trip[r]["orphaned_start"] = "never"
\* Mutant: a cleared trip counts as missing.
StrandedNotOpen(r) ==
    /\ row[r].storageState = "delete_failed"
    /\ trip[r]["delete_attempts_exhausted"] # "open"

StrandedExhausted(r) ==
    /\ \/ row[r].storageState = "delete_failed"
       \/ row[r].storageState # "deleted" /\ row[r].attempts >= MaxDeleteAttempts
          /\ row[r].created /\ ~row[r].orphaned
    /\ trip[r]["delete_attempts_exhausted"] = "never"

\* trip_stranded_latches.
TripStranded(p) ==
    /\ CanTick(p)
    /\ \E r \in Runs : StrandedOrphan(r) \/ StrandedExhausted(r) \/ UnrecordedRefusal(r)
    /\ row' = [r \in Runs |-> IF StrandedExhausted(r) THEN MarkDeleteFailed(row[r]) ELSE row[r]]
    /\ trip' = [r \in Runs |->
                  [c \in Reason |->
                     IF \/ c = "orphaned_start" /\ StrandedOrphan(r)
                        \/ c = "delete_attempts_exhausted" /\ StrandedExhausted(r)
                     THEN "open" ELSE WithStrandedRefusals(trip)[r][c]]]
    /\ UNCHANGED <<resv, remote, start, unit, faults>>

\* release_unattached_reservations, once the grace has passed.
ReleaseUnattached(p) ==
    /\ CanTick(p)
    /\ \E r \in Runs :
          /\ resv[r] = "reserved"
          /\ resv' = [resv EXCEPT ![r] = "released"]
    /\ UNCHANGED <<row, trip, remote, start, unit, faults>>

\* The process is lost and restarted: its unit and its start jobs are gone,
\* everything committed or sent stays.
Crash(p) ==
    /\ faults < MaxFaults
    /\ \/ unit[p].pc # "idle"
       \/ \E r \in Runs : ProcOf[r] = p /\ start[r] \notin {"idle", "done"}
    /\ faults' = faults + 1
    /\ unit' = [unit EXCEPT ![p] = IdleUnit]
    /\ start' = [r \in Runs |-> IF ProcOf[r] = p /\ start[r] # "idle" THEN "done" ELSE start[r]]
    /\ UNCHANGED <<row, resv, trip, remote>>
-----------------------------------------------------------------------------
StartStep(r) ==
    \/ Reserve(r) \/ CreateRun(r) \/ SendStart(r) \/ RecordStartError(r) \/ TripStartRefusal(r)
    \/ RecordStart(r) \/ TripMismatch(r) \/ StartReject(r) \/ StartAbort(r) \/ StartTripRestart(r)

UnitStep(p) ==
    \/ CountPoll(p) \/ GetRun(p) \/ TripRestart(p) \/ RecordUsage(p)
    \/ PlanSettles(p) \/ PlanSettlement(p)
    \/ ReadOutstanding(p) \/ ResumeMismatchTrip(p) \/ ImportRead(p) \/ Stage1Check(p)
    \/ CountReads(p) \/ Fetch(p) \/ Stage1Commit(p) \/ LaterStage(p) \/ Reject(p)
    \/ OverdueReject(p) \/ BeginNothing(p) \/ BeginOrphan(p) \/ BeginAtCap(p)
    \/ BeginAttempt(p) \/ Abort(p) \/ Confirm(p) \/ DeleteStorage(p) \/ DeletesSent(p)
    \/ Finish(p)

Select(p) ==
    \E r \in Runs : SelectActive(p, r) \/ SelectOutstanding(p, r) \/ SelectOverdue(p, r)

Sweep(p) == TripStranded(p) \/ ReleaseUnattached(p)

Next ==
    \/ \E r \in Runs : StartCheck(r) \/ StartStep(r) \/ RemoteFinishes(r) \/ DeadlinePasses(r)
    \/ \E p \in Processes : UnitStep(p) \/ Select(p) \/ Sweep(p) \/ Crash(p)
    \/ OwnerReset

Spec == Init /\ [][Next]_vars

\* A started job and a unit run to their end, every process ticks again and
\* again (the apify-poll interval job), sweeps first, and time passes: the storage
\* deadline, the release's grace and the finalize deadline.
Fairness ==
    /\ \A r \in Runs : WF_vars(StartStep(r)) /\ WF_vars(DeadlinePasses(r))
    /\ \A p \in Processes : /\ WF_vars(UnitStep(p) \/ Select(p))
                            /\ SF_vars(TripStranded(p)) /\ SF_vars(ReleaseUnattached(p))
                            /\ SF_vars(PlanSettles(p))

FairSpec == Spec /\ Fairness
-----------------------------------------------------------------------------
(* Safety.                                                                 *)

\* No run exists outside the ledger: a start is sent only for a committed row
\* whose reservation is attached, and the reservation then stays on the books
\* until it settles (_create_run against release_unattached_reservations).
TrackedSpend ==
    \A r \in Runs : remote[r].run # "none" => row[r].created /\ resv[r] \in {"attached", "reconciled"}

\* A reservation settles only when nothing of its run can charge any more: the
\* run is over and neither storage is left (_try_settle, the 404 rule).
SettledMeansQuiet ==
    \A r \in Runs : resv[r] = "reconciled" => remote[r].run = "finished" /\ remote[r].store = {}

\* The settlement anchor is set by exactly the later of the two barrier
\* commits: never early, and never missed by both (stamp_work_completion).
AnchorExact ==
    \A r \in Runs :
        row[r].anchored <=>
            row[r].importState \in TerminalImport /\ row[r].storageState = "deleted"

\* apply_run_outcome is applied exactly once per decided import, whoever
\* decides it: stage 5, a stage-1 rejection, the overdue unit or the start job.
OutcomeOnce ==
    \A r \in Runs : row[r].outcomes = IF row[r].importState \in TerminalImport THEN 1 ELSE 0

\* The mark that drops a row from the selectors commits with its latch trip.
LatchCommitted ==
    \A r \in Runs :
        /\ row[r].orphaned => trip[r]["orphaned_start"] # "never"
        /\ row[r].storageState = "delete_failed" => trip[r]["delete_attempts_exhausted"] # "never"

\* Two runs of one scope never have undecided imports at once
\* (_has_outstanding_full_run under the scheduler's max_instances=1).
OneOutstandingFull ==
    \A r, q \in Runs :
        r # q /\ ScopeOf[r] = ScopeOf[q] /\ row[r].created /\ row[q].created
            => row[r].importState \in TerminalImport \/ row[q].importState \in TerminalImport

\* A start-option mismatch has reached the latch once its import is decided and
\* its start job is gone, whatever crashed ("a crash before the start job's trip
\* is covered").
MismatchLatched ==
    \A r \in Runs :
        row[r].mismatch /\ row[r].importState \in TerminalImport /\ start[r] = "done"
            => trip[r]["start_option_mismatch"] # "never"

\* Cleanup never removes storage under a run that may still be charging, nor
\* the dataset of an import whose stage 1 could still commit (MS2-D-33).
NoDeleteUnderWork ==
    [][\A r \in Runs :
          remote'[r].store # remote[r].store /\ remote[r].run # "none"
              => remote[r].run = "finished" /\ row[r].importState # "pending"]_vars

\* After a recorded account refusal nothing is admitted until the owner's own
\* reset: not an estimator bump, and not a crash between the refusal's record
\* and its trip.
RefusalStopsAdmission ==
    [][\A r, q \in Runs :
          resv[r] = "none" /\ resv'[r] = "reserved" /\ row[q].refused
              => trip'[q]["account_limit_refused"] = "reset"]_vars

\* The owner's reset is final for a row that stays orphaned, refused or
\* delete_failed: nothing re-opens the same trip.
OwnerResetFinal ==
    [][\A r \in Runs, c \in {"orphaned_start", "delete_attempts_exhausted", "account_limit_refused"} :
          trip[r][c] = "reset" => trip'[r][c] = "reset"]_vars

\* An import is rejected only before its stage 1 committed.
RejectsOnlyUncommitted ==
    [][\A r \in Runs :
          row'[r].importState = "rejected" => row[r].importState \in {"pending", "rejected"}]_vars
-----------------------------------------------------------------------------
(* What the safety properties rest on: with TypeOK these are inductive.     *)

Unsent == {"idle", "checked", "admitted", "created"}
Unrecorded == Unsent \cup {"ok", "mismatched", "lost", "refused"}

\* How far a start job has come bounds what of its run can exist.
StartInv ==
    \A r \in Runs :
        /\ start[r] \in {"idle", "checked"} => resv[r] = "none"
        /\ start[r] = "admitted" => resv[r] \in {"reserved", "released"}
        /\ start[r] = "created" => row[r].created
        /\ row[r].created <=> resv[r] \in {"attached", "reconciled"}
        /\ start[r] \in Unsent => remote[r].run = "none"
        /\ start[r] \in Unrecorded => ~row[r].extId
        /\ start[r] \in {"ok", "mismatched"} => remote[r].run # "none"
        /\ start[r] \in {"trip_mismatch", "reject", "abort"} => row[r].extId
        /\ row[r].extId => remote[r].run # "none"
        /\ remote[r].run # "none" => row[r].created

\* What a row says of the platform is so.
EvidenceInv ==
    \A r \in Runs :
        /\ row[r].remoteStatus # "null" => row[r].extId
        /\ row[r].remoteStatus = "terminal" => remote[r].run = "finished"
        /\ row[r].verified \cap remote[r].store = {}
        /\ row[r].verified # {} => row[r].remoteStatus = "terminal"
        /\ row[r].storageState = "deleted" => row[r].verified = Storage
        /\ resv[r] = "reconciled" => row[r].storageState = "deleted"

\* A cleanup attempt in flight acts on what its process has seen, however late.
AttemptInv ==
    \A p \in Processes :
        LET r == unit[p].run
        IN  /\ unit[p].pc \in {"poll_get", "abort", "confirm", "delete", "finish"} => row[r].extId
            /\ unit[p].pc = "delete" => row[r].remoteStatus = "terminal"
            /\ unit[p].pc \in {"begin", "abort", "confirm", "delete", "finish"}
                  => row[r].importState # "pending"
            /\ unit[p].deleted # {} => row[r].remoteStatus = "terminal"
            /\ unit[p].deleted \cap remote[r].store = {}
-----------------------------------------------------------------------------
(* Liveness, under FairSpec.                                               *)

\* Every run's storage is verified deleted or visibly given up on.
StorageResolved ==
    \A r \in Runs :
        row[r].created ~> \/ row[r].storageState \in {"deleted", "delete_failed"}
                          \/ row[r].orphaned

\* Every run's import is decided, so its scope can be swept again.
ImportDecided ==
    \A r \in Runs : row[r].created ~> row[r].importState \in TerminalImport

\* Every reservation of an admitted start leaves the gates: it is settled from its
\* run's reads (_try_settle) or, where no run row exists, released
\* (release_unattached).  It keeps its bound only on a run whose storage the code
\* gave up on, which the latch shows.
ReservationResolved ==
    \A r \in Runs :
        resv[r] \in {"reserved", "attached"} ~> \/ resv[r] \in {"reconciled", "released"}
                                                \/ row[r].storageState = "delete_failed"
                                                \/ row[r].orphaned

\* No run is forgotten, although a row is only ever found by its selectors:
\* its storage, its import and its reservation are all resolved in the end.
EveryRunResolved == StorageResolved /\ ImportDecided /\ ReservationResolved
=============================================================================
