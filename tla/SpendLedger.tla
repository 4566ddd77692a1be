----------------------------- MODULE SpendLedger -----------------------------
(***************************************************************************)
(* The spend ledger of one environment: admission of paid operations       *)
(* against the caps of a billing cycle, settlement of what they cost, and  *)
(* the monitoring of late corrections (selector 4).                        *)
(*                                                                         *)
(* Every write below is one transaction under the budget advisory lock, so *)
(* it is one action; the calls to the platform between two of them are     *)
(* actions of their own, and a process may be lost, or suspended across a  *)
(* cycle boundary, between any two.  The run behind a reservation is the   *)
(* business of ActorRun: here it charges until its work is complete.       *)
(* Settings are valid constants; amounts are small integers; every row of  *)
(* a class has the same bounds.                                            *)
(***************************************************************************)
EXTENDS BillingCycles, Sequences, FiniteSets, FiniteSetsExt, Functions

CONSTANTS
    Resv,               \* reservations the environment may ask for
    Classes,            \* the classes it asks for (a subset of Class)
    Pollers,            \* processes that run poller.service.run
    Smokes,             \* processes that run apify_smoke: ticks, but no marker resolution
    Anchors,            \* values the owner gives BILLING_CYCLE_ANCHOR
    Exec, Post, Call,   \* execution bound, post-run liability, bound of one API call
    Margin,             \* what ESTIMATE_MARGIN adds to execution and post-run cost
    MaxRunPolls,        \* HW_RADAR_APIFY_MAX_RUN_POLLS
    MaxCorrReads,       \* HW_RADAR_APIFY_MAX_CORRECTION_READS
    ClosingReserve,     \* _CLOSING_RESERVE: reads kept for the closing read
    SettleDelay,        \* HW_RADAR_APIFY_USAGE_SETTLE_DELAY_S
    StableReads,        \* HW_RADAR_APIFY_USAGE_STABLE_READS
    StableInterval,     \* HW_RADAR_APIFY_USAGE_STABLE_INTERVAL_S
    FinalizeAfter,      \* HW_RADAR_APIFY_USAGE_FINALIZE_DEADLINE_S
    CorrWindow,         \* HW_RADAR_APIFY_CORRECTION_WINDOW_S
    StableMode,         \* RUN_USAGE_SETTLEMENT = stable_reads (else bound)
    CountedMode,        \* POST_RUN_COST_MODE = counted (else bound)
    Target,             \* CYCLE_TARGET_USD
    Allowance,          \* OPERATOR_ALLOWANCE_USD
    WatchReserve,       \* WATCH_REFRESH_RESERVE_USD
    External,           \* EXTERNAL_LIABILITY_USD
    Usable,             \* P = ACCOUNT_LIMIT_USD - account margin
    Figures,            \* usage totals the platform may report
    Excess,             \* whether an answer may show excess that trips the latch
    MaxTime,            \* bound on the clock
    MaxFaults           \* bound on process losses

ASSUME AmountAssumption ==
    /\ {Exec, Post, Call, Margin, Target, Allowance, WatchReserve, External, Usable} \subseteq Nat
    /\ Figures \subseteq Nat
    /\ Allowance + WatchReserve <= Target
ASSUME ReservationAssumption == IsFiniteSet(Resv) /\ Resv # {}
ASSUME LimitAssumption ==
    /\ {MaxRunPolls, MaxCorrReads, ClosingReserve, MaxTime, MaxFaults} \subseteq Nat
    /\ {SettleDelay, StableInterval, FinalizeAfter, CorrWindow} \subseteq Nat
    /\ StableReads \in Nat \ {0}
    /\ Anchors \subseteq Nat /\ Anchors # {}
ASSUME ModeAssumption ==
    /\ {StableMode, CountedMode, Excess} \subseteq BOOLEAN
    /\ Pollers \intersect Smokes = {}

VARIABLES
    now,      \* the clock
    anchor,   \* the configured BILLING_CYCLE_ANCHOR
    cycles,   \* recorded billing cycles (durable)
    held,     \* starts of the cycles this environment holds authority for (durable)
    resv,     \* the reservation rows (durable)
    trip,     \* per row and reason, the overrun latch (durable)
    proc,     \* what each process is doing (lost with it)
    due,      \* the rows its tick has selected for a selector-4 read (lost with it)
    done,     \* when the platform finished the row's work
    billed,   \* latest charge of each row by the platform's clock, and its selector-4 calls
    faults    \* process losses so far, capped by MaxFaults

vars == <<now, anchor, cycles, held, resv, trip, proc, due, done, billed, faults>>
-----------------------------------------------------------------------------
Class == {"watch_refresh", "discovery", "build", "envelope"}
RuntimeClass == {"watch_refresh", "discovery"}
ASSUME ClassAssumption == Classes \subseteq Class
\* "excess" stands for the reasons an answer alone can show: a response over the
\* cap, a usage component outside the allowlist, a restarted run.
Reason == {"overrun", "post_admission_invariant_breach", "excess"}
Processes == Pollers \union Smokes
NoTime == -1
NoFigure == -1
\* Beyond every instant that a charge or a cycle can reach.
Never == MaxTime + CycleLen + Guard + 1
Time == 0..MaxTime
Read == [at: Time, total: Figures \union {NoFigure}]

\* Bounds of a class at admission: the estimate is execution and post-run cost,
\* with a margin unless it is a build; an envelope (inspect, probe) has no figure
\* to re-read, hence no monitoring allowance.
ExecBound(class) == Exec
PostBound(class) == IF class \in RuntimeClass THEN Post ELSE 0
MonitoringBound(class) == IF class = "envelope" THEN 0 ELSE MaxCorrReads * Call
MarginOf(class) == IF class = "build" THEN 0 ELSE Margin
EstimateOf(class) == ExecBound(class) + PostBound(class) + MarginOf(class)
Estimate(w) == EstimateOf(w.class)

Status == {"free", "reserved", "usage_provisional", "reconciled", "denied", "released"}
OpenStatus == {"reserved", "usage_provisional"}
Row == [status: Status,
        class: Class,
        attached: BOOLEAN,                    \* provider_run attached, or build id bound
        reservedAt: Time \union {NoTime},
        anchor: Time \union {NoTime},         \* final_charge_op_at, or a build's finish
        reads: Seq(Read),                     \* apify_usage_read rows until it settled
        corrected: Int,                       \* highest total of those since
        polls: 0..MaxRunPolls,                \* run_poll_count
        settled: Nat,                         \* settled_run_usage_usd
        actual: Nat,                          \* actual_usd
        mon: Nat,                             \* monitoring_bound_usd
        reconciledAt: Time \union {NoTime},
        lastChargeAt: Time \union {NoTime},
        until: Nat \union {NoTime},           \* correction_monitor_until
        closedAt: Time \union {NoTime},       \* correction_monitor_closed_at
        pending: Time \union {NoTime},        \* monitoring_call_pending_since
        monLast: Time \union {NoTime},        \* monitoring_charge_last_at
        nextRead: Nat,                        \* next_usage_read_at
        corrReads: 0..MaxCorrReads]           \* correction_read_count

FreeRow == [status |-> "free", class |-> "build", attached |-> FALSE, reservedAt |-> NoTime,
            anchor |-> NoTime, reads |-> <<>>, corrected |-> NoFigure, polls |-> 0,
            settled |-> 0, actual |-> 0, mon |-> 0, reconciledAt |-> NoTime, lastChargeAt |-> NoTime, until |-> NoTime,
            closedAt |-> NoTime, pending |-> NoTime, monLast |-> NoTime, nextRead |-> 0,
            corrReads |-> 0]

\* A process: down, started but not yet ticking, between units, or in a unit
\* whose call is counted ("read", "monitor") or has been sent as well.  started
\* is PROCESS_STARTED_AT while it is still needed.
ProcPC == {"down", "boot", "idle", "read", "read_sent", "monitor", "monitor_sent"}
Proc == [pc: ProcPC, on: Resv, started: Time]

TypeOK ==
    /\ now \in Time
    /\ anchor \in Anchors
    /\ cycles \subseteq Cycle
    /\ held \subseteq {c.start : c \in cycles}
    /\ resv \in [Resv -> Row]
    /\ trip \in [Resv -> [Reason -> {"never", "open", "cleared"}]]
    /\ proc \in [Processes -> Proc]
    /\ due \in [Processes -> SUBSET Resv]
    /\ done \in [Resv -> Time \union {NoTime}]
    /\ billed \in [Resv -> [run: Int, mon: Int, reads: Nat]]
    /\ faults \in 0..MaxFaults

NoBill == [run |-> -Guard - 1, mon |-> -Guard - 1, reads |-> 0]

Init ==
    /\ now = 0
    /\ anchor \in Anchors
    /\ cycles = {}
    /\ held = {}
    /\ resv = [r \in Resv |-> FreeRow]
    /\ trip = [r \in Resv |-> [c \in Reason |-> "never"]]
    /\ proc = [p \in Processes |->
                  [pc |-> IF p \in Pollers THEN "idle" ELSE "down",
                   on |-> CHOOSE r \in Resv : TRUE, started |-> 0]]
    /\ due = [p \in Processes |-> {}]
    /\ done = [r \in Resv |-> NoTime]
    /\ billed = [r \in Resv |-> NoBill]
    /\ faults = 0
-----------------------------------------------------------------------------
(* What a row debits to a cycle (ledger.py, _tally).                       *)

Touches(from, to, ys, ye) == from <= ye /\ to >= ys

HasObligation(w) == w.class # "envelope"

\* A further selector-4 call is still possible.
MonitoringOpenUnmarked(w) == HasObligation(w) /\ w.closedAt = NoTime /\ w.corrReads < MaxCorrReads
MonitoringOpen(w) ==
    \/ w.pending # NoTime
    \/ HasObligation(w) /\ w.closedAt = NoTime /\ w.corrReads < MaxCorrReads

MonitoringEnd(w) ==
    IF MonitoringOpen(w) THEN Never
    ELSE (IF w.monLast # NoTime THEN w.monLast ELSE w.reconciledAt) + Guard

\* An open row counts in every cycle from its admission on, a reconciled one
\* where its charge interval, widened by the guard, meets the cycle.
RunCounted(w, ys, ye) ==
    \/ w.status \in OpenStatus /\ w.reservedAt <= ye + Guard
    \/ /\ w.status = "reconciled"
       /\ Touches(w.reservedAt - Guard, w.lastChargeAt + Guard, ys, ye)

MonitoringCounted(w, ys, ye) ==
    \/ w.status \in OpenStatus /\ w.reservedAt <= ye + Guard
    \/ w.status = "reconciled" /\ Touches(w.reconciledAt - Guard, MonitoringEnd(w), ys, ye)

RunDebit(w, ys, ye) ==
    IF ~RunCounted(w, ys, ye) THEN 0
    ELSE IF w.status = "reconciled" THEN w.actual ELSE Estimate(w)
MonitoringDebit(w, ys, ye) == IF MonitoringCounted(w, ys, ye) THEN w.mon ELSE 0
Debit(w, ys, ye) == RunDebit(w, ys, ye) + MonitoringDebit(w, ys, ye)

Committed(rows, classes, ys, ye) ==
    SumFunction([r \in Resv |-> IF rows[r].class \in classes THEN Debit(rows[r], ys, ye) ELSE 0])

Runtime(rows, ys, ye) == Committed(rows, RuntimeClass, ys, ye)
Operator(rows, ys, ye) == Committed(rows, Class \ RuntimeClass, ys, ye)
HRCycle(rows, ys, ye) == Committed(rows, Class, ys, ye)
-----------------------------------------------------------------------------
(* The caps (budget.py, decide_admission) and the latch.                   *)

Allocation == Target - Allowance
ClassCap(class) == IF class = "discovery" THEN Allocation - WatchReserve ELSE Allocation

\* The caps for a new row of class in the cycle c.  The next cycle is taken
\* to start after c and to last for ever; only the account is checked there.
Fits(rows, class, c) ==
    LET new == EstimateOf(class) + MonitoringBound(class)
    IN  /\ IF class \in RuntimeClass
           THEN Runtime(rows, c.start, c.end) + new <= ClassCap(class)
           ELSE Operator(rows, c.start, c.end) + new <= Allowance
        /\ HRCycle(rows, c.start, c.end) + new + External <= Usable
        /\ HRCycle(rows, c.end + 1, Never) + new + External <= Usable

LatchTripped == \E r \in Resv, c \in Reason : trip[r][c] = "open"

Tripped(t, r, reasons) ==
    [t EXCEPT ![r] = [c \in Reason |-> IF c \in reasons THEN "open" ELSE t[r][c]]]
-----------------------------------------------------------------------------
(* Admission and the row's binding to what it pays for.                    *)

NewRow(class, admitted) ==
    [FreeRow EXCEPT !.status = IF admitted THEN "reserved" ELSE "denied",
                    !.class = class, !.reservedAt = now,
                    !.mon = MonitoringBound(class)]

\* reserve: the cycle is materialized and authority continued first, then the
\* decision is made on committed rows, and the outcome persisted either way.
\* (The estimator bump and stranded refusals that precede it are in ActorRun.)
Reserve(r, class) ==
    /\ resv[r].status = "free"
    /\ LET c == Derived(anchor, now)
           known == CycleKnown(cycles, anchor, now)
           admitted == /\ ~LatchTripped
                       /\ known
                       /\ c.start \in held'
                       /\ Covers(c, now)
                       /\ Fits(resv, class, c)
       IN  /\ cycles' = EnsureCycle(cycles, anchor, now)
           /\ held' = IF known THEN Continued(cycles', held, {}, c.start) ELSE held
           /\ resv' = [resv EXCEPT ![r] = NewRow(class, admitted)]
    /\ UNCHANGED <<now, anchor, trip, proc, due, done, billed, faults>>

\* claim_origin: the owner attests the first authority of this cycle.
ClaimOrigin ==
    /\ CycleKnown(cycles, anchor, now)
    /\ LET c == Derived(anchor, now)
           continued == IF c \in cycles THEN held ELSE Continued(cycles', held, {}, c.start)
       IN  /\ cycles' = EnsureCycle(cycles, anchor, now)
           /\ c.start \notin continued
           /\ held' = held \union {c.start}
    /\ UNCHANGED <<now, anchor, resv, trip, proc, due, done, billed, faults>>

\* The start job attaches its run, or bind_build the build id.
Attach(r) ==
    /\ resv[r].status \in OpenStatus
    /\ resv[r].class # "envelope"
    /\ ~resv[r].attached
    /\ resv' = [resv EXCEPT ![r].attached = TRUE]
    /\ UNCHANGED <<now, anchor, cycles, held, trip, proc, due, done, billed, faults>>

\* release_unattached_reservations: the start job was lost before the attach.
ReleaseUnattached(r) ==
    /\ resv[r].status = "reserved"
    /\ resv[r].class \in RuntimeClass
    /\ ~resv[r].attached
    /\ resv' = [resv EXCEPT ![r].status = "released"]
    /\ UNCHANGED <<now, anchor, cycles, held, trip, proc, due, done, billed, faults>>

\* settle_operator: an envelope settles at its bound when the operator is done.
SettleOperator(r) ==
    /\ resv[r].class = "envelope"
    /\ resv[r].status \in OpenStatus
    /\ resv' = [resv EXCEPT ![r] = [@ EXCEPT !.settled = Estimate(resv[r]),
                                             !.actual = Estimate(resv[r]),
                                             !.reconciledAt = now, !.lastChargeAt = now,
                                             !.status = "reconciled"]]
    /\ UNCHANGED <<now, anchor, cycles, held, trip, proc, due, done, billed, faults>>

\* apify_budget_reset: refused when nothing is open.
ClearLatch ==
    /\ LatchTripped
    /\ trip' = [r \in Resv |-> [c \in Reason |->
                   IF trip[r][c] = "open" THEN "cleared" ELSE trip[r][c]]]
    /\ UNCHANGED <<now, anchor, cycles, held, resv, proc, due, done, billed, faults>>

\* The owner corrects the anchor after a plan change (a new deployment).
ChangeAnchor ==
    /\ anchor' \in Anchors \ {anchor}
    /\ UNCHANGED <<now, cycles, held, resv, trip, proc, due, done, billed, faults>>
-----------------------------------------------------------------------------
(* Settlement (reconcile.py, _try_settle).                                 *)

\* Reads are named by their positions; S is a set of those.
Totals(w, S) == {w.reads[i].total : i \in S} \ {NoFigure}
EligibleFrom(w) == w.anchor + SettleDelay + Guard
Eligible(w) == {i \in DOMAIN w.reads : w.reads[i].at >= EligibleFrom(w)}

\* The last StableReads eligible reads are spaced and agree.
LastReads(w) == {i \in Eligible(w) : Cardinality({j \in Eligible(w) : i < j}) < StableReads}
Stable(w) ==
    /\ Cardinality(Eligible(w)) >= StableReads
    /\ \A i \in LastReads(w) : w.reads[i].total # NoFigure
    /\ \A i, j \in LastReads(w) :
          i < j => /\ w.reads[j].total = w.reads[i].total
                   /\ w.reads[j].at - w.reads[i].at >= StableInterval

\* What the row may settle at now, if at all: the stable figure, the bound once
\* an eligible figure exists, or the bound at the deadline or the poll cap.
AtBoundUnread(w) == ExecBound(w.class)
AtBound(w) == Max({ExecBound(w.class)} \union Totals(w, DOMAIN w.reads))
Proven(w) == IF StableMode THEN Stable(w) ELSE Totals(w, Eligible(w)) # {}
OutOfTime(w) == now >= w.anchor + FinalizeAfter \/ w.polls >= MaxRunPolls
Settles(w) ==
    /\ w.status \in OpenStatus
    /\ w.attached
    /\ w.anchor # NoTime
    /\ Proven(w) \/ OutOfTime(w)
Usage(w) == IF StableMode /\ Proven(w) THEN Max(Totals(w, Eligible(w))) ELSE AtBound(w)

\* _post_run_cost: the bound, or in counted mode what the counters say, each
\* within its cap, with the margin on top.
PostCosts(w) ==
    IF CountedMode /\ w.class \in RuntimeClass THEN 0..PostBound(w.class) + Margin
    ELSE {PostBound(w.class)}

\* _next_read_at: spaced so that ClosingReserve reads are left at the deadline.
SpacingAtInterval(w) == StableInterval
Spacing(w) ==
    LET slots == Max({MaxCorrReads - ClosingReserve, 1})
    IN  Max({StableInterval, (w.until - w.reconciledAt + slots - 1) \div slots})
NextRead(w) ==
    IF now < w.until THEN Min({now + Spacing(w), w.until}) ELSE now + Max({StableInterval, 1})

Reconciled(w, post) ==
    LET v == [w EXCEPT !.settled = Usage(w), !.actual = Usage(w) + post,
                       !.reconciledAt = now, !.lastChargeAt = Max({w.anchor, now}),
                       !.until = Max({w.anchor, now}) + CorrWindow,
                       !.status = "reconciled"]
    IN  [v EXCEPT !.nextRead = NextRead(v)]

OverrunTrip(w) == IF w.actual > Estimate(w) THEN {"overrun"} ELSE {}
ExcessTrip(excess) == IF excess THEN {"excess"} ELSE {}

\* The row w settles if it may; otherwise it is saved as it is.  reasons are
\* what the answer itself trips for.
TrySettle(r, w, reasons) ==
    IF Settles(w)
    THEN \E post \in PostCosts(w) :
            /\ resv' = [resv EXCEPT ![r] = Reconciled(w, post)]
            /\ trip' = Tripped(trip, r, reasons \union OverrunTrip(Reconciled(w, post)))
    ELSE resv' = [resv EXCEPT ![r] = w] /\ trip' = Tripped(trip, r, reasons)
-----------------------------------------------------------------------------
(* The tick's usage reads: selector 1 polls, selector 2 settlement reads.  *)

\* Between units, with no selected row left: the tick takes its selectors in
\* turn, and each one's rows in turn.
Idle(p) == proc[p].pc = "idle" /\ due[p] = {}
Goto(p, pc, r) == proc' = [proc EXCEPT ![p].pc = pc, ![p].on = r]

\* plan_settlement_read, plan_build_read: a row that can settle without a call
\* settles here.
PlanSettles(p, r) ==
    /\ Idle(p)
    /\ Settles(resv[r])
    /\ TrySettle(r, resv[r], {})
    /\ UNCHANGED <<now, anchor, cycles, held, proc, due, done, billed, faults>>

\* Otherwise one call is counted, and committed before it is sent.  While a
\* run's work goes on it is selector 1 (_count_poll) that does so.  The due times
\* of these units only delay them and are left out.
PlanRead(p, r) ==
    LET w == resv[r]
    IN  /\ Idle(p)
        /\ w.status \in OpenStatus /\ w.attached
        /\ ~Settles(w)
        /\ w.class \in RuntimeClass /\ w.anchor # NoTime => now >= EligibleFrom(w)
        /\ w.polls < MaxRunPolls
        /\ resv' = [resv EXCEPT ![r].polls = @ + 1]
        /\ Goto(p, "read", r)
        /\ UNCHANGED <<now, anchor, cycles, held, trip, due, done, billed, faults>>

\* record_run_usage, record_build_usage: the answer is appended to an open row,
\* which then settles if it may.  A build's finish is learnt from the answer.
RecordUsage(p, total, excess) ==
    LET r == proc[p].on
        w == resv[r]
        seen == [w EXCEPT !.reads = Append(@, [at |-> now, total |-> total]),
                          !.status = IF total # NoFigure THEN "usage_provisional" ELSE @,
                          !.anchor = IF w.class = "build" THEN done[r] ELSE @]
    IN  /\ proc[p].pc = "read_sent"
        /\ IF w.status \in OpenStatus THEN TrySettle(r, seen, ExcessTrip(excess))
           ELSE UNCHANGED resv /\ trip' = Tripped(trip, r, ExcessTrip(excess))
        /\ Goto(p, "idle", r)
        /\ UNCHANGED <<now, anchor, cycles, held, due, done, billed, faults>>

\* The call failed, or its answer was over the response cap, which trips.
ReadFails(p, excess) ==
    /\ proc[p].pc = "read_sent"
    /\ trip' = Tripped(trip, proc[p].on, ExcessTrip(excess))
    /\ Goto(p, "idle", proc[p].on)
    /\ UNCHANGED <<now, anchor, cycles, held, resv, due, done, billed, faults>>
-----------------------------------------------------------------------------
(* Selector 4: correction monitoring.                                      *)

\* select_monitoring: the tick lists the rows that are due, all at once.
Readable(w) ==
    /\ w.status = "reconciled" /\ w.until # NoTime /\ w.closedAt = NoTime
    /\ w.pending = NoTime
    /\ w.corrReads < MaxCorrReads
SelectMonitoring(p) ==
    LET listed == {r \in Resv : Readable(resv[r]) /\ resv[r].nextRead <= now}
    IN  /\ Idle(p)
        /\ listed # {}
        /\ due' = [due EXCEPT ![p] = listed]
        /\ UNCHANGED <<now, anchor, cycles, held, resv, trip, proc, done, billed, faults>>

\* begin_monitoring_read: count the read and mark it pending in one commit.  All
\* but the due time is checked again, on the row as it is now.
BeginMonitoring(p, r) ==
    LET w == resv[r]
    IN  /\ proc[p].pc = "idle"
        /\ r \in due[p]
        /\ due' = [due EXCEPT ![p] = @ \ {r}]
        /\ IF Readable(w)
           THEN /\ resv' = [resv EXCEPT ![r] = [w EXCEPT !.corrReads = @ + 1,
                                                        !.pending = now, !.monLast = now]]
                /\ Goto(p, "monitor", r)
           ELSE UNCHANGED <<resv, proc>>
        /\ UNCHANGED <<now, anchor, cycles, held, trip, done, billed, faults>>

\* _apply_correction: raise, never lower.
CorrectedEitherWay(w, total) ==
    [w EXCEPT !.settled = total, !.actual = @ + total - w.settled]
Corrected(w, total) ==
    IF total <= w.settled THEN w
    ELSE [w EXCEPT !.settled = total, !.actual = @ + total - w.settled]

\* invariant_breaches: the caps, with nothing new, in every recorded cycle the
\* row's charge interval meets.
Breached(rows, class, c) ==
    \/ class \in RuntimeClass /\ Runtime(rows, c.start, c.end) > ClassCap(class)
    \/ Runtime(rows, c.start, c.end) > Allocation
    \/ Operator(rows, c.start, c.end) > Allowance
    \/ HRCycle(rows, c.start, c.end) > Target
    \/ HRCycle(rows, c.start, c.end) + External > Usable
BreachTrip(rows, r) ==
    LET w == rows[r]
    IN  IF \E c \in cycles : /\ Touches(w.reservedAt - Guard, w.lastChargeAt + Guard,
                                         c.start, c.end)
                             /\ Breached(rows, w.class, c)
        THEN {"post_admission_invariant_breach"} ELSE {}
OverrunOnlyTrip(rows, r, raised) == IF raised THEN OverrunTrip(rows[r]) ELSE {}
CorrectionTrip(rows, r, raised) ==
    IF raised THEN OverrunTrip(rows[r]) \union BreachTrip(rows, r) ELSE {}

\* The monitoring allowance of a closed row in counted mode.
ClosedAllowance(w) == IF CountedMode THEN Min({w.mon, w.corrReads * Call}) ELSE w.mon

\* complete_monitoring_read: the marker is cleared whatever the answer; a figure
\* is applied, and closes monitoring at or after the deadline.  The breach check
\* reads the rows as _apply_correction saved them, the marker still set.
CompleteMonitoring(p, total, excess) ==
    LET r == proc[p].on
        w == resv[r]
        fixed == [resv EXCEPT ![r] = Corrected(w, total)]
        closes == now >= w.until
        v == [Corrected(w, total) EXCEPT
                 !.corrected = Max({@, total}), !.pending = NoTime, !.monLast = now]
    IN  /\ proc[p].pc = "monitor_sent"
        /\ trip' = Tripped(trip, r, ExcessTrip(excess)
                                      \union CorrectionTrip(fixed, r, total > w.settled))
        /\ resv' = [resv EXCEPT ![r] =
                       IF closes THEN [v EXCEPT !.closedAt = now, !.mon = ClosedAllowance(v)]
                       ELSE [v EXCEPT !.nextRead = NextRead(v)]]
        /\ Goto(p, "idle", r)
        /\ UNCHANGED <<now, anchor, cycles, held, due, done, billed, faults>>

\* No figure: a failed call, a null total, or an answer over the cap.
MonitoringFails(p, excess) ==
    LET r == proc[p].on
        v == [resv[r] EXCEPT !.pending = NoTime, !.monLast = now]
    IN  /\ proc[p].pc = "monitor_sent"
        /\ trip' = Tripped(trip, r, ExcessTrip(excess))
        /\ resv' = [resv EXCEPT ![r] = [v EXCEPT !.nextRead = NextRead(v)]]
        /\ Goto(p, "idle", r)
        /\ UNCHANGED <<now, anchor, cycles, held, due, done, billed, faults>>
-----------------------------------------------------------------------------
(* The platform's clock may differ from ours by up to the guard; a row     *)
(* counts in an interval of instants, so the two extremes decide.          *)

Skew == {-Guard, Guard}
Billed(r, run, at) ==
    LET b == billed[r]
    IN  [billed EXCEPT ![r] = IF run THEN [b EXCEPT !.run = Max({b.run, at})]
                              ELSE [b EXCEPT !.mon = Max({b.mon, at}), !.reads = b.reads + 1]]

\* The run or build, or an operator inside an envelope, is charged for.
Charge(r) ==
    /\ resv[r].status \in OpenStatus
    /\ resv[r].class = "envelope" \/ resv[r].attached
    /\ done[r] = NoTime
    /\ \E d \in Skew : billed' = Billed(r, TRUE, now + d)
    /\ UNCHANGED <<now, anchor, cycles, held, resv, trip, proc, due, done, faults>>

\* Import decided and storage verified deleted (stamp_work_completion), or a
\* build finished on the platform: nothing charges but usage reads.
WorkCompletes(r) ==
    /\ resv[r].attached
    /\ done[r] = NoTime
    /\ done' = [done EXCEPT ![r] = now]
    /\ resv' = IF resv[r].class \in RuntimeClass
               THEN [resv EXCEPT ![r].anchor = now] ELSE resv
    /\ UNCHANGED <<now, anchor, cycles, held, trip, proc, due, billed, faults>>

\* A counted call reaches the platform and is charged there.
Send(p) ==
    /\ \E d \in Skew :
          \/ /\ proc[p].pc = "read"
             /\ billed' = Billed(proc[p].on, TRUE, now + d)
             /\ Goto(p, "read_sent", proc[p].on)
          \/ /\ proc[p].pc = "monitor"
             /\ billed' = Billed(proc[p].on, FALSE, now + d)
             /\ Goto(p, "monitor_sent", proc[p].on)
    /\ UNCHANGED <<now, anchor, cycles, held, resv, trip, due, done, faults>>

Tick ==
    /\ now < MaxTime
    /\ now' = now + 1
    /\ UNCHANGED <<anchor, cycles, held, resv, trip, proc, due, done, billed, faults>>
-----------------------------------------------------------------------------
(* Process loss and start.                                                 *)

Lose(p) ==
    /\ proc[p].pc # "down"
    /\ faults < MaxFaults
    /\ faults' = faults + 1
    /\ proc' = [proc EXCEPT ![p].pc = "down"]
    /\ due' = [due EXCEPT ![p] = {}]
    /\ UNCHANGED <<now, anchor, cycles, held, resv, trip, done, billed>>

\* PROCESS_STARTED_AT is taken at import time; a smoke then ticks at once.
Boot(p) ==
    /\ proc[p].pc = "down"
    /\ proc' = [proc EXCEPT ![p] = IF p \in Pollers THEN [@ EXCEPT !.pc = "boot", !.started = now]
                                    ELSE [@ EXCEPT !.pc = "idle"]]
    /\ UNCHANGED <<now, anchor, cycles, held, resv, trip, due, done, billed, faults>>

\* resolve_stale_monitoring_markers, once, before the scheduler starts: a
\* marker older than this process is cleared at this process's start.
ResolveMarkers(p) ==
    LET at == proc[p].started
        stale(w) == w.pending # NoTime /\ w.pending < at
    IN  /\ proc[p].pc = "boot"
        /\ resv' = [r \in Resv |->
                      IF stale(resv[r])
                      THEN [resv[r] EXCEPT !.pending = NoTime, !.monLast = Max({@, at})]
                      ELSE resv[r]]
        /\ proc' = [proc EXCEPT ![p].pc = "idle", ![p].started = 0]
        /\ UNCHANGED <<now, anchor, cycles, held, trip, due, done, billed, faults>>
-----------------------------------------------------------------------------
RowNext(r) ==
    \/ \E class \in Classes : Reserve(r, class)
    \/ Attach(r)
    \/ ReleaseUnattached(r)
    \/ SettleOperator(r)
    \/ Charge(r)
    \/ WorkCompletes(r)

ProcNext(p) ==
    \/ \E r \in Resv : PlanSettles(p, r)
    \/ \E r \in Resv : PlanRead(p, r)
    \/ SelectMonitoring(p)
    \/ \E r \in Resv : BeginMonitoring(p, r)
    \/ Send(p)
    \/ \E total \in Figures \union {NoFigure}, e \in {FALSE, Excess} : RecordUsage(p, total, e)
    \/ \E e \in {FALSE, Excess} : ReadFails(p, e)
    \/ \E total \in Figures, e \in {FALSE, Excess} : CompleteMonitoring(p, total, e)
    \/ \E e \in {FALSE, Excess} : MonitoringFails(p, e)
    \/ Lose(p)
    \/ Boot(p)
    \/ ResolveMarkers(p)

OwnerNext == ClaimOrigin \/ ClearLatch \/ ChangeAnchor

Next ==
    \/ Tick
    \/ OwnerNext
    \/ \E r \in Resv : RowNext(r)
    \/ \E p \in Processes : ProcNext(p)

Spec == Init /\ [][Next]_vars
-----------------------------------------------------------------------------
(* Properties.                                                             *)

\* Whenever the platform charges for a run, a build or one of their usage reads,
\* by its own clock, the row counts in the cycle of that instant: "every
\* settlement poll was sent before this commit, so reconciled_at covers them"
\* (_try_settle's last_charge_at against _tally's charge interval).
RunChargesCounted ==
    \A r \in Resv :
        billed[r].run # NoBill.run => RunCounted(resv[r], billed[r].run, billed[r].run)

\* The same for selector-4 reads: "while the marker is set the monitoring
\* interval stays open, so a worker suspended across a cycle boundary still
\* debits the cycle its read lands in" (begin_monitoring_read), and a marker a
\* lost process left is resolved no earlier than its read.
MonitoringChargesCounted ==
    \A r \in Resv :
        billed[r].mon # NoBill.mon => MonitoringCounted(resv[r], billed[r].mon, billed[r].mon)

Overran ==
    \E r \in Resv : \E c \in {"overrun", "post_admission_invariant_breach"} : trip[r][c] # "never"
CapsKept(rows, c) ==
    /\ Runtime(rows, c.start, c.end) <= Allocation
    /\ Operator(rows, c.start, c.end) <= Allowance
    /\ HRCycle(rows, c.start, c.end) + External <= Usable
AdmittedBy(t) == [r \in Resv |-> IF resv[r].reservedAt <= t THEN resv[r] ELSE FreeRow]

\* What the rows admitted by the end of a recorded cycle debit to it stays within
\* the runtime allocation, the operator allowance and the account, through their
\* settlement and later corrections, unless one cost more than what settlement
\* had freed or admission had reserved and the latch recorded it (reserve,
\* _try_settle, _apply_correction): the runs themselves in every cycle, with
\* their monitoring allowances in a cycle that admitted one.
AdmittedRuns(classes, c) ==
    SumFunction([r \in Resv |-> IF resv[r].class \in classes /\ resv[r].reservedAt <= c.end
                                THEN RunDebit(resv[r], c.start, c.end) ELSE 0])
RunCapsKept(c) ==
    /\ AdmittedRuns(RuntimeClass, c) <= Allocation
    /\ AdmittedRuns(Class \ RuntimeClass, c) <= Allowance
    /\ AdmittedRuns(Class, c) <= Max({Usable - External, 0})
AdmittedIn(classes, c) ==
    \E r \in Resv : /\ resv[r].status \notin {"free", "denied"} /\ resv[r].class \in classes
                    /\ Covers(c, resv[r].reservedAt)
AdmittingCapsKept(rows, c) ==
    /\ AdmittedIn(RuntimeClass, c) => Runtime(rows, c.start, c.end) <= Allocation
    /\ AdmittedIn(Class \ RuntimeClass, c) => Operator(rows, c.start, c.end) <= Allowance
    /\ AdmittedIn(Class, c) => HRCycle(rows, c.start, c.end) + External <= Usable
RunCapsOrLatch == Overran \/ \A c \in cycles : RunCapsKept(c)
CapsOrLatch ==
    /\ RunCapsOrLatch
    /\ Overran \/ \A c \in cycles : AdmittingCapsKept(AdmittedBy(c.end), c)

\* With the monitoring allowances in every recorded cycle: a correction re-checks
\* "every billing cycle the row's charge interval touches" (MS2-D-47).  It does
\* so for the recorded ones, and a cycle is recorded by the first request made
\* in it, after which nothing re-checks it.
CapsWhenRecorded == Overran \/ \A c \in cycles : CapsKept(AdmittedBy(c.end), c)

\* The same for every row a cycle counts: "Charges count toward every cycle
\* their billing time can touch, and admission is conservative for a run whose
\* worst-case cost could straddle a cycle boundary" (ADR-0021).  A row admitted
\* within the guard after a boundary counts in the cycle before it as well,
\* and reserve does not check that one.
CapsInEveryCycle == Overran \/ \A c \in cycles : CapsKept(resv, c)

\* The selector-4 calls charged for a row never cost more than the allowance
\* still debited for them, although calls are lost with their process and
\* counted mode lowers the allowance when monitoring closes.
ReadsWithinAllowance ==
    \A r \in Resv : billed[r].reads * Call <= resv[r].mon

\* Whatever the platform charges for a row, when it charges it, the ledger
\* counts in every cycle the charge can fall in, and at its full amount.
ChargesCounted == RunChargesCounted /\ MonitoringChargesCounted /\ ReadsWithinAllowance

\* A settled row is never below its evidence: every eligible figure read before
\* it settled and every figure read since (_try_settle, _apply_correction).
NeverBelowEvidence ==
    \A r \in Resv :
        LET w == resv[r]
        IN  w.status = "reconciled" /\ w.class # "envelope" =>
               /\ \A i \in DOMAIN w.reads :
                     \/ w.reads[i].at < EligibleFrom(w) /\ StableMode
                     \/ w.reads[i].total <= w.settled
               /\ w.corrected <= w.settled
               /\ w.settled <= w.actual

\* No instant belongs to two recorded cycles, however the owner moves the
\* anchor (ensure_cycle's conflict cases and clamp).
CyclesDisjoint ==
    \A c, d \in cycles : c = d \/ c.end < d.start \/ d.end < c.start

\* Until the deadline, the periodic reads of one process leave ClosingReserve of
\* them for the closing read, but for those lost with it (_next_read_at,
\* select_monitoring).
ClosingReadKept ==
    \A r \in Resv :
        LET w == resv[r]
        IN  w.status = "reconciled" /\ w.until # NoTime /\ now < w.until =>
               w.corrReads <= Max({MaxCorrReads - ClosingReserve, 1}) + faults

\* A settled amount is final upwards: it is never lowered, a closed row is
\* never reopened and no row leaves reconciled, released or denied.
SettledOnlyRises ==
    [][\A r \in Resv :
          /\ resv[r].status = "reconciled" =>
                 /\ resv'[r].status = "reconciled"
                 /\ resv'[r].actual >= resv[r].actual
                 /\ resv[r].closedAt # NoTime => resv'[r].corrReads = resv[r].corrReads
          /\ resv[r].status \in {"released", "denied"} => resv'[r] = resv[r]]_vars
=============================================================================
