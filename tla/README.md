# hw-radar: specifications, model checks and proofs

hw-radar watches shops for storage hardware. A poller process collects
listings, directly or by paying for Actor runs on the Apify platform, resolves
them to catalogue products and judges them against watches. This directory
specifies the parts of it where ordering, failure and money meet.

Paths below are relative to `src/src/hw_radar/`.

## 1. Inventory

| Component | State it keeps | Operations | Talks to |
|---|---|---|---|
| Start job (`acquisition/apify/jobs.py`) | `provider_run` row, `start_error`, `start_mismatch` | check, admit, create, start, record, trip, reject, abort | ledger, platform, importer |
| apify-poll tick (`jobs.py`) | poll counts, back-off | four selectors and their units, two repair sweeps | platform, importer, cleanup, settlement |
| Staged import (`importer.py`, `provider.py`) | `import_state`, read counts, the `ScraperRun` | claim, five stages, reject | platform, observations, absence, resolver, evaluator, scheduling |
| Storage cleanup (`storage_cleanup.py`) | `storage_state`, attempts, verified deletions, `orphaned_start_at` | begin, abort/confirm, delete, finish, stranded sweep | platform, latch, settlement anchor |
| Spend ledger (`ledger.py`, `budget.py`) | reservations, cycles, latch rows | reserve, trip, clear on bump, owner reset | start job, tick |
| Settlement (`reconcile.py`) | usage reads, anchor, settled amounts, correction counters | stamp, settle, release, monitor | tick |
| Authority and handoff (`ledger.py`) | `ApifyLedgerAuthority` | claim, export, import, continue | two environments, operator |
| Source scheduling (`acquisition/scheduling/`) | lifecycle, two lanes, back-off, token buckets, checkpoint | admission, apply outcome, checkpoint | poller, importer, pipeline |
| Poller (`poller/`) | the APScheduler jobs of one process | poll, heartbeat, probes, dead-man push | everything above |
| Observations and absence (`acquisition/stages.py`, `persist.py`, `providers.py`) | listings, snapshots, presence, sweep continuity | observe, continuity, delist | importer, pipeline |
| Local pipeline (`pipeline.py`, `heartbeat.py`, `sources/`) | `ScraperRun` | fetch, parse, persist, resolve, evaluate | sources, scheduling |
| Resolution (`matching/`) | listing resolutions | normalize, ladder, resolve | catalogue |
| Eligibility (`eligibility/`) | verdicts, shortlist | evaluate, re-evaluate | watches |
| Reference data (`refdata/`) | products, evidence | load, refresh | catalogue |
| Retention (`purge_expired.py`) | expiries | purge, redact | observations |
| Synthetic Actor (`actors/`) | run budgets, OUTPUT record | collect | platform |

What is hard here: every remote call is an await at which other coroutines, a
second process running the same tick (`apify_smoke` beside the poller), the
owner's reset command and process loss can step in; a lost start response may
have started a billable run; a 404 may mean absence or a masking token; the
mark that removes a row from all selectors must not be separated from the
alarm it raises; two barrier transactions race to set the settlement anchor;
four code paths can decide one import. `PROJECT.json` lists these at their
lines as hazards.

What makes each part correct:

- start, tick and cleanup: nothing charges outside the ledger; a reservation
  settles only when nothing can charge any more; storage is never removed under
  work that needs it; every run ends in a visible state;
- import: decided once, its outcome applied once, rejected only before stage 1
  committed;
- latch: never lost, never undone by anyone but the owner, an owner's reset
  final;
- ledger: admitted spend of a cycle never exceeds its envelope;
- handoff: one environment at a time has authority over a cycle, and all of them
  together keep one cap;
- scheduling: no lost pause, no token handed out twice across a crash, no job for
  a blocked source, a monitor that goes silent once a source is no longer
  collected;
- observations: presence and absence follow observation time, not commit order,
  and absence is believed only where the site really was swept;
- collection by an Actor: a run is called complete only if it holds all there is;
- resolution: what an undisturbed resolution accepts fits the listing, and the
  listing converges once nothing changes any more (but for a part number whose
  decode is at odds with its seeded siblings, section 4);
- eligibility: what is shown as current is what an evaluation would say now, and
  no verdict rests on an unknown fact.

## 2. Modules

| Module | What it is |
|---|---|
| `ActorRun` | One paid run from start job to settlement: `jobs.py`, `importer.py`, `storage_cleanup.py`, and what they use of `ledger.py` and `reconcile.py` |
| `BillingCycles` | Recorded billing cycles and continued authority, as pure operators: `ensure_cycle`, `billing_cycle_bounds`, `_ensure_continued_authority` |
| `SpendLedger` | The money: admission against a cycle's caps, debits, settlement, corrections and selector 4: `ledger.py`, `budget.py`, `reconcile.py`, the ledger units of `jobs.py` |
| `CycleAuthority` | What the ledgers of all environments promise together |
| `LedgerHandoff` | The ledgers of several environments: claim, continuation, export, import (`ledger.py`, the two commands); implements `CycleAuthority` |
| `Poller` | One source in the poller: `acquisition/scheduling/`, the jobs, the executor, the dead-man push and the boot of `poller/` |
| `Collection` | What overlapping runs of a site do to its listings: `stages.py`, `persist.py`, `providers.py`, retention in `market.py` and `purge_expired.py` |
| `ActorCollection` | One collecting run, in the synthetic Actor and in the importer that judges it: `core.py`, `main.py`, `contract.py`, `provider.py`, the paged read of `client.py` |
| `Resolution` | One listing and the catalogue: `resolver.py`, `ladder.py`, `categories.py`, `mpn.py`, the loop of `refresh.py` |
| `Eligibility` | One listing and one watch: `evaluate.py`, `requirements.py`, `service.py`, `shortlist.py`, `evaluate_watches` |
| `MC...` | Instances of a module for TLC |
| `ActorRunProofs`, `SpendLedgerProofs`, `LedgerHandoffProofs`, `CollectionProofs`, `ActorCollectionProofs`, `EligibilityProofs`, `PollerResolutionProofs` | Theorems about the module each is named after; the last about two that share nothing but the poller's thread, which is why `Resolution` says `ResolutionSpec`, `task` where `Poller` says `Spec`, `job` |
| `FiniteSums` | Lemmas about sums and maxima over finite sets, for the proofs |

The modules meet where the components do. `ActorRun` has the run that charges,
`SpendLedger` what it costs, `LedgerHandoff` who may spend. An import that
`ActorRun` decides is the `ImportDecided` of `Poller` and a remote run of
`Collection`; the verdict `ActorCollection` gives it is what `Collection` takes
as complete or incomplete. `Collection` has the listing's presence,
`Resolution` its product, `Eligibility` its verdict, over the same row.

Each module has one type invariant, `TypeOK` (`ResolutionTypeOK`), the first thing checked while the
module is changed. Only `ActorRun`'s is kept in a run: it carries more than types.

### ActorRun

State. `row` holds the durable `provider_run` rows, `resv` the reservations'
status, `trip` the latch rows by run and reason (never tripped, open, reset by
the owner, cleared by an estimator bump), `remote` the platform (external).
`start` and `unit` are the program counters of the start jobs and of the unit
each process is executing; they are what a crash loses.

Steps. One action is one committed transaction or one remote call. Between two
actions of a coroutine anything else may happen, which is exactly what an
`await` allows. The actions follow the functions they are mapped to in
`PROJECT.json`; where a function has several outcomes they are disjuncts
(`GetRun`, `Fetch`, `Stage1Commit`) or separate actions (`BeginNothing`,
`BeginOrphan`, `BeginAtCap`, `BeginAttempt` are `_begin`; `PlanSettles` and
`PlanSettlement` are `plan_settlement_read` that settles and that waits or counts
a read). A restart the platform reports is recorded in one transaction and
reaches the latch in a second one (`_record_observation`): the unit holds
`restarted` until `TripRestart`, a start job goes through `trip_restart`, and a
crash between the two loses the trip.

Abstractions. Time is events: `DeadlinePasses` sets `due`, a back-off or a
grace is the choice not to act yet, which allows every real schedule; that the
finalize deadline ends the waiting is the fairness of `PlanSettles`. Money is
left out: a reservation is open, settled or released. A run's scope, source and
kind are one value, `ScopeOf`. The dataset and OUTPUT record are good or bad
(`usable`). All reasons for which only the platform's behaviour can trip the
latch, and that no property tells apart, are one: `observed_excess`. An
`account_limit_refused` trip, a mismatch, an orphan and an exhausted cleanup
are kept apart. Storage ids the start response lacked are a delete that
verifies nothing.

`apify_smoke` is a process with a start job outside the scheduler
(`OwnStarter`); it ticks once its start is over, beside the poller.

### SpendLedger

State. `cycles` and `held` are the recorded cycles and the authority held,
`resv` the reservation rows with the columns that decide debits, settlement and
monitoring, `trip` the latch, all durable. `proc` is what each process has
counted and not yet completed; a loss drops it. `done` and `billed` are the
platform: when the work ended, and the latest charge of each row by the
platform's clock, for its run and for its selector-4 reads. No action reads
`billed`: it is there for the properties.

Steps. Every transaction of the ledger holds the budget advisory lock from its
first statement, so each is one action. A counted call is three: the commit
that counts it (`PlanRead`, `BeginMonitoring`), the request that reaches the
platform and is charged there (`Send`), the commit that applies its answer.
What is due for monitoring is selected before that, without the lock
(`SelectMonitoring`, the list is `due`), and the count does not ask again
whether it is: two processes that selected the same row both read it
(`SpendReaders`), one process never does.
The clock ticks between any two of them, which is a suspended worker. A poller
that starts takes its start time first (`Boot`) and resolves stale markers
before it ticks (`ResolveMarkers`); an `apify_smoke` process ticks at once.

`ActorRun` and `SpendLedger` meet at the reservation: `ActorRun` has the run
that charges, with a reservation that is open or settled; `SpendLedger` has the
amounts, with a run that charges until its work is complete (`WorkCompletes`
is the commit that `AnchorExact` is about).

Abstractions. A tick is the clock's resolution, the 1 ms by which a cycle ends
before its successor starts; months have one length. Price formulas are three
bounds, execution, post-run and one call, and what the margin adds; rows of a
class share them. Settings are valid, so what remains of `decide_admission` is
the latch, authority, the cycle and the caps. Nothing is carried over from a
handoff. The platform's clock is off by at most the guard: since a row counts
in an interval of instants, its two extremes decide. Spacing of monitoring
reads is rounded up to ticks. The due times of polls and settlement reads only
delay them and are left out. Latch reasons that an answer alone can show are
one, `excess`; the estimator bump is in `ActorRun`.

### LedgerHandoff and CycleAuthority

State. Per environment the cycles it has recorded, an authority row per cycle
with the columns `exported` and `imported`, and whether spending is enabled; the
operations' rows. Nothing is shared: environments have databases of their own,
and the only message between them is the record an export stores, which may be
lost, kept, imported late, twice, or in the wrong place.

Steps. Each command and each admission is one transaction under its
environment's budget lock. Export drains, binds and builds the record in one;
import refuses another destination, another cycle, and a cycle it has a row for.

Refinement. `CycleAuthority` is one ledger for the account: at most one holder
of a cycle, and only the holder raises what counts in it, within one cap.
`PoolSpec` maps `holder` to whoever holds and `spent` to the sum over all
environments. It is a refinement of safety: an abandoned cycle may stay without
a holder.

Abstractions. A cycle is its number, the caps are one, settlement is one step
(`SpendLedger` has its detail). `Attested` is the owner's word at an origin
claim, taken in the strong reading: no other environment has authority in the
cycle, will have it on its next use, waits for a record, or has work that counts
in it. That none has admitted anything in this cycle is not enough, since
authority continues into it silently.

### Poller

State. The source's configuration, its managed row, its two lanes (durable); the
jobs, the buckets and the connection of the process, which a loss drops; the
checkpoint; and off the box whether the monitor was fed since the last tick. Times are countdowns and ages that stop at the first value that
matters, so the clock needs no bound.

Steps. `poll`, `heartbeat` and `probe` each read the rows, pass the gate or are
denied, collect, and apply an outcome in one transaction; they interleave
everywhere. `Lose` and `Boot` are the process, `DbLost` and `DbBack` the database
under it, `DeadmanPush` and `Checkpoint` their jobs. An Actor-backed source only
starts a run here; its outcome comes with `ImportDecided`.

`MonitorGoesQuiet` follows the alert from end to end: if from some time on no
collection of a source succeeds and no process starts, the monitor is fed no more.
Why collection stopped is left open: jobs fail, hang, are denied, paused by the
lifecycle or no longer run, heartbeats alone go on answering, the process is gone,
the database is. A process that restarts for ever is excepted, because the code
grants each start a window; so is a source whose only job is its heartbeat, which
leaves no evidence to judge.

Both lanes of a source share one rot counter: a heartbeat's success resets what
the full lane counts up. That is the code's design and is modelled as it is.

### Collection

State. The runs with the batch each holds, the listings, their snapshots, and
per scope the watermarks: since when swept without a break, newest eligible
sweep, newest break, newest complete sweep. The keys a batch saw, by scope, and
which scopes were empty or complete are chosen freely within what the site's
adapters can report.

Steps. `Fetch`, `Persist` (one transaction for the batch), `ApplyAbsence` (one per
swept scope, in any order), `Succeed`, `Fail`, `Reject`, `Purge`. Runs overlap and
any of them may be lost between two transactions.

Abstractions. A run's start and its batch's fetch are one instant. Prices and
texts are the time of the observation they come from: that is what tells a
newer one from an older. Three shapes of site: eBay (bounded content, both local
lanes), one collected by Actors only, and a mixed one. No registered adapter
reaches stale absence today; the mixed site is the default that the code
supports.

### ActorCollection

State. The Actor's counters, where it is, the platform's status, dataset and
OUTPUT; what the importer has read, and its verdict. `disturbed` is history:
the clock, the network or the platform interfered.

Steps. One network read, one page, one store at a time: rows, then OUTPUT, then
the exit status, and the platform may end the run between any two. The importer
reads the dataset page by page; classification is `classify_run` with its whole
precedence.

The synthetic Actor is `conduct = "synthetic"`. Actors that leave its declared
count checks out ("unchecked") or answer for another scope ("misdirected") are
the faults `classify_run` is written against. Input validation repeats
hw-radar's own and is left out: an admitted run has a valid input.

### Resolution

State. The listing's text and accepted state, the current edge and the edge its
decision came from, the catalogue (reference data, learned aliases, variants),
the matcher's version, and what each of two resolvers has read.

Steps. Read (listing, then hint, catalogue and prior), run the ladder, apply
under the lock with every branch of `_apply`; a ladder crash and a failing apply
write what the code writes. All database work of the poller is on one thread,
the scheduled refresh included, so there a resolution is never interleaved; only
a refresh started by hand overlaps. `deployment` chooses between that and
failures.

Abstractions. A text is what the extractors read out of it. One attribute stands
for all hard ones, the condition for the variant tuple. `CatalogAssumption` is what
the code guarantees of a catalogue: every alias names a model of a family, only the
category that has a grammar decodes, and to its own families
(`matching/rules/__init__.py:20`). A condition that is asserted is not denied
(`matching/vocab.py:521`).

Properties. `Agrees(x, t)` is what a product must satisfy for a text: category,
brand, attribute, condition, one unit, no identifiers that name different models. It
is weaker than a first reading of the code suggests in two places, both found by
trying to prove it. An OEM number may name two models; a prior that only it names is
inherited although another number of the text names the other one, which
`prior_model_not_named` concedes, so what is asked is that some one model is named by
all numbers that name any. And of a family, rung 2 compares the text's attribute with the
part number's decode, rung 0 with the seeded members', so either may be what the
product agrees with. A title whose attribute fits the decode and not the one
attribute seeded for the family (`DecodeDividesRungs`) is therefore accepted by rung 2
and vetoed by rung 0 in turn, for as long as the catalogue stays so: `ResolutionFlap`.
The instance has such a title, and `Converges` and `NoFlapping` except exactly these
states.

With a refresh by hand overlapping a poll, `OriginDecidedTarget` does not hold:
the prior is read apart from the edge, so a decision can fall between them
(`ResolutionOverlap`). It heals at the next undisturbed resolution, so `Converges`,
with its exception, holds in that deployment as well, and `OriginDecidedTarget` is
stated for the other ones only.

### Eligibility

State. The listing, its snapshots with their expiry, the sweeps, the current
edge, the typed specs, the watch with its version, the stored row with its five
bindings, and the reads of the evaluation in progress.

Steps. An evaluation is its reads in the code's order, then the write under the
listing's lock; between them anything may change. Runs of a lane observe (also
late), resolve, evaluate or give up; the command `evaluate_watches` evaluates
what is pending; the owner saves requirements; a catalogue edit, a sweep and the
purge come at any time.

Abstractions. The clauses of four categories are one attribute, one offer and
the vendor lock. No sweep falls on the instant of another run's observation, and
the run has one scope, as every source has whose site is searched once. Over two
scopes `CurrentIsRight` does not hold (section 4, `EligibilityScopes`).

## 3. Runs

| Run | Instance | Shows |
|---|---|---|
| `one_run` | 1 run, 1 process, 2 polls, 2 reads, 2 delete attempts, 1 fault, trusted 404, platform excess; fair | `TypeOK`, `AnchorExact`, `OutcomeOnce`, `NoDeleteUnderWork`, `OwnerResetFinal`, `RejectsOnlyUncommitted`, `EveryRunResolved` |
| `two_executors` | 1 run, 2 processes ticking, masking token, 1 fault | `TrackedSpend`, `SettledMeansQuiet`, `LatchCommitted` |
| `two_runs` | 2 attempts of one scope, 1 process, polls 0, reads 1, deletes 1, 1 fault | `OneOutstandingFull`, `RefusalStopsAdmission` |
| `mismatch_crash` | 1 run, 1 process, 1 fault | violation of `MismatchLatched` |
| `spend_one` | 1 run reservation, 1 poller, anchors 0 and 1, cycles of 3 ticks over 5, guard 1, counted costs, 2 monitoring reads of which 1 kept for closing, 1 fault | `ChargesCounted`, `NeverBelowEvidence`, `CyclesDisjoint`, `ClosingReadKept`, `SettledOnlyRises` |
| `spend_caps` | 2 reservations of any class, one poller, one anchor, stable reads, 2 cycles | `CapsOrLatch` |
| `handoff` | 3 environments, 2 cycles, 2 operations, a cap that holds one and a half of them, one late correction; symmetric | `OneAuthority`, `ExportIsFinal`, `PoolSpec` |
| `poller` | 5 profiles of a source, windows, bursts and thresholds of 1 and 2; time passes | `BlockedNeverRuns`, `PauseHolds`, `MonitorGoesQuiet`, `RestartKeepsDomain` |
| `collection` | 1 key, NULL and one scope, 3 runs (2 for eBay), 4 instants, grace 1, tolerance 1 | `ActiveOutlivesSweeps`, `OrderDoesNotMatter`, `EndedContentRetired`, `OwnSightingKept`, `StaleAbsenceProven` |
| `actor_collection` | 11 sources of 1 or 2 pages, 6 sets of caps, every faultMode, reads of 2 bytes; fair | `CompleteMeansWhole`, `HonestReportStands`, `EveryRunIsJudged` |
| `resolution` | 17 texts, an OEM number that names two models and a title at odds with a seeded sibling among them, 3 models of 3 families and 2 categories, 1 edit, 2 matcher versions, 1 failure or an overlapping refresh; fair | `OriginDecidedTarget`, `QuietResolveAgrees`, `Converges`, `NoFlapping` |
| `eligibility` | 1 scope, 2 models of a family, 5 offers, 3 requirements, 1 catalogue edit, 1 save, 1 edge, 2 instants | `CurrentIsRight`, `VerdictIsProven`, `KeptNoLonger` |

Three properties are conjunctions. `EveryRunResolved` is: storage deleted or
visibly given up on, import decided, and every reservation, attached or not,
settled or released unless its run's storage was given up on. `ChargesCounted`
is: run charges and monitoring charges debited where they land, monitoring reads
within their allowance. `VerdictIsProven` is: a match and a no_match each proven.

Bounds. Two is the smallest value of a cap that has a first try, a last try
and a try that fails between them; one fault reaches every single crash point,
and the retry bound of a serialization failure is counted with it. Runs share
only the latch and the outstanding check, so two runs exhibit every way they
meet; `two_runs` keeps the other counters small to afford them. A second
process is where all executor races are. `MaxRunPolls = 0` in `two_runs` skips
polling: runs are then resolved by the overdue path, which is the one that
overlaps a new start.

In the spend runs the horizon spans two cycle boundaries where a property is
about debits, so that a call counted in one cycle can land two cycles later;
settlement, window and guard are one or two ticks against a cycle of two or
three, so that every one of them can straddle a boundary. A usage figure is one
below and one above the execution bound, so that settlement frees an amount and
a correction takes it back. Two reservations suffice for the caps because a cap
is a sum: one row is what was admitted, the other what is being admitted. The
caps run leaves `billed` out of the view, since no action and no property of it
reads it.

Three environments are the least with a chain of handoffs and a bystander; two
cycles the least with a rollover. With a cap of one and a half operations the
importing environment may admit only if it counts what was carried in. One key
suffices in `collection` because no transaction relates two listings of a batch
but through the scope's watermarks; three runs are an older, a newer and one
that bridges them. In `poller` every window is one tick beyond the value that
matters, and a rot threshold of 2 tells one failure from a trip. A network read of
2 bytes splits a page of 4, caps sit on and next to what a source holds. In
`resolution` every text differs from the plain one in the one thing a rung or
guard looks at.

Deadlock checking is off where the system may really stop or waits for its
owner: a system whose runs are all settled, or whose clock has reached its
bound, has nothing left to do.

Fairness. In `one_run` a start job and a unit that began go on (weak fairness:
coroutines of a live process are scheduled); the interval job runs tick after
tick and its two opening sweeps run before the selectors (strong fairness: each
tick offers them, units in between disable them); deadlines pass, the finalize
deadline too: a row planned for again and again is settled at last (strong fairness
of `PlanSettles`: `_try_settle` settles once the deadline is behind). Nothing is
assumed of the platform: it may never finish a run, lose every answer and refuse
every delete. In `actor_collection` the Actor's own steps, its deadline, its
timeout on a read and the importer go on; the source owes nothing, a byte at a
time included, and the platform need not end a run. In `resolution` the source
is polled again and again and the refresh is a scheduled job (strong fairness:
each is disabled while the other has the thread). In `poller` only time passes: no
job is promised a turn, since `MonitorGoesQuiet` is about jobs that do nothing or
fail. The other runs check safety.

## 4. Where the code departs from what it says

`mismatch_crash` is the finding in `PROJECT.json`: a process lost between
`_record_start` and the trip is repaired only by selector 2's unit, and only
while the import is undecided. If the deadline passes first, the overdue unit
decides it and the mismatch never reaches the latch, although the comment at
`acquisition/apify/jobs.py:1041` says that such a crash is covered.

The configurations below are not part of the runs; each shows one more
disagreement, found the same way, and TLC reports the property violated.

| Configuration | Property | What happens, and what it contradicts |
|---|---|---|
| `ActorRunSmoke` | `OneOutstandingFull` | Two `apify_smoke` processes both start a FULL run: the check is not locked and "relies on the per-source `poll-{key}` job being the only FULL Actor starter" (`acquisition/apify/jobs.py:597`), while `apify_smoke.py:185` is another |
| `ActorRunDuplicate` | `RejectsOnlyUncommitted` | Of two executors one may reject what the other has committed: "Every transition is a compare-and-set" (`acquisition/apify/importer.py:8`), but not the rejection at line 223 |
| `ActorRunReset` | `OwnerResetFinal` | A reset can be undone by a cleanup attempt in flight, against `acquisition/apify/storage_cleanup.py:78` |
| `SpendGuard` | `CapsInEveryCycle` | A row admitted within the guard after a boundary counts in the cycle before as well, which `reserve` does not check; "admission is conservative for a run whose worst-case cost could straddle a cycle boundary" (`docs/adr/adr-0021-hybrid-acquisition-apify.md:203`) |
| `SpendUnrecorded` | `CapsWhenRecorded` | An upward correction reaches into a month in which nothing was asked for yet, so that no cycle row exists and `_trip_caps` (`acquisition/apify/reconcile.py:968`) does not look at it; the cycle is recorded by a later request and starts above a cap with the latch free, although MS2-D-47 re-checks "every billing cycle the row's charge interval touches" (`docs/superpowers/plans/2026-09-24-ms2-multi-category-watch-core.md:3668`) |
| `SpendSmoke` | `MonitoringChargesCounted` | A restarting poller resolves the marker of a read that `apify_smoke` has counted and not sent: "The poller is the only sender of selector-4 reads" (`acquisition/apify/reconcile.py:1039`) |
| `SpendReaders` | `ClosingReadKept` | A poller and an `apify_smoke` both select a row that is due, and each counts a read of it: `begin_monitoring_read` re-checks status, marker and cap under the lock, not the due time, so the second read comes at once and uses up one of those that "spaced to keep three reads for the closing read" (`acquisition/apify/reconcile.py:365`) promises |
| `PollerRestart` | `RestartKeepsBuckets` | `build_scheduler` configures each scheduled source's bucket afresh after the checkpoint was loaded (`poller/service.py:666`), so a restart fills it; the checkpoint promises "no refill credit across restart" (`acquisition/scheduling/checkpoint.py:3`) |
| `ResolutionFlap` | `NeverFlaps` (`NoFlapping` without its exception) | The refresh accepts the family a part number decodes to; the next poll, with that family as its prior, finds the title's capacity at odds with the only member seeded and demotes it to review, and so on, two edges a round, while "re-polls never flap" (`matching/resolver.py:702`) |
| `ResolutionOverlap` | `OriginDecidedWhateverOverlaps` | A refresh by hand has read the listing's old text and applies its verdict between a poll's ladder and its apply; the poll's verdict, inherited from the product before, is in another category and is written over it, so the edge the product rests on is not the newest one that was decided, against "no fresh decision sits between the origin and later rung-0 edges" (`matching/resolver.py:667`) |
| `EligibilityScopes` | `CurrentIsRight` | A run that is late for a listing's scope appends its snapshot and leaves the listing as it is (`acquisition/persist.py`), but an evaluation takes the snapshot last observed (`_latest_snapshot`, `eligibility/evaluate.py:697`); an older observation that is eligible for the listing's other scope then rewrites the listing under the same five bindings, and a stale verdict is shown as current, where `catalog/models/watch.py:226` promises "non-current (`pending`) rather than a stale pass" |
| `EligibilityUnassessed` | `ResolvedFromThis` | A listing whose resolution raised is skipped by its run so as to stay pending (`acquisition/pipeline.py:598`), and `evaluate_pending` then evaluates it on the old edge (`eligibility/service.py:342`) |

What holds in their place is in the runs: `CapsOrLatch` (the runs admitted by the end
of a recorded cycle keep its caps, and with their monitoring allowances too in a
cycle that admitted one of them), `RestartKeepsDomain` (the bucket shared by a domain's
sources is restored), and the properties of `one_run`, `two_runs`, `spend_one` and
`eligibility` under the assumption that the configuration drops: one executor,
every start the scheduler's, one scope. The theorems of section 5 state these
assumptions by name. `RunChargesCounted` has the same limit: `reconciled_at` covers the settlement
polls of the process that settles, not one that a second process has counted and
not sent yet.

## 5. Proofs

Every theorem is for all values of the constants that satisfy the assumptions
the modules declare, which TLC evaluates on every run: any number of runs,
processes, rows, environments, sources and faults, any bound. Assumptions beyond
those are hypotheses of the theorem and named below.

### ActorRun

- `TypeCorrect`: `TypeOK` with `StageSeen`. `TypeOK` alone is not inductive: stage
  transactions index `NextImportState` by the row's state, and only the
  compare-and-set on the state seen by the read keeps that inside the table.
- `AnchorAlwaysExact`, `OutcomeAlwaysOnce`: one induction. `OutcomeStep` lists all
  a step can do to a row's outcome (leave, reject, advance, commit stage 1, verify
  the deletion, give up); every action is one of these, and each keeps `Settled`.
- `EvidenceAlways`: the invariant the next four rest on. `StartInv` (how far a
  start job is), `EvidenceInv` (what a row records of the platform) and
  `AttemptInv` (what an attempt in flight has seen) are inductive only together,
  since each step of a unit writes into the row what an earlier step saw. They
  are kept as `RunOK` for one run and `UnitOK` for one process. `Evolves` lists
  what may become of a row, so that one process's step need not be checked
  against every other process's program counter.
- `SpendAlwaysTracked`, `SettledAlwaysQuiet`, `DeleteNeverUnderWork`,
  `LatchAlwaysCommitted`, `RefusalAlwaysStops`. For the last two `Moves` says how a
  latch row may move.
- `OneOutstandingAlways`, from `OneStart`: starts of one scope exclude each other,
  and one that has passed its check finds every other import decided until its own
  row exists. Assumes `OwnStarter = {}`: every start is the scheduler's.
- `RejectsAlwaysUncommitted`, from `MatchInv`: what a unit has read of its row still
  holds when it acts. Assumes `OneExecutor`.
- `OwnerResetAlwaysFinal`, from `MatchInv` and `CapInv`: the exhausted-cleanup reason
  is untripped as long as an attempt can still be made. Assumes `OneExecutor` and
  `MaxDeleteAttempts >= 2`. With a cap of 1 it is false: a mismatched start's own abort
  exhausts it, the startup sweep trips, the owner resets, and a unit of the same row
  that was already in flight trips again. The code's default is 10.

### SpendLedger

- `CyclesAlwaysDisjoint`. `WithCycleDisjoint` is the heart: a cycle that conflicts
  with no recorded one starts after every older row, which the cut then ends
  before it, or ends before every younger one.
- `SettledAlwaysRises`. Rows are treated as moves: every action changes one row and
  does to it one of the things listed by `RowMove`, and each move keeps `RowKept`.
  With the types of processes this is `BaseInv`.
- `EvidenceNeverBelow`, from `EvidenceInv`: a row's actual amount covers the figures
  read before settlement that were eligible and every figure read since.
- `ClosingReadAlwaysKept`, from `ClosingInv`: until the deadline a row's reads began no
  earlier than they were due (`Patient`), but for one for each loss that a start has
  answered by resolving markers; `AwayInv` counts those against the faults. What a
  process has selected is still due when it counts the read (`ListInv`), which takes
  `OneProcess`: `SpendReaders` is the counterexample with two.
- `ChargesAlwaysCounted`, from `ChargeInv`: a counted read that is not answered leaves
  its row open or its marker set, and what the platform has charged lies in cycles
  that the row debits. Assumes `OneProcess`: with two, `SpendSmoke` is the
  counterexample.

- `RunCapsAlwaysKept`, without any hypothesis: what the runs admitted by the end of a
  recorded cycle debit to it exceeds no cap unless a run's own overrun or correction
  has tripped the latch. A row's part in a sum is its `Share`; `CapsInv` says that the
  shares of a recorded cycle stay below each cap and that every admitted row was
  admitted in a recorded cycle (`HomesOf`). An admission checks the cycle it is made
  in. A cycle recorded later is debited no more than the last one that admitted any of
  the runs that reach into it (`NewCycleRuns`). Every move of a row makes its share
  lighter in every cycle (`Lighter`), but for an overrun, which trips, and an upward
  correction, which re-checks the recorded cycles it touches or trips.
- `CapsAlwaysKept`: `CapsOrLatch`, with the monitoring allowances in the cycles that
  admitted a row. A settled row's allowance counts in months after its own, and nothing
  checks it against a month recorded then; but such a month has admitted nothing
  (`NewMonthEmpty`: under one anchor months do not overlap and every admission has its
  month), and the admission that comes first finds the allowance counted. Assumes
  `OneProcess` and `OneAnchor`. With two pollers and one loss TLC finds an allowance
  beyond the cap; with two anchors no instance we ran violates the property
  (three reservations and three ticks: 919,620 states), so that hypothesis is the
  argument's and perhaps not the code's.

### LedgerHandoff

- `AuthorityAlwaysOne`. The property sees neither the record in transit nor the
  rollover, so the invariant is about rights: `Right(e, k)` says that e holds cycle
  k, or has no row for it and either a record bound to it exists or its authority
  would continue into it. `OneRight` says that at most one environment has a right
  to a cycle. An export passes it on, an import and a continuation use it, a
  rollover derives it from the cycle before, the owner's attestation makes it new.
- `ExportAlwaysFinal`, from `Books`: an exported row's record says what the ledger
  counts, and nothing in it can count in that cycle any more.
- `TogetherAlwaysWithinCap`, from `Pooled`: outside the environment with the right,
  nothing can come to count (`QuietElsewhere`); what it carried in covers what the
  others count (`CarriedIn`); a record on its way says at least as much
  (`InTransit`); so its own check keeps the cap for all (`WithinCap`).
- `LedgersImplementOne`: the refinement `PoolSpec` of `CycleAuthority`, action by
  action. A claim and an import are `Acquire`, an admission `Admit` (with the
  continuation it may begin with), an export `Yield`, or nothing if authority only
  continued in order to be exported; settlement, correction and closing are `Settle`,
  and a rollover is a stutter.

### Poller

- `PauseAlwaysHolds`, `BlockedAlwaysIdle`, and `RestartAlwaysKeepsDomain` from
  `Covered`: what the checkpoint holds of the domain is at most what is left and
  what was taken since.

### Collection

- `TypeCorrect`.
- `ActiveAlwaysOutlivesSweeps`, from `SweepsMarked`: each complete sweep that was
  applied is at most as new as its scope's watermark. The watermark itself does not
  bound a listing's age: it may come from a sweep that saw the listing under another
  scope, which is why the property says "that missed it" (a case that takes three
  eBay runs, one more than the instance has; the theorem has no such bound).
- `OwnSightingAlwaysKept`, and `EndedContentAlwaysRetired` from `RetiredInv`.
- `OrderNeverMatters`, from `OrderInv`: a listing's row says what the latest of the
  sightings and misses applied so far says (`RowSays`).
- `StaleAlwaysProven`, from `ContinuityInv`: between `since` and `eligible` of a
  watermark lies a chain of sweeps of its scope with no gap beyond the tolerance
  (`Chained`), and every sweep and break that was applied, however late, is behind
  `eligible` or `broken`. For the NULL scope, whose predecessor is looked up among the
  finished runs instead, `AppliedInOrder` says that a finished run counted there either
  as a sweep or as a break.

### ActorCollection

- `CompleteAlwaysWhole`, from `AccountInv`. While nothing is on record against a run
  each page passed was fetched and each listing on it was emitted once (`Collected`);
  OUTPUT is a picture of the run as it ended and exists only when the dataset holds
  all its rows (`Reported`); the importer reads only what no longer changes
  (`Imported`). A source of known extent leaves no room between the report's claim
  and what the source holds.
- `HonestReportAlwaysStands`, for its second half from `FitInv`: if the source fits,
  the counters say what the pages passed so far hold (`Unharmed`), so no cap binds
  while a page is left. The proof attempt showed that two conditions were missing
  from what "fits" means: a source without any page is reported ambiguous, and a
  page without a byte is not a page that was answered.

### Eligibility

`KeptAlwaysNoLonger`, `CurrentAlwaysRight`, `VerdictAlwaysProven`, from `EvalInv`:
while the listing is not delisted no snapshot is newer than what it says
(`Anchored`), so the time an evaluation stores stands for all it read, and a stored
verdict is a function of that snapshot and the requirement version (`Faithful`;
`Ruled` for the verdict's content). All three assume `OneScope`; `EligibilityScopes`
is the counterexample without it.

### Resolution

- `OriginAlwaysDecidedTarget`: `OriginDecidedTarget`, without any hypothesis.
- `QuietResolveAlwaysAgrees`: `QuietResolveAgrees`, for resolutions that are polled or
  reconsidered, inherited or decided afresh, over any number of edits, releases,
  imports and failures. Assumes `OneThread`: no refresh is started by hand.

Both from `ThreadInv`, the state of a listing that one thread resolves. Neither
property is inductive: a product that rung 0 inherits was checked against a text that
may be three edits old, under a catalogue that has grown since. What survives all this
is `Supported`: the origin's identifiers name the product, its model by an alias, its
family by an alias or a decode of the origin's matcher version. Same version and same
identifiers, the two things `_prior_reconsideration` compares, then make the text in
hand support it too; brand, attribute and condition are checked afresh
(`_brand_reconsideration`, rung 0's veto, `_offer_reconsideration`). `Rests` says that an accepted
product has a supported origin and that a clean edge carries it, `Sound` what a verdict
not yet applied may accept, `Serial` that only one resolver is at work, and `Current`
that what it has read still holds. `Current` is where `OneThread` is needed, and not for
the proof only: with `QuietResolveAgrees` in place of its invariant `ResolutionOverlap`
fails as well (two edits, a refresh by hand and a crashed ladder, whose error edge lets
a stale inheritance be written).

### FiniteSums

Sums, maxima and enumerations of finite sets. An induction theorem with an operator
parameter cannot be instantiated, so its lemmas argue by a minimal counterexample:
the strict subsets of a finite set are well founded, and a set of bad subsets, if
not empty, has a minimal member.

### Only model-checked

- Liveness is out of the prover's reach: `EveryRunResolved`, `EveryRunIsJudged`,
  `Converges`, `NoFlapping`, `MonitorGoesQuiet`.
- `TypeOK` of `SpendLedger`, `ActorCollection`, `Eligibility`, `LedgerHandoff`,
  `Resolution`: the proofs use the part of it they need (`BaseInv`, `AccountInv`,
  `EvalInv`, `Shape`). That of `Poller` bounds a back-off by a power, which no
  backend knows.
- `MismatchLatched` is violated.

## 6. Plan

1. The composition of the catalogue refresh with a delist: the refresh reads the
   listings it reconsiders and resolves them later.
2. The import of a reference release: products, evidence and curation.

## 7. Not modelled

HTTP transport and response parsing, the adapters' parsing and soft-block
detection, token grammars, reports, web views, admin, migrations, offline
evaluation and corpus harvest. They are data formats and presentation without a
state machine of their own. Of the retention purge the raw payloads and the
batching are left out, of the tables their field constraints.
