----------------------------- MODULE Collection -----------------------------
(***************************************************************************)
(* What collection runs of one site do to its listings.  A run is fetched  *)
(* at one instant, persisted in one transaction, and its absence evidence  *)
(* is applied in one transaction per swept scope.  Runs overlap (the full  *)
(* lane, a run fired by the heartbeat, a probe, Actor imports), so they    *)
(* are applied in any order, and may be lost between two transactions.     *)
(*                                                                         *)
(* A time of 0 is the NULL of the code: never, or no bound.  The NULL      *)
(* scope, of listings no scoped sweep wrote, keeps its watermarks on the   *)
(* FULL lane row.  A run's started_at and its batch's fetched_at are one   *)
(* instant, and no two runs share one.                                     *)
(***************************************************************************)
EXTENDS Naturals, FiniteSets, FiniteSetsExt

CONSTANTS
    Keys,        \* source_listing_key
    MaxRuns,     \* bound on the collection runs
    Scopes,      \* non-NULL collection scopes
    Null,        \* the NULL scope
    Sources,     \* the kinds of source this instance starts from
    Ttl,         \* the bounded class's expires_policy
    Grace,       \* absence_grace
    Tolerance,   \* the continuity tolerance
    MaxTime      \* bound on the clock

VARIABLES
    source,     \* which providers collect the site, and its retention class
    clock,
    run,        \* ScraperRun and the batch the run holds
    listing,    \* Listing rows, by key
    snaps,      \* OfferSnapshot rows, by key
    mark        \* watermarks of each scope

vars == <<source, clock, run, listing, snaps, mark>>
-----------------------------------------------------------------------------
AllScopes == Scopes \union {Null}
Time == 0..MaxTime
Runs == 1..MaxRuns
Least(a, b) == IF a <= b THEN a ELSE b
Most(a, b) == IF a >= b THEN a ELSE b

\* local: scopes a local FULL run sweeps; actor: scopes an Actor run sweeps;
\* bounded: the delete-on-delist class; stale: scopes leave stale absence allowed;
\* kinds and runs bound the instance.
\* fired: the FULL run a heartbeat fires, which sweeps the NULL scope alone.
RunKind == {"full", "fired", "probe"}
Source == [local: SUBSET AllScopes, actor: SUBSET AllScopes, bounded: BOOLEAN, stale: BOOLEAN,
           kinds: SUBSET RunKind, runs: Runs]

ASSUME CollectionAssumption ==
    /\ Null \notin Scopes /\ IsFiniteSet(Scopes)
    /\ {MaxRuns, Ttl, Grace, Tolerance, MaxTime} \subseteq Nat \ {0}
    /\ Sources \subseteq Source

Run == [pc: {"idle", "fetched", "persisted", "done", "failed", "lost"}, kind: RunKind,
        remote: BOOLEAN, at: Time, pages: [AllScopes -> SUBSET Keys], swept: SUBSET AllScopes,
        empty: SUBSET AllScopes, complete: SUBSET AllScopes, applied: SUBSET AllScopes]
DelistReason == {"absent_from_sweep", "absent_stale"}
Listing == [scope: AllScopes, observed: Time, seen: Time, delisted: Time,
            reason: DelistReason \union {""}, absence: Time, expires: 0..MaxTime + Ttl,
            content: Time]   \* the time of the observation it shows, 0 when redacted
Snapshot == [at: Time, expires: 0..MaxTime + Ttl]
Watermarks == [since: Time, eligible: Time, broken: Time, complete: Time]

TypeOK ==
    /\ source \in Source
    /\ clock \in Time
    /\ run \in [Runs -> Run]
    /\ DOMAIN listing \subseteq Keys /\ \A k \in DOMAIN listing : listing[k] \in Listing
    /\ snaps \in [Keys -> SUBSET Snapshot]
    /\ mark \in [AllScopes -> Watermarks]

NoPages == [s \in AllScopes |-> {}]
IdleRun == [pc |-> "idle", kind |-> "full", remote |-> FALSE, at |-> 0, pages |-> NoPages,
            swept |-> {}, empty |-> {}, complete |-> {}, applied |-> {}]

Init ==
    /\ source \in Sources
    /\ clock = 0
    /\ run = [r \in Runs |-> IdleRun]
    /\ listing = [k \in {} |-> {}]
    /\ snaps = [k \in Keys |-> {}]
    /\ mark = [s \in AllScopes |-> [since |-> 0, eligible |-> 0, broken |-> 0, complete |-> 0]]

Known == DOMAIN listing
Active(k) == k \in Known /\ listing[k].delisted = 0
-----------------------------------------------------------------------------
(* A run's batch and what it is evidence of.                               *)

SeenInRun(r) == UNION {run[r].pages[s] : s \in AllScopes}

\* _one_per_key: a category sweep's record of a key beats the keyword search's,
\* and only the former asserts a scope.
Asserted(r, k) ==
    IF \E s \in Scopes : k \in run[r].pages[s]
    THEN CHOOSE s \in Scopes : k \in run[r].pages[s]
    ELSE Null

\* The scopes a FULL run reports on.  An empty keyword search reports nothing,
\* an empty category sweep reports that it proved nothing.
Reported(r) ==
    IF run[r].kind = "probe" THEN {}
    ELSE {s \in run[r].swept : run[r].remote \/ s # Null \/ s \notin run[r].empty}
NullScopeSwept(r) == Null \in Reported(r)

\* gate_delist_scope: complete stays complete; an incomplete scope is worth
\* anything only to a local provider, and only where it allows stale absence.
GateDelistScope(r, s) ==
    CASE s \in run[r].complete -> "complete"
      [] s \notin run[r].complete /\ ~run[r].remote /\ source.stale /\ s \notin run[r].empty
            -> "stale"
      [] OTHER -> "none"

\* counts_toward_sweep_continuity
CountsTowardContinuity(r, s) ==
    IF run[r].remote THEN s \in run[r].complete ELSE s = Null \/ s \notin run[r].empty

\* A run fired by a heartbeat sweeps the NULL scope only.
SweptBy(kind, remote) ==
    IF remote THEN source.actor
    ELSE IF kind = "fired" THEN source.local \intersect {Null} ELSE source.local

Batch(kind, remote, swept, pages, empty, complete) ==
    [pc |-> "fetched", kind |-> kind, remote |-> remote, at |-> clock + 1,
     pages |-> [s \in AllScopes |-> IF s \in swept THEN pages[s] ELSE {}],
     swept |-> swept, empty |-> empty, complete |-> complete, applied |-> {}]

\* The site has listings outside Keys: a scope without any of Keys may or may not
\* be empty.  A probe concludes nothing, so what it completed does not matter.
\* Nothing parsed in any scope is PARSER_ROT.
Batches(kind, remote, swept) ==
    {Batch(kind, remote, swept, b.pages, b.empty, b.complete) :
        b \in {b \in [pages: [swept -> SUBSET Keys], empty: SUBSET swept, complete: SUBSET swept] :
                 /\ \A s \in b.empty : b.pages[s] = {}
                 /\ ~remote => b.empty # swept /\ b.complete \intersect b.empty = {}
                 /\ kind = "probe" => b.complete = {}}}

\* Runs are numbered in the order they fetch.
Fetch(r) ==
    /\ run[r].pc = "idle" /\ \A q \in 1..r - 1 : run[q].pc # "idle"
    /\ r <= source.runs /\ clock < MaxTime
    /\ \E kind \in source.kinds, remote \in BOOLEAN :
         /\ SweptBy(kind, remote) # {}
         /\ kind = "fired" => ~remote /\ source.local # {Null}   \* else it is a full run
         /\ \E w \in Batches(kind, remote, SweptBy(kind, remote)) : run' = [run EXCEPT ![r] = w]
    /\ clock' = clock + 1
    /\ UNCHANGED <<source, listing, snaps, mark>>
-----------------------------------------------------------------------------
(* Persist: observe_listing for every record of the batch, in one          *)
(* transaction that holds the watermark and listing rows.                  *)

ExpiresAt(t) == IF source.bounded THEN t + Ttl ELSE 0

\* mark_delisted: also retires the content of the bounded class, at once, and
\* its evidence.  It never moves a mark that is there.
MarkDelisted(row, reason, when) ==
    IF row.delisted # 0 THEN row
    ELSE [row EXCEPT !.delisted = when, !.reason = reason, !.absence = Most(@, when),
                     !.expires = IF source.bounded THEN Least(@, when) ELSE 0,
                     !.content = IF source.bounded THEN 0 ELSE @]
PulledForward(s, when) ==
    IF source.bounded THEN [s EXCEPT !.expires = Least(@, when)] ELSE s

EffectiveAbsence(row) == Most(row.absence, row.delisted)

\* A scope-less observation keeps the scope its listing has.
Target(r, k) ==
    IF Asserted(r, k) = Null /\ k \in Known THEN listing[k].scope ELSE Asserted(r, k)

EligibleUnordered(r, k) ==
    LET at == run[r].at
    IN  /\ at >= mark[Target(r, k)].complete
        /\ k \in Known => at >= EffectiveAbsence(listing[k])
EligibleUnlessAbsent(r, k) ==
    k \in Known => run[r].at >= listing[k].observed /\ run[r].at >= EffectiveAbsence(listing[k])
CurrentEligible(r, k) ==
    LET at == run[r].at
    IN  /\ at >= mark[Target(r, k)].complete
        /\ k \in Known => at >= listing[k].observed /\ at >= EffectiveAbsence(listing[k])

\* observe_listing.  A key first seen by a run older than its scope's newest
\* complete sweep becomes a delisted anchor.
Observed(r, k) ==
    LET at == run[r].at
        fresh == [scope |-> Target(r, k), observed |-> at, seen |-> clock, delisted |-> 0,
                  reason |-> "", absence |-> 0, expires |-> ExpiresAt(at), content |-> at]
    IN  CASE k \notin Known /\ CurrentEligible(r, k) -> fresh
          [] k \notin Known /\ ~CurrentEligible(r, k) ->
                MarkDelisted(fresh, "absent_from_sweep", mark[Target(r, k)].complete)
          [] k \in Known /\ CurrentEligible(r, k) -> [fresh EXCEPT !.absence = listing[k].absence]
          [] OTHER -> listing[k]

\* The absence newer than the observation, if any, that its snapshot must not outlive.
AbsenceAfter(r, k) ==
    CASE CurrentEligible(r, k) -> 0
      [] ~CurrentEligible(r, k) /\ k \notin Known -> mark[Target(r, k)].complete
      [] OTHER -> IF EffectiveAbsence(listing[k]) > run[r].at THEN EffectiveAbsence(listing[k]) ELSE 0

\* _append_history: one snapshot per key and instant, none born expired.
HistoryWhole(r, k) ==
    {[at |-> run[r].at, expires |-> ExpiresAt(run[r].at)]}
AppendHistory(r, k) ==
    LET at == run[r].at
        absence == AbsenceAfter(r, k)
        expires == IF source.bounded /\ absence # 0 THEN Least(at + Ttl, absence) ELSE ExpiresAt(at)
    IN  IF source.bounded /\ absence # 0 /\ expires <= clock
        THEN {}
        ELSE {[at |-> at, expires |-> expires]}

Persist(r) ==
    /\ run[r].pc = "fetched"
    /\ listing' = [k \in Known \union SeenInRun(r) |->
                      IF k \in SeenInRun(r) THEN Observed(r, k) ELSE listing[k]]
    /\ snaps' = [k \in Keys |->
                    IF k \in SeenInRun(r) THEN snaps[k] \union AppendHistory(r, k) ELSE snaps[k]]
    /\ run' = [run EXCEPT ![r].pc = "persisted"]
    /\ UNCHANGED <<source, clock, mark>>
-----------------------------------------------------------------------------
(* Absence: per swept scope, continuity, the delist, the watermark.        *)

\* The NULL scope looks up the newest successful FULL run of the site.
Previous(r, s) ==
    IF s = Null
    THEN Max({0} \union {run[q].at : q \in {q \in Runs : run[q].pc = "done"
                                                          /\ run[q].kind # "probe"}})
    ELSE mark[s].eligible

RecordContinuity(m, at, previous) ==
    IF (m.broken # 0 /\ at <= m.broken) \/ at < m.eligible
    THEN m
    ELSE [m EXCEPT !.eligible = at,
                   !.since = IF m.since = 0 \/ previous = 0 \/ at > previous + Tolerance
                             THEN at ELSE m.since]
\* Its result: unproven unless this sweep was folded in.
ContinuousSince(m, at) ==
    IF (m.broken # 0 /\ at <= m.broken) \/ at < m.eligible THEN 0 ELSE m.since
BreakContinuity(m, at) == [m EXCEPT !.since = 0, !.broken = Most(@, at)]
RaiseCompleteSweep(m, at) == [m EXCEPT !.complete = Most(@, at)]

\* A scoped run that swept no NULL scope breaks it, since its success will count
\* as the NULL scope's predecessor.
BreaksNoNull(r, s) == FALSE
BreaksNull(r, s) == s # Null /\ ~NullScopeSwept(r)

WatermarksAfter(r, s) ==
    LET at == run[r].at
        folded == IF CountsTowardContinuity(r, s)
                  THEN RecordContinuity(mark[s], at, Previous(r, s))
                  ELSE BreakContinuity(mark[s], at)
        swept == IF GateDelistScope(r, s) = "complete" THEN RaiseCompleteSweep(folded, at) ELSE folded
    IN  [q \in AllScopes |->
            CASE q = s -> swept
              [] q = Null /\ q # s /\ BreaksNull(r, s) -> BreakContinuity(mark[q], at)
              [] OTHER -> mark[q]]

\* Keys whose absence this run may conclude from: every key it saw anywhere is out.
SeenOfScope(r, s) == run[r].pages[s]
WidenSeen(r, s) == SeenInRun(r)

\* apply_delist, without and with its ordering guard.
CandidatesUnordered(r, s) ==
    {k \in Known \ WidenSeen(r, s) : Active(k) /\ listing[k].scope = s}
Candidates(r, s) ==
    {k \in Known \ WidenSeen(r, s) :
        Active(k) /\ listing[k].scope = s /\ listing[k].observed <= run[r].at}
Delisted(r, s) ==
    LET at == run[r].at
        since == IF CountsTowardContinuity(r, s)
                 THEN ContinuousSince(WatermarksAfter(r, s)[s], at) ELSE 0
    IN  CASE GateDelistScope(r, s) = "complete" -> Candidates(r, s)
          [] GateDelistScope(r, s) = "stale" /\ since # 0 /\ at >= since + Grace ->
                {k \in Candidates(r, s) : listing[k].seen + Grace < at}
          [] OTHER -> {}
DelistReasonOf(r, s) ==
    IF GateDelistScope(r, s) = "complete" THEN "absent_from_sweep" ELSE "absent_stale"

\* apply_absence, NULL scope first.
ApplyAbsence(r, s) ==
    /\ run[r].pc = "persisted"
    /\ s \in Reported(r) \ run[r].applied
    /\ s # Null => Null \notin Reported(r) \ run[r].applied
    /\ mark' = WatermarksAfter(r, s)
    /\ listing' = [k \in Known |-> IF k \in Delisted(r, s)
                                   THEN MarkDelisted(listing[k], DelistReasonOf(r, s), run[r].at)
                                   ELSE listing[k]]
    /\ snaps' = [k \in Keys |-> IF k \in Delisted(r, s)
                                THEN {PulledForward(t, run[r].at) : t \in snaps[k]} ELSE snaps[k]]
    /\ run' = [run EXCEPT ![r].applied = @ \union {s}]
    /\ UNCHANGED <<source, clock>>

\* Resolve and evaluate (Catalog) change nothing here; then the run is a success.
Succeed(r) ==
    /\ run[r].pc = "persisted"
    /\ Reported(r) \subseteq run[r].applied
    /\ run' = [run EXCEPT ![r].pc = "done"]
    /\ UNCHANGED <<source, clock, listing, snaps, mark>>

\* A failure or a crash ends a local run wherever it is; an import resumes from
\* its row (ActorRun), and is lost only by its rejection.
Fail(r) ==
    /\ ~run[r].remote
    /\ run[r].pc \in {"fetched", "persisted"}
    /\ run' = [run EXCEPT ![r] = IF run[r].pc = "fetched" THEN [IdleRun EXCEPT !.pc = "failed"]
                                 ELSE [run[r] EXCEPT !.pc = "lost"]]
    /\ UNCHANGED <<source, clock, listing, snaps, mark>>
Reject(r) ==
    /\ run[r].remote
    /\ run[r].pc = "fetched"
    /\ run' = [run EXCEPT ![r] = [IdleRun EXCEPT !.pc = "failed"]]
    /\ mark' = IF run[r].kind = "probe" THEN mark
               ELSE [s \in AllScopes |-> IF s \in run[r].swept
                                         THEN BreakContinuity(mark[s], run[r].at) ELSE mark[s]]
    /\ UNCHANGED <<source, clock, listing, snaps>>

\* sweep_expired: expired snapshots go; a listing stays, without its content.
Expired(row) == row.expires # 0 /\ row.expires < clock
Purge ==
    /\ \/ \E k \in Known : Expired(listing[k]) /\ listing[k].content # 0
       \/ \E k \in Keys : \E t \in snaps[k] : Expired(t)
    /\ snaps' = [k \in Keys |-> {t \in snaps[k] : ~Expired(t)}]
    /\ listing' = [k \in Known |-> IF Expired(listing[k]) THEN [listing[k] EXCEPT !.content = 0]
                                   ELSE listing[k]]
    /\ UNCHANGED <<source, clock, run, mark>>

Tick ==
    /\ clock < MaxTime
    /\ clock' = clock + 1
    /\ UNCHANGED <<source, run, listing, snaps, mark>>

Next ==
    \/ \E r \in Runs : Fetch(r) \/ Persist(r) \/ Succeed(r) \/ Fail(r) \/ Reject(r)
    \/ \E r \in Runs, s \in AllScopes : ApplyAbsence(r, s)
    \/ Purge
    \/ Tick

Spec == Init /\ [][Next]_vars
-----------------------------------------------------------------------------
(* What makes it correct.                                                  *)

\* No active listing is older than a complete sweep of its scope that missed it:
\* whatever the order runs are applied in, a newer sweep delists it, and one it
\* delisted is not revived by an older run (observe_listing, apply_delist).
ActiveOutlivesSweeps ==
    \A k \in Known, r \in Runs :
        (Active(k) /\ listing[k].scope \in run[r].applied \intersect run[r].complete
                   /\ k \notin SeenInRun(r)) => listing[k].observed >= run[r].at

\* Where listings keep their scope and only complete sweeps delist, the rows are
\* a function of the evidence applied, not of its order: a listing is active when
\* its newest sighting is no older than the newest complete sweep without it, and
\* shows that sighting.
Persisted == {r \in Runs : run[r].pc \in {"persisted", "done", "lost"}}
NewestSeen(k) == Max({0} \union {run[r].at : r \in {r \in Persisted : k \in SeenInRun(r)}})
NewestAbsent(k) ==
    Max({0} \union {run[r].at : r \in {r \in Persisted : k \notin SeenInRun(r)
                        /\ listing[k].scope \in run[r].applied \intersect run[r].complete}})
OrderDoesNotMatter ==
    (Cardinality(source.local \union source.actor) = 1 /\ ~source.stale) =>
        \A k \in Known :
            /\ Active(k) <=> NewestSeen(k) >= NewestAbsent(k)
            /\ Active(k) /\ ~source.bounded => listing[k].content = NewestSeen(k)

\* A run never hides a listing it saw itself, in whatever scope the listing is
\* kept and whichever of its sweeps saw it (_apply_scope_reports).
OwnSightingKept ==
    [][\A r \in Runs : \A k \in Known :
          (run'[r].applied # run[r].applied /\ Active(k) /\ ~Active(k)') => k \notin SeenInRun(r)]_vars

\* Once a delete-on-delist offer has ended, its content is gone, and no snapshot
\* from before its end outlives it, even one a late run appends (mark_delisted,
\* _append_history).
EndedContentRetired ==
    source.bounded => \A k \in Known :
        /\ ~Active(k) => listing[k].content = 0
        /\ \A t \in snaps[k] : t.at < listing[k].absence => t.expires <= listing[k].absence

\* Stale absence is believed only where the scope really was swept all along: at
\* every instant of the grace before the delist there is a sweep within the
\* tolerance, and nothing broke continuity (record_continuity, break_continuity).
SweptAt(s) ==
    {run[r].at : r \in {r \in Runs : s \in run[r].applied /\ CountsTowardContinuity(r, s)}}
BrokenAt(s) ==
    {run[r].at : r \in {r \in Runs :
        \/ s \in run[r].applied /\ ~CountsTowardContinuity(r, s)
        \/ s = Null /\ Null \notin run[r].applied /\ run[r].applied # {}}}
SweptThroughout(s, from, to) ==
    \E b \in SweptAt(s) :
        /\ b <= from
        /\ \A t \in b..to - 1 : \E p \in SweptAt(s) : t < p /\ p <= t + Tolerance
        /\ \A x \in BrokenAt(s) : x < b \/ x > to
StaleAbsenceProven ==
    [][\A k \in Known :
          (Active(k) /\ ~Active(k)' /\ listing'[k].reason = "absent_stale")
             => SweptThroughout(listing[k].scope, listing[k].delisted - Grace,
                                listing[k].delisted)']_vars
=============================================================================
