--------------------------- MODULE CollectionProofs ---------------------------
(***************************************************************************)
(* Theorems about Collection, for every set of listings, scopes, sources   *)
(* and runs: its state stays well typed, a listing that is active is at    *)
(* least as new as every complete sweep of its scope that missed it, no    *)
(* run hides a listing it saw itself, ended content is retired, the order  *)
(* in which the evidence of one scope is applied does not matter, and      *)
(* stale absence stands on sweeps without a gap.                           *)
(***************************************************************************)
EXTENDS Collection, FiniteSums, TLAPS

\* Instants and the arithmetic on them.
LEMMA TimeFacts ==
  /\ MaxTime \in Nat /\ Ttl \in Nat /\ Time \subseteq Nat /\ Null \in AllScopes
  /\ \A a, b \in Time : Least(a, b) \in Time /\ Most(a, b) \in Time
  /\ \A a \in Time : a + Ttl \in 0..MaxTime + Ttl /\ a \in 0..MaxTime + Ttl
  /\ \A a \in 0..MaxTime + Ttl, b \in Time : Least(a, b) \in 0..MaxTime + Ttl
  /\ 0 \in Time /\ 0 \in 0..MaxTime + Ttl
  BY CollectionAssumption DEF Time, Least, Most, AllScopes

-----------------------------------------------------------------------------
(* Listing rows and snapshots.                                             *)

LEMMA ListingUpdate ==
  ASSUME NEW row \in Listing, NEW when \in Time, NEW reason \in DelistReason,
         NEW absence \in Time, NEW expires \in 0..MaxTime + Ttl, NEW content \in Time
  PROVE  [row EXCEPT !.delisted = when, !.reason = reason, !.absence = absence,
                     !.expires = expires, !.content = content] \in Listing
  BY DEF Listing

LEMMA MarkDelistedType ==
  ASSUME NEW row \in Listing, NEW when \in Time, NEW reason \in DelistReason
  PROVE  MarkDelisted(row, reason, when) \in Listing
<1>1. row.absence \in Time /\ row.expires \in 0..MaxTime + Ttl /\ row.content \in Time  BY DEF Listing
<1>2. /\ Most(row.absence, when) \in Time
      /\ (IF source.bounded THEN Least(row.expires, when) ELSE 0) \in 0..MaxTime + Ttl
      /\ (IF source.bounded THEN 0 ELSE row.content) \in Time
  BY <1>1, TimeFacts, Zenon
<1> QED  BY <1>2, ListingUpdate DEF MarkDelisted

\* What ends a listing ends it, and moves it to no other scope.
LEMMA MarkDelistedEnds ==
  ASSUME NEW row \in Listing, NEW when, when # 0, NEW reason
  PROVE  MarkDelisted(row, reason, when).delisted # 0
  BY DEF MarkDelisted, Listing

LEMMA TargetType ==
  ASSUME TypeOK, NEW r \in Runs, NEW k \in Keys
  PROVE  Target(r, k) \in AllScopes
<1>1. Asserted(r, k) \in AllScopes  BY DEF Asserted, AllScopes
<1> QED  BY <1>1 DEF Target, TypeOK, Known, Listing

\* The observation of a run, as the row it would make.
Fresh(r, k) == [scope |-> Target(r, k), observed |-> run[r].at, seen |-> clock, delisted |-> 0,
                reason |-> "", absence |-> 0, expires |-> ExpiresAt(run[r].at), content |-> run[r].at]

LEMMA FreshType ==
  ASSUME TypeOK, NEW r \in Runs, NEW k \in Keys
  PROVE  /\ Fresh(r, k) \in Listing
         /\ \A a \in Time : [Fresh(r, k) EXCEPT !.absence = a] \in Listing
<1>1. run[r].at \in Time /\ clock \in Time  BY DEF TypeOK, Run
<1>2. ExpiresAt(run[r].at) \in 0..MaxTime + Ttl  BY <1>1, TimeFacts, Zenon DEF ExpiresAt
<1> QED  BY <1>1, <1>2, TimeFacts, TargetType DEF Fresh, Listing

LEMMA ObservedCases ==
  ASSUME NEW r, NEW k
  PROVE  /\ k \notin Known /\ CurrentEligible(r, k) => Observed(r, k) = Fresh(r, k)
         /\ k \notin Known /\ ~CurrentEligible(r, k) =>
               Observed(r, k) = MarkDelisted(Fresh(r, k), "absent_from_sweep",
                                             mark[Target(r, k)].complete)
         /\ k \in Known /\ CurrentEligible(r, k) =>
               Observed(r, k) = [Fresh(r, k) EXCEPT !.absence = listing[k].absence]
         /\ k \in Known /\ ~CurrentEligible(r, k) => Observed(r, k) = listing[k]
<1> DEFINE ended == MarkDelisted(Fresh(r, k), "absent_from_sweep", mark[Target(r, k)].complete)
           renewed == [Fresh(r, k) EXCEPT !.absence = listing[k].absence]
<1>1. Observed(r, k) = CASE k \notin Known /\ CurrentEligible(r, k) -> Fresh(r, k)
                         [] k \notin Known /\ ~CurrentEligible(r, k) -> ended
                         [] k \in Known /\ CurrentEligible(r, k) -> renewed
                         [] OTHER -> listing[k]
  BY Zenon DEF Observed, Fresh
<1> HIDE DEF ended, renewed
<1>2. /\ k \notin Known /\ CurrentEligible(r, k) => Observed(r, k) = Fresh(r, k)
      /\ k \notin Known /\ ~CurrentEligible(r, k) => Observed(r, k) = ended
      /\ k \in Known /\ CurrentEligible(r, k) => Observed(r, k) = renewed
      /\ k \in Known /\ ~CurrentEligible(r, k) => Observed(r, k) = listing[k]
  BY <1>1
<1> QED  BY <1>2, Zenon DEF ended, renewed

LEMMA ObservedType ==
  ASSUME TypeOK, NEW r \in Runs, NEW k \in Keys
  PROVE  Observed(r, k) \in Listing
<1>1. mark[Target(r, k)].complete \in Time  BY TargetType DEF TypeOK, Watermarks
<1>2. MarkDelisted(Fresh(r, k), "absent_from_sweep", mark[Target(r, k)].complete) \in Listing
  BY <1>1, FreshType, MarkDelistedType DEF DelistReason
<1>3. CASE k \notin Known  BY <1>2, <1>3, FreshType, ObservedCases
<1>4. CASE k \in Known
  <2>1. listing[k] \in Listing /\ listing[k].absence \in Time  BY <1>4 DEF TypeOK, Known, Listing
  <2> QED  BY <1>4, <2>1, FreshType, ObservedCases
<1> QED  BY <1>3, <1>4

\* What a run leaves behind of an observation.
LEMMA AppendHistoryType ==
  ASSUME TypeOK, NEW r \in Runs, NEW k \in Keys
  PROVE  AppendHistory(r, k) \in SUBSET Snapshot
<1>1. run[r].at \in Time  BY DEF TypeOK, Run
<1>2. ExpiresAt(run[r].at) \in 0..MaxTime + Ttl  BY <1>1, TimeFacts, Zenon DEF ExpiresAt
<1>3. AbsenceAfter(r, k) \in Time
  <2>1. mark[Target(r, k)].complete \in Time  BY TargetType DEF TypeOK, Watermarks
  <2>2. k \in Known => EffectiveAbsence(listing[k]) \in Time
    BY TimeFacts DEF TypeOK, Known, Listing, EffectiveAbsence
  <2> QED  BY <2>1, <2>2, TimeFacts DEF AbsenceAfter
<1>4. Least(run[r].at + Ttl, AbsenceAfter(r, k)) \in 0..MaxTime + Ttl
  BY <1>1, <1>3, TimeFacts
<1> QED  BY <1>1, <1>2, <1>4 DEF AppendHistory, Snapshot

LEMMA PulledForwardType ==
  ASSUME NEW t \in Snapshot, NEW when \in Time
  PROVE  PulledForward(t, when) \in Snapshot
<1>1. Least(t.expires, when) \in 0..MaxTime + Ttl  BY TimeFacts DEF Snapshot
<1> QED  BY <1>1 DEF PulledForward, Snapshot

-----------------------------------------------------------------------------
(* Watermarks.                                                             *)

LEMMA WatermarkTypes ==
  ASSUME NEW m \in Watermarks, NEW at \in Time
  PROVE  /\ \A previous : RecordContinuity(m, at, previous) \in Watermarks
         /\ BreakContinuity(m, at) \in Watermarks
         /\ RaiseCompleteSweep(m, at) \in Watermarks
<1>1. Most(m.broken, at) \in Time /\ Most(m.complete, at) \in Time /\ m.since \in Time /\ 0 \in Time
  BY TimeFacts DEF Watermarks
<1>2. ASSUME NEW previous PROVE RecordContinuity(m, at, previous) \in Watermarks
  <2> DEFINE since == IF m.since = 0 \/ previous = 0 \/ at > previous + Tolerance THEN at ELSE m.since
  <2>1. since \in Time  BY <1>1
  <2> HIDE DEF since
  <2>2. [m EXCEPT !.eligible = at, !.since = since] \in Watermarks  BY <2>1 DEF Watermarks
  <2> QED  BY <2>2 DEF RecordContinuity, since
<1>3. BreakContinuity(m, at) \in Watermarks  BY <1>1 DEF BreakContinuity, Watermarks
<1>4. RaiseCompleteSweep(m, at) \in Watermarks  BY <1>1 DEF RaiseCompleteSweep, Watermarks
<1> QED  BY <1>2, <1>3, <1>4

\* Continuity and its break leave the newest complete sweep alone; a complete
\* sweep raises it at least to its own instant.
LEMMA WatermarkComplete ==
  ASSUME NEW m \in Watermarks, NEW at \in Time
  PROVE  /\ \A previous : RecordContinuity(m, at, previous).complete = m.complete
         /\ BreakContinuity(m, at).complete = m.complete
         /\ RaiseCompleteSweep(m, at).complete >= m.complete
         /\ RaiseCompleteSweep(m, at).complete >= at
<1>1. m.complete \in Nat /\ at \in Nat  BY TimeFacts DEF Watermarks
<1>2. \A previous : RecordContinuity(m, at, previous).complete = m.complete
  BY DEF RecordContinuity, Watermarks
<1>3. BreakContinuity(m, at).complete = m.complete  BY DEF BreakContinuity, Watermarks
<1>4. RaiseCompleteSweep(m, at).complete = Most(m.complete, at)
  BY DEF RaiseCompleteSweep, Watermarks
<1> QED  BY <1>1, <1>2, <1>3, <1>4 DEF Most

LEMMA WatermarksAfterType ==
  ASSUME TypeOK, NEW r \in Runs, NEW s \in AllScopes
  PROVE  WatermarksAfter(r, s) \in [AllScopes -> Watermarks]
<1>1. run[r].at \in Time /\ \A q \in AllScopes : mark[q] \in Watermarks  BY DEF TypeOK, Run
<1> DEFINE folded == IF CountsTowardContinuity(r, s)
                     THEN RecordContinuity(mark[s], run[r].at, Previous(r, s))
                     ELSE BreakContinuity(mark[s], run[r].at)
           swept == IF GateDelistScope(r, s) = "complete"
                    THEN RaiseCompleteSweep(folded, run[r].at) ELSE folded
<1>2. folded \in Watermarks  BY <1>1, WatermarkTypes, Zenon
<1> HIDE DEF folded
<1>3. swept \in Watermarks  BY <1>1, <1>2, WatermarkTypes, Zenon
<1> HIDE DEF swept
<1>4. WatermarksAfter(r, s) = [q \in AllScopes |->
            CASE q = s -> swept
              [] q = Null /\ q # s /\ BreaksNull(r, s) -> BreakContinuity(mark[q], run[r].at)
              [] OTHER -> mark[q]]
  BY Zenon DEF WatermarksAfter, folded, swept
<1>5. \A q \in AllScopes : BreakContinuity(mark[q], run[r].at) \in Watermarks
  BY <1>1, WatermarkTypes
<1> QED  BY <1>1, <1>3, <1>4, <1>5

-----------------------------------------------------------------------------
(* Type correctness, action by action.                                     *)

LEMMA RunUpdate ==
  ASSUME NEW w \in Run
  PROVE  /\ \A pc \in {"idle", "fetched", "persisted", "done", "failed", "lost"} :
               [w EXCEPT !.pc = pc] \in Run
         /\ \A s \in AllScopes : [w EXCEPT !.applied = w.applied \union {s}] \in Run
  BY DEF Run

LEMMA IdleRunType == IdleRun \in Run
  BY TimeFacts DEF IdleRun, NoPages, Run, RunKind

LEMMA InitType == Init => TypeOK
<1> SUFFICES ASSUME Init PROVE TypeOK  OBVIOUS
<1>1. source \in Source  BY CollectionAssumption DEF Init
<1>2. clock \in Time /\ run \in [Runs -> Run]  BY TimeFacts, IdleRunType DEF Init
<1>3. DOMAIN listing = {}  BY DEF Init
<1>4. snaps \in [Keys -> SUBSET Snapshot]  BY DEF Init
<1>5. mark \in [AllScopes -> Watermarks]  BY TimeFacts DEF Init, Watermarks
<1> QED  BY <1>1, <1>2, <1>3, <1>4, <1>5 DEF TypeOK

LEMMA FetchType == ASSUME TypeOK, NEW r \in Runs, Fetch(r) PROVE TypeOK'
<1>1. clock + 1 \in Time /\ clock' \in Time
  BY CollectionAssumption DEF TypeOK, Fetch, Time
<1>2. \A kind, remote : SweptBy(kind, remote) \subseteq AllScopes
  BY DEF SweptBy, TypeOK, Source
<1>3. ASSUME NEW kind \in source.kinds, NEW remote \in BOOLEAN, NEW swept \in SUBSET AllScopes
      PROVE  Batches(kind, remote, swept) \subseteq Run
  <2> SUFFICES ASSUME NEW pages \in [swept -> SUBSET Keys], NEW empty \in SUBSET swept,
                      NEW complete \in SUBSET swept
               PROVE  Batch(kind, remote, swept, pages, empty, complete) \in Run
    BY DEF Batches
  <2>1. kind \in RunKind  BY DEF TypeOK, Source
  <2>2. [s \in AllScopes |-> IF s \in swept THEN pages[s] ELSE {}] \in [AllScopes -> SUBSET Keys]
    OBVIOUS
  <2> QED  BY <1>1, <2>1, <2>2 DEF Batch, Run
<1>4. \E w \in Run : run' = [run EXCEPT ![r] = w]
  BY <1>2, <1>3 DEF Fetch
<1>5. run' \in [Runs -> Run]  BY <1>4 DEF TypeOK
<1> QED  BY <1>1, <1>5 DEF TypeOK, Fetch

LEMMA SeenKeys == ASSUME TypeOK, NEW r \in Runs PROVE SeenInRun(r) \subseteq Keys
  BY DEF SeenInRun, TypeOK, Run

LEMMA PersistType == ASSUME TypeOK, NEW r \in Runs, Persist(r) PROVE TypeOK'
<1>1. run' \in [Runs -> Run]  BY RunUpdate DEF TypeOK, Persist
<1>2. DOMAIN listing' \subseteq Keys  BY SeenKeys DEF TypeOK, Persist, Known
<1>3. \A k \in DOMAIN listing' : listing'[k] \in Listing
  BY ObservedType, SeenKeys DEF TypeOK, Persist, Known
<1>4. snaps' \in [Keys -> SUBSET Snapshot]
  BY AppendHistoryType DEF TypeOK, Persist
<1> QED  BY <1>1, <1>2, <1>3, <1>4 DEF TypeOK, Persist

LEMMA ApplyAbsenceType ==
  ASSUME TypeOK, NEW r \in Runs, NEW s \in AllScopes, ApplyAbsence(r, s)
  PROVE  TypeOK'
<1>1. run[r].at \in Time /\ run[r] \in Run  BY DEF TypeOK, Run
<1>5. run' \in [Runs -> Run]
  <2>1. [run[r] EXCEPT !.applied = run[r].applied \union {s}] \in Run  BY <1>1, RunUpdate
  <2> QED  BY <2>1 DEF TypeOK, ApplyAbsence
<1>2. mark' \in [AllScopes -> Watermarks]  BY WatermarksAfterType DEF ApplyAbsence
<1>3. \A k \in DOMAIN listing' : listing'[k] \in Listing
  BY <1>1, MarkDelistedType DEF TypeOK, ApplyAbsence, Known, DelistReasonOf, DelistReason
<1>4. snaps' \in [Keys -> SUBSET Snapshot]
  BY <1>1, PulledForwardType DEF TypeOK, ApplyAbsence
<1> QED  BY <1>2, <1>3, <1>4, <1>5 DEF TypeOK, ApplyAbsence, Known

LEMMA EndType ==
  ASSUME TypeOK, NEW r \in Runs, Succeed(r) \/ Fail(r) \/ Reject(r)
  PROVE  TypeOK'
<1>1. run[r] \in Run /\ run[r].at \in Time  BY DEF TypeOK, Run
<1>2. [IdleRun EXCEPT !.pc = "failed"] \in Run  BY IdleRunType, RunUpdate
<1>3. run' \in [Runs -> Run]
  BY <1>1, <1>2, RunUpdate DEF TypeOK, Succeed, Fail, Reject
<1>4. mark' \in [AllScopes -> Watermarks]
  BY <1>1, WatermarkTypes DEF TypeOK, Succeed, Fail, Reject
<1> QED  BY <1>3, <1>4 DEF TypeOK, Succeed, Fail, Reject

LEMMA PurgeType == ASSUME TypeOK, Purge PROVE TypeOK'
<1>1. \A w \in Listing : [w EXCEPT !.content = 0] \in Listing  BY TimeFacts DEF Listing
<1>2. \A k \in DOMAIN listing' : listing'[k] \in Listing
  BY <1>1 DEF TypeOK, Purge, Known
<1>3. snaps' \in [Keys -> SUBSET Snapshot]  BY DEF TypeOK, Purge
<1> QED  BY <1>2, <1>3 DEF TypeOK, Purge, Known

LEMMA StepType == TypeOK /\ [Next]_vars => TypeOK'
<1> SUFFICES ASSUME TypeOK, [Next]_vars PROVE TypeOK'  OBVIOUS
<1>1. ASSUME NEW r \in Runs, Fetch(r) \/ Persist(r) \/ Succeed(r) \/ Fail(r) \/ Reject(r)
      PROVE  TypeOK'
  BY <1>1, FetchType, PersistType, EndType
<1>2. ASSUME NEW r \in Runs, NEW s \in AllScopes, ApplyAbsence(r, s) PROVE TypeOK'
  BY <1>2, ApplyAbsenceType
<1>3. CASE Purge  BY <1>3, PurgeType
<1>4. CASE Tick
  <2>1. clock' \in Time  BY <1>4, CollectionAssumption DEF Tick, TypeOK, Time
  <2> QED  BY <1>4, <2>1 DEF Tick, TypeOK
<1>5. CASE UNCHANGED vars  BY <1>5 DEF vars, TypeOK
<1> QED  BY <1>1, <1>2, <1>3, <1>4, <1>5 DEF Next

\* Every variable keeps its type: rows, marks and snapshots stay within the
\* instants there are, and no expiry lies beyond the retention of the newest one.
THEOREM TypeCorrect == Spec => []TypeOK
  BY InitType, StepType, PTL DEF Spec

-----------------------------------------------------------------------------
(* Active listings against the sweeps that missed them.                    *)

\* A complete sweep that was applied left its watermark, and a batch has an instant.
SweepsMarked ==
    \A r \in Runs :
        /\ run[r].pc \in {"fetched", "persisted"} => run[r].at # 0
        /\ \A s \in run[r].applied \intersect run[r].complete : mark[s].complete >= run[r].at

\* The part of a listing and of a run that ActiveOutlivesSweeps reads.
MissedBy(w, k, scope) == scope \in w.applied \intersect w.complete
                         /\ k \notin UNION {w.pages[s] : s \in AllScopes}

LEMMA MissedByRun ==
  ASSUME NEW r, NEW k
  PROVE  (k \notin SeenInRun(r) /\ listing[k].scope \in run[r].applied \intersect run[r].complete)
            <=> MissedBy(run[r], k, listing[k].scope)
  BY DEF MissedBy, SeenInRun

LEMMA FetchSweeps == ASSUME TypeOK, SweepsMarked, NEW r \in Runs, Fetch(r) PROVE SweepsMarked'
<1>1. PICK w : run' = [run EXCEPT ![r] = w] /\ w.at = clock + 1 /\ w.applied = {}
  <2>1. \A kind, remote, swept : \A w \in Batches(kind, remote, swept) : w.at = clock + 1 /\ w.applied = {}
    BY DEF Batches, Batch
  <2> QED  BY <2>1 DEF Fetch
<1>2. clock + 1 # 0  BY TimeFacts DEF TypeOK
<1> QED  BY <1>1, <1>2 DEF TypeOK, SweepsMarked, Fetch

LEMMA PersistSweeps == ASSUME TypeOK, SweepsMarked, NEW r \in Runs, Persist(r) PROVE SweepsMarked'
<1>1. run' = [run EXCEPT ![r].pc = "persisted"] /\ mark' = mark /\ run[r].pc = "fetched"  BY DEF Persist
<1> QED  BY <1>1 DEF TypeOK, SweepsMarked, Run

LEMMA EndSweeps ==
  ASSUME TypeOK, SweepsMarked, NEW r \in Runs, Succeed(r) \/ Fail(r) \/ Reject(r)
  PROVE  SweepsMarked'
<1> DEFINE Quiet(w) == /\ w.pc \notin {"fetched", "persisted"}
                       /\ \/ /\ w.at = run[r].at
                             /\ w.applied = run[r].applied /\ w.complete = run[r].complete
                          \/ w.applied = {}
           failed == [IdleRun EXCEPT !.pc = "failed"]
<1>1. PICK w : run' = [run EXCEPT ![r] = w] /\ Quiet(w)
  <2>1. Quiet(failed)  BY DEF IdleRun
  <2>2. Quiet([run[r] EXCEPT !.pc = "done"]) /\ Quiet([run[r] EXCEPT !.pc = "lost"])
    BY DEF TypeOK, Run
  <2> HIDE DEF Quiet
  <2>3. \/ run' = [run EXCEPT ![r] = failed]
        \/ run' = [run EXCEPT ![r] = [run[r] EXCEPT !.pc = "done"]]
        \/ run' = [run EXCEPT ![r] = [run[r] EXCEPT !.pc = "lost"]]
    BY DEF Succeed, Fail, Reject
  <2> QED  BY <2>1, <2>2, <2>3, Zenon
<1>2. \A s \in AllScopes : mark'[s].complete = mark[s].complete
  BY WatermarkComplete DEF TypeOK, Run, Succeed, Fail, Reject
<1> QED  BY <1>1, <1>2 DEF TypeOK, SweepsMarked, Run

\* What applying a scope's absence does to the watermark of complete sweeps.
LEMMA CompleteAfter ==
  ASSUME TypeOK, NEW r \in Runs, NEW s \in AllScopes
  PROVE  /\ \A q \in AllScopes : WatermarksAfter(r, s)[q].complete >= mark[q].complete
         /\ s \in run[r].complete => WatermarksAfter(r, s)[s].complete >= run[r].at
<1>1. /\ run[r].at \in Time /\ \A q \in AllScopes : mark[q] \in Watermarks /\ mark[q].complete \in Nat
  BY TimeFacts DEF TypeOK, Run, Watermarks
<1> DEFINE folded == IF CountsTowardContinuity(r, s)
                     THEN RecordContinuity(mark[s], run[r].at, Previous(r, s))
                     ELSE BreakContinuity(mark[s], run[r].at)
           swept == IF GateDelistScope(r, s) = "complete"
                    THEN RaiseCompleteSweep(folded, run[r].at) ELSE folded
<1>2. folded \in Watermarks /\ folded.complete = mark[s].complete
  BY <1>1, WatermarkTypes, WatermarkComplete, Zenon
<1>3. s \in run[r].complete => GateDelistScope(r, s) = "complete"  BY DEF GateDelistScope
<1> HIDE DEF folded
<1>4. /\ swept.complete >= mark[s].complete
      /\ s \in run[r].complete => swept.complete >= run[r].at
  BY <1>1, <1>2, <1>3, WatermarkComplete
<1> HIDE DEF swept
<1>5. WatermarksAfter(r, s) = [q \in AllScopes |->
            CASE q = s -> swept
              [] q = Null /\ q # s /\ BreaksNull(r, s) -> BreakContinuity(mark[q], run[r].at)
              [] OTHER -> mark[q]]
  BY Zenon DEF WatermarksAfter, folded, swept
<1>6. \A q \in AllScopes : BreakContinuity(mark[q], run[r].at).complete = mark[q].complete
  BY <1>1, WatermarkComplete
<1> QED  BY <1>1, <1>4, <1>5, <1>6

\* The runs and listings a step leaves alone keep their evidence.
LEMMA SameEvidence ==
  ASSUME ActiveOutlivesSweeps, NEW k, NEW r \in Runs, NEW w,
         k \in Known, Active(k),
         w.observed = listing[k].observed, w.scope = listing[k].scope,
         MissedBy(run[r], k, w.scope)
  PROVE  w.observed >= run[r].at
  BY MissedByRun DEF ActiveOutlivesSweeps

LEMMA FetchActive ==
  ASSUME TypeOK, ActiveOutlivesSweeps, NEW q \in Runs, Fetch(q)
  PROVE  ActiveOutlivesSweeps'
<1>1. PICK w : run' = [run EXCEPT ![q] = w] /\ w.applied = {}
  <2>1. \A kind, remote, swept : \A w \in Batches(kind, remote, swept) : w.applied = {}
    BY DEF Batches, Batch
  <2> QED  BY <2>1 DEF Fetch
<1>2. listing' = listing  BY DEF Fetch
<1> QED  BY <1>1, <1>2 DEF ActiveOutlivesSweeps, Known, Active, SeenInRun, TypeOK

LEMMA EndActive ==
  ASSUME TypeOK, ActiveOutlivesSweeps, NEW q \in Runs, Succeed(q) \/ Fail(q) \/ Reject(q)
  PROVE  ActiveOutlivesSweeps'
<1> DEFINE Quiet(w) == \/ /\ w.at = run[q].at /\ w.pages = run[q].pages
                          /\ w.applied = run[q].applied /\ w.complete = run[q].complete
                       \/ w.applied = {}
           failed == [IdleRun EXCEPT !.pc = "failed"]
<1>1. PICK w : run' = [run EXCEPT ![q] = w] /\ Quiet(w)
  <2>1. Quiet(failed)  BY DEF IdleRun
  <2>2. Quiet([run[q] EXCEPT !.pc = "done"]) /\ Quiet([run[q] EXCEPT !.pc = "lost"])
    BY DEF TypeOK, Run
  <2> HIDE DEF Quiet
  <2>3. \/ run' = [run EXCEPT ![q] = failed]
        \/ run' = [run EXCEPT ![q] = [run[q] EXCEPT !.pc = "done"]]
        \/ run' = [run EXCEPT ![q] = [run[q] EXCEPT !.pc = "lost"]]
    BY DEF Succeed, Fail, Reject
  <2> QED  BY <2>1, <2>2, <2>3, Zenon
<1>2. listing' = listing  BY DEF Succeed, Fail, Reject
<1> QED  BY <1>1, <1>2 DEF ActiveOutlivesSweeps, Known, Active, SeenInRun, TypeOK

LEMMA PersistActive ==
  ASSUME TypeOK, SweepsMarked, ActiveOutlivesSweeps, NEW q \in Runs, Persist(q)
  PROVE  ActiveOutlivesSweeps'
<1>1. \A r \in Runs : /\ run'[r].at = run[r].at /\ run'[r].pages = run[r].pages
                      /\ run'[r].applied = run[r].applied /\ run'[r].complete = run[r].complete
  BY DEF Persist, TypeOK, Run
<1>2. ASSUME NEW k \in Known', NEW r \in Runs, Active(k)', MissedBy(run[r], k, listing'[k].scope)
      PROVE  listing'[k].observed >= run[r].at
  <2>1. listing'[k].delisted = 0  BY <1>2 DEF Active
  <2>2. k \in Known \union SeenInRun(q) /\ k \in Keys  BY SeenKeys DEF Persist, Known, TypeOK
  <2>3. CASE k \notin SeenInRun(q)
    <3>1. k \in Known /\ listing'[k] = listing[k]  BY <2>2, <2>3 DEF Persist
    <3> QED  BY <1>2, <2>1, <3>1, SameEvidence DEF Active
  <2>4. CASE k \in SeenInRun(q)
    <3>1. listing'[k] = Observed(q, k)  BY <2>2, <2>4 DEF Persist
    <3>2. CASE k \notin Known /\ ~CurrentEligible(q, k)
      <4>1. mark[Target(q, k)].complete \in Nat /\ run[q].at \in Nat
        BY <2>2, TargetType, TimeFacts DEF TypeOK, Watermarks, Run
      <4>2. mark[Target(q, k)].complete # 0  BY <3>2, <4>1 DEF CurrentEligible
      <4> QED  BY <2>1, <2>2, <3>1, <3>2, <4>2, FreshType, MarkDelistedEnds, ObservedCases
    <3>3. CASE k \in Known /\ ~CurrentEligible(q, k)
      <4>1. listing'[k] = listing[k]  BY <3>1, <3>3, ObservedCases
      <4> QED  BY <1>2, <2>1, <3>3, <4>1, SameEvidence DEF Active
    <3>4. CASE CurrentEligible(q, k)
      <4>1. listing'[k].observed = run[q].at /\ listing'[k].scope = Target(q, k)
        <5>1. /\ Fresh(q, k).observed = run[q].at /\ Fresh(q, k).scope = Target(q, k)
              /\ \A a : /\ [Fresh(q, k) EXCEPT !.absence = a].observed = run[q].at
                        /\ [Fresh(q, k) EXCEPT !.absence = a].scope = Target(q, k)
          BY DEF Fresh
        <5>2. \/ Observed(q, k) = Fresh(q, k)
              \/ Observed(q, k) = [Fresh(q, k) EXCEPT !.absence = listing[k].absence]
          BY <3>4, ObservedCases
        <5> QED  BY <3>1, <5>1, <5>2
      <4>2. run[q].at >= mark[Target(q, k)].complete  BY <3>4 DEF CurrentEligible
      <4>3. mark[Target(q, k)].complete >= run[r].at  BY <1>2, <4>1 DEF SweepsMarked, MissedBy
      <4>4. run[q].at \in Nat /\ run[r].at \in Nat /\ mark[Target(q, k)].complete \in Nat
        BY <2>2, TargetType, TimeFacts DEF TypeOK, Watermarks, Run
      <4> QED  BY <4>1, <4>2, <4>3, <4>4
    <3> QED  BY <3>2, <3>3, <3>4
  <2> QED  BY <2>3, <2>4
<1> QED  BY <1>1, <1>2 DEF ActiveOutlivesSweeps, MissedBy, SeenInRun

LEMMA ApplyAbsenceActive ==
  ASSUME TypeOK, SweepsMarked, ActiveOutlivesSweeps, NEW q \in Runs, NEW s \in AllScopes,
         ApplyAbsence(q, s)
  PROVE  ActiveOutlivesSweeps'
<1>1. \A r \in Runs : /\ run'[r].at = run[r].at /\ run'[r].pages = run[r].pages
                      /\ run'[r].complete = run[r].complete
                      /\ run'[r].applied = IF r = q THEN run[r].applied \union {s} ELSE run[r].applied
  BY DEF ApplyAbsence, TypeOK, Run
<1>2. run[q].at # 0 /\ run[q].at \in Nat  BY TimeFacts DEF ApplyAbsence, SweepsMarked, TypeOK, Run
<1>3. ASSUME NEW k \in Known', NEW r \in Runs, Active(k)', MissedBy(run'[r], k, listing'[k].scope)
      PROVE  listing'[k].observed >= run[r].at
  <2>1. listing'[k].delisted = 0 /\ k \in Known  BY <1>3 DEF Active, ApplyAbsence, Known
  <2>2. listing[k] \in Listing  BY <2>1 DEF TypeOK, Known
  <2>3. k \notin Delisted(q, s)
    <3>1. k \in Delisted(q, s) => listing'[k] = MarkDelisted(listing[k], DelistReasonOf(q, s), run[q].at)
      BY <2>1 DEF ApplyAbsence
    <3> QED  BY <1>2, <2>1, <2>2, <3>1, MarkDelistedEnds
  <2>4. listing'[k] = listing[k]  BY <2>1, <2>3 DEF ApplyAbsence
  <2>5. CASE MissedBy(run[r], k, listing[k].scope)
    BY <1>3, <2>1, <2>4, <2>5, SameEvidence DEF Active
  <2>6. CASE ~MissedBy(run[r], k, listing[k].scope)
    <3>1. r = q /\ listing[k].scope = s /\ s \in run[q].complete /\ k \notin SeenInRun(q)
      <4> DEFINE scope == listing[k].scope
      <4>1. k \notin UNION {run[r].pages[p] : p \in AllScopes}
            /\ scope \in run'[r].applied /\ scope \in run[r].complete
        BY <1>1, <1>3, <2>4 DEF MissedBy
      <4>2. scope \notin run[r].applied  BY <2>6, <4>1 DEF MissedBy
      <4>3. r = q /\ scope = s  BY <1>1, <4>1, <4>2
      <4> QED  BY <4>1, <4>3 DEF SeenInRun
    <3>2. Delisted(q, s) = Candidates(q, s)  BY <3>1 DEF Delisted, GateDelistScope
    <3>3. ~(listing[k].observed <= run[q].at)
      BY <2>1, <2>3, <2>4, <3>1, <3>2 DEF Candidates, WidenSeen, Active
    <3>4. listing[k].observed \in Nat  BY <2>2, TimeFacts DEF Listing
    <3> QED  BY <1>2, <2>4, <3>1, <3>3, <3>4
  <2> QED  BY <2>5, <2>6
<1> QED  BY <1>1, <1>3 DEF ActiveOutlivesSweeps, MissedBy, SeenInRun

LEMMA ApplyAbsenceSweeps ==
  ASSUME TypeOK, SweepsMarked, NEW q \in Runs, NEW s \in AllScopes, ApplyAbsence(q, s)
  PROVE  SweepsMarked'
<1>1. \A r \in Runs : /\ run'[r].at = run[r].at /\ run'[r].complete = run[r].complete
                      /\ run'[r].pc = run[r].pc
                      /\ run'[r].applied = IF r = q THEN run[r].applied \union {s} ELSE run[r].applied
  BY DEF ApplyAbsence, TypeOK, Run
<1>2. \A r \in Runs : run[r].at \in Nat /\ run[r].applied \subseteq AllScopes
  BY TimeFacts DEF TypeOK, Run
<1>3. \A p \in AllScopes : mark[p].complete \in Nat /\ mark'[p].complete \in Nat
  <2>1. mark' \in [AllScopes -> Watermarks]  BY WatermarksAfterType DEF ApplyAbsence
  <2> QED  BY <2>1, TimeFacts DEF TypeOK, Watermarks
<1>4. /\ \A p \in AllScopes : mark'[p].complete >= mark[p].complete
      /\ s \in run[q].complete => mark'[s].complete >= run[q].at
  BY CompleteAfter DEF ApplyAbsence
<1>5. ASSUME NEW r \in Runs, NEW p \in run'[r].applied \intersect run'[r].complete
      PROVE  mark'[p].complete >= run[r].at
  <2>1. p \in AllScopes  BY <1>1, <1>2
  <2>2. CASE p \in run[r].applied
    <3>1. mark[p].complete >= run[r].at  BY <1>1, <2>2 DEF SweepsMarked
    <3> QED  BY <1>2, <1>3, <1>4, <2>1, <3>1
  <2>3. CASE p \notin run[r].applied
    <3>1. r = q /\ p = s  BY <1>1, <2>3
    <3> QED  BY <1>1, <1>4, <3>1
  <2> QED  BY <2>2, <2>3
<1> QED  BY <1>1, <1>5 DEF SweepsMarked

LEMMA PurgeActive == ASSUME TypeOK, ActiveOutlivesSweeps, Purge PROVE ActiveOutlivesSweeps'
<1>1. /\ run' = run /\ Known' = Known
      /\ \A k \in Known : /\ listing'[k].observed = listing[k].observed
                           /\ listing'[k].scope = listing[k].scope
                           /\ listing'[k].delisted = listing[k].delisted
  BY DEF Purge, Known, TypeOK, Listing
<1> QED  BY <1>1 DEF ActiveOutlivesSweeps, Active, SeenInRun

\* One inductive invariant: types, watermarks, evidence.
SweepInv == TypeOK /\ SweepsMarked /\ ActiveOutlivesSweeps

LEMMA InitSweeps == Init => SweepInv
<1>1. Init => SweepsMarked /\ ActiveOutlivesSweeps
  BY DEF Init, SweepsMarked, ActiveOutlivesSweeps, IdleRun, Known
<1> QED  BY <1>1, InitType DEF SweepInv

LEMMA StepSweeps == SweepInv /\ [Next]_vars => SweepInv'
<1> SUFFICES ASSUME SweepInv, [Next]_vars PROVE SweepInv'  OBVIOUS
<1>1. TypeOK /\ SweepsMarked /\ ActiveOutlivesSweeps /\ TypeOK'  BY StepType DEF SweepInv
<1>2. ASSUME NEW r \in Runs, Fetch(r) \/ Persist(r) \/ Succeed(r) \/ Fail(r) \/ Reject(r)
      PROVE  SweepsMarked' /\ ActiveOutlivesSweeps'
  BY <1>1, <1>2, FetchSweeps, PersistSweeps, EndSweeps, FetchActive, PersistActive, EndActive
<1>3. ASSUME NEW r \in Runs, NEW s \in AllScopes, ApplyAbsence(r, s)
      PROVE  SweepsMarked' /\ ActiveOutlivesSweeps'
  BY <1>1, <1>3, ApplyAbsenceSweeps, ApplyAbsenceActive
<1>4. ASSUME Purge PROVE SweepsMarked' /\ ActiveOutlivesSweeps'
  BY <1>1, <1>4, PurgeActive DEF Purge, SweepsMarked
<1>5. ASSUME Tick \/ UNCHANGED vars PROVE SweepsMarked' /\ ActiveOutlivesSweeps'
  BY <1>1, <1>5 DEF Tick, vars, SweepsMarked, ActiveOutlivesSweeps, Active, Known, SeenInRun
<1> QED  BY <1>1, <1>2, <1>3, <1>4, <1>5 DEF Next, SweepInv

\* No active listing is older than a complete sweep of its scope that missed it,
\* in whatever order observe_listing and apply_delist are applied.
THEOREM ActiveAlwaysOutlivesSweeps == Spec => []ActiveOutlivesSweeps
<1>1. SweepInv => ActiveOutlivesSweeps  BY DEF SweepInv
<1> QED  BY <1>1, InitSweeps, StepSweeps, PTL DEF Spec

\* A run never hides a listing it saw itself (_apply_scope_reports): only a scope's
\* absence ends a known listing, and it passes over every key its run has seen.
THEOREM OwnSightingAlwaysKept == Spec => OwnSightingKept
<1> DEFINE Kept == \A r \in Runs : \A k \in Known :
             (run'[r].applied # run[r].applied /\ Active(k) /\ ~Active(k)') => k \notin SeenInRun(r)
<1>1. TypeOK /\ [Next]_vars => [Kept]_vars
  <2> SUFFICES ASSUME TypeOK, [Next]_vars PROVE Kept \/ UNCHANGED vars  OBVIOUS
  <2>1. ASSUME NEW q \in Runs, Fetch(q) \/ Succeed(q) \/ Fail(q) \/ Reject(q) PROVE Kept
    <3>1. listing' = listing  BY <2>1 DEF Fetch, Succeed, Fail, Reject
    <3> QED  BY <3>1 DEF Active, Known
  <2>2. ASSUME NEW q \in Runs, Persist(q) PROVE Kept
    <3>1. \A r \in Runs : run'[r].applied = run[r].applied  BY <2>2 DEF Persist, TypeOK, Run
    <3> QED  BY <3>1
  <2>3. ASSUME NEW q \in Runs, NEW s \in AllScopes, ApplyAbsence(q, s) PROVE Kept
    <3>1. \A r \in Runs : run'[r].applied # run[r].applied => r = q
      BY <2>3 DEF ApplyAbsence, TypeOK, Run
    <3>2. \A k \in Known : Active(k) /\ ~Active(k)' => k \in Delisted(q, s)
      BY <2>3 DEF ApplyAbsence, Active, Known
    <3>3. Delisted(q, s) \subseteq Known \ SeenInRun(q)
      BY DEF Delisted, Candidates, WidenSeen
    <3> QED  BY <3>1, <3>2, <3>3
  <2>4. CASE Purge \/ Tick  BY <2>4 DEF Purge, Tick
  <2> QED  BY <2>1, <2>2, <2>3, <2>4 DEF Next
<1> QED  BY <1>1, TypeCorrect, PTL DEF Spec, OwnSightingKept

-----------------------------------------------------------------------------
(* Retired content.                                                        *)

\* A key is known before anything of it is kept, and a delist is an absence.
RetiredInv ==
    /\ \A k \in Keys \ Known : snaps[k] = {}
    /\ \A k \in Known : listing[k].delisted <= listing[k].absence
    /\ EndedContentRetired

\* What RetiredInv says of one row and its snapshots.
Retired(w, held) ==
    /\ w.delisted <= w.absence
    /\ source.bounded => /\ w.delisted # 0 => w.content = 0
                         /\ \A t \in held : t.at < w.absence => t.expires <= w.absence

LEMMA RetiredRows ==
  RetiredInv <=> /\ \A k \in Keys \ Known : snaps[k] = {}
                 /\ \A k \in Known : Retired(listing[k], snaps[k])
  BY DEF RetiredInv, EndedContentRetired, Retired, Active

LEMMA RetiredRowsNext ==
  ASSUME source' = source
  PROVE  RetiredInv' <=> /\ \A k \in Keys \ Known' : snaps'[k] = {}
                         /\ \A k \in Known' : Retired(listing'[k], snaps'[k])
  BY DEF RetiredInv, EndedContentRetired, Retired, Active

LEMMA MarkDelistedFields ==
  ASSUME NEW row \in Listing, row.delisted = 0, NEW when \in Time, NEW reason \in DelistReason
  PROVE  LET w == MarkDelisted(row, reason, when)
         IN  /\ w.delisted = when /\ w.absence = Most(row.absence, when)
             /\ source.bounded => w.content = 0
  BY DEF MarkDelisted, Listing

\* A snapshot a run adds is of its instant, and does not outlive a newer absence.
LEMMA HistoryFields ==
  ASSUME TypeOK, NEW r \in Runs, NEW k \in Keys, NEW t \in AppendHistory(r, k)
  PROVE  /\ t.at = run[r].at
         /\ source.bounded /\ AbsenceAfter(r, k) # 0 => t.expires <= AbsenceAfter(r, k)
<1>1. run[r].at \in Nat /\ Ttl \in Nat  BY TimeFacts DEF TypeOK, Run
<1>2. AbsenceAfter(r, k) \in Nat
  <2>1. mark[Target(r, k)].complete \in Nat  BY TargetType, TimeFacts DEF TypeOK, Watermarks
  <2>2. k \in Known => EffectiveAbsence(listing[k]) \in Nat
    BY TimeFacts DEF TypeOK, Known, Listing, EffectiveAbsence
  <2> QED  BY <2>1, <2>2 DEF AbsenceAfter
<1>3. Least(run[r].at + Ttl, AbsenceAfter(r, k)) <= AbsenceAfter(r, k)  BY <1>1, <1>2 DEF Least
<1> QED  BY <1>1, <1>3 DEF AppendHistory

LEMMA PersistRetired ==
  ASSUME TypeOK, RetiredInv, NEW q \in Runs, Persist(q)
  PROVE  RetiredInv'
<1>1. source' = source /\ Known' = Known \union SeenInRun(q)  BY DEF Persist, Known
<1>2. \A k \in Keys : snaps'[k] = IF k \in SeenInRun(q) THEN snaps[k] \union AppendHistory(q, k)
                                  ELSE snaps[k]
  BY DEF Persist
<1>3. \A k \in Keys \ Known' : snaps'[k] = {}  BY <1>1, <1>2 DEF RetiredInv
<1>4. ASSUME NEW k \in Known' PROVE Retired(listing'[k], snaps'[k])
  <2>1. k \in Keys  BY <1>1, <1>4, SeenKeys DEF TypeOK, Known
  <2>2. listing'[k] = IF k \in SeenInRun(q) THEN Observed(q, k) ELSE listing[k]
    BY <1>1, <1>4 DEF Persist
  <2>3. k \in Known => /\ Retired(listing[k], snaps[k]) /\ listing[k] \in Listing
                       /\ listing[k].absence \in Nat /\ listing[k].delisted \in Nat
    BY RetiredRows, TimeFacts DEF TypeOK, Known, Listing
  <2>4. run[q].at \in Nat  BY TimeFacts DEF TypeOK, Run
  <2>5. CASE k \notin SeenInRun(q)  BY <1>1, <1>2, <1>4, <2>1, <2>2, <2>3, <2>5
  <2>6. CASE k \in SeenInRun(q) /\ k \notin Known
    <3>1. snaps'[k] = AppendHistory(q, k)  BY <1>2, <2>1, <2>6 DEF RetiredInv
    <3>2. Fresh(q, k) \in Listing /\ Fresh(q, k).delisted = 0 /\ Fresh(q, k).absence = 0
      BY <2>1, FreshType DEF Fresh
    <3>3. CASE CurrentEligible(q, k)
      <4>1. listing'[k] = Fresh(q, k)  BY <2>2, <2>6, <3>3, ObservedCases
      <4> QED  BY <2>1, <2>4, <3>1, <3>2, <4>1, HistoryFields DEF Retired
    <3>4. CASE ~CurrentEligible(q, k)
      <4> DEFINE c == mark[Target(q, k)].complete
      <4>1. c \in Time /\ c \in Nat  BY <2>1, TargetType, TimeFacts DEF TypeOK, Watermarks
      <4>2. c # 0  BY <2>4, <2>6, <3>4, <4>1 DEF CurrentEligible
      <4>3. AbsenceAfter(q, k) = c  BY <2>6, <3>4 DEF AbsenceAfter
      <4>4. listing'[k] = MarkDelisted(Fresh(q, k), "absent_from_sweep", c)
        BY <2>2, <2>6, <3>4, ObservedCases
      <4>5. /\ listing'[k].delisted = c /\ listing'[k].absence = Most(0, c)
            /\ source.bounded => listing'[k].content = 0
        BY <3>2, <4>1, <4>4, MarkDelistedFields DEF DelistReason
      <4>6. Most(0, c) = c  BY <4>1 DEF Most
      <4> HIDE DEF c
      <4> QED  BY <2>1, <3>1, <4>1, <4>2, <4>3, <4>5, <4>6, HistoryFields DEF Retired
    <3> QED  BY <3>3, <3>4
  <2>7. CASE k \in SeenInRun(q) /\ k \in Known
    <3>1. snaps'[k] = snaps[k] \union AppendHistory(q, k)  BY <1>2, <2>1, <2>7
    <3>2. EffectiveAbsence(listing[k]) = listing[k].absence
      BY <2>3, <2>7 DEF EffectiveAbsence, Most, Retired
    <3>3. CASE CurrentEligible(q, k)
      <4>1. listing'[k] = [Fresh(q, k) EXCEPT !.absence = listing[k].absence]
        BY <2>2, <2>7, <3>3, ObservedCases
      <4>2. listing'[k].absence = listing[k].absence /\ listing'[k].delisted = 0
        BY <4>1 DEF Fresh
      <4>3. run[q].at >= listing[k].absence  BY <2>7, <3>2, <3>3 DEF CurrentEligible
      <4> QED  BY <2>1, <2>3, <2>4, <2>7, <3>1, <4>2, <4>3, HistoryFields DEF Retired
    <3>4. CASE ~CurrentEligible(q, k)
      <4>1. listing'[k] = listing[k]  BY <2>2, <2>7, <3>4, ObservedCases
      <4>2. run[q].at < listing[k].absence => AbsenceAfter(q, k) = listing[k].absence
        BY <2>3, <2>4, <2>7, <3>2, <3>4 DEF AbsenceAfter
      <4> QED  BY <2>1, <2>3, <2>4, <2>7, <3>1, <4>1, <4>2, HistoryFields DEF Retired
    <3> QED  BY <3>3, <3>4
  <2> QED  BY <2>5, <2>6, <2>7
<1> QED  BY <1>1, <1>3, <1>4, RetiredRowsNext

LEMMA ApplyAbsenceRetired ==
  ASSUME TypeOK, RetiredInv, NEW q \in Runs, NEW s \in AllScopes, ApplyAbsence(q, s)
  PROVE  RetiredInv'
<1>1. source' = source /\ Known' = Known /\ run[q].at \in Time /\ run[q].at \in Nat
  BY TimeFacts DEF ApplyAbsence, Known, TypeOK, Run
<1>2. Delisted(q, s) \subseteq Known  BY DEF Delisted, Candidates
<1>3. \A k \in Keys \ Known' : snaps'[k] = {}  BY <1>1, <1>2 DEF RetiredInv, ApplyAbsence
<1>4. ASSUME NEW k \in Known PROVE Retired(listing'[k], snaps'[k])
  <2>1. k \in Keys /\ listing[k] \in Listing /\ Retired(listing[k], snaps[k])
        /\ listing[k].absence \in Nat
    BY RetiredRows, TimeFacts DEF TypeOK, Known, Listing
  <2>2. CASE k \notin Delisted(q, s)
    <3>1. listing'[k] = listing[k] /\ snaps'[k] = snaps[k]  BY <2>1, <2>2 DEF ApplyAbsence
    <3> QED  BY <2>1, <3>1
  <2>3. CASE k \in Delisted(q, s)
    <3>1. listing'[k] = MarkDelisted(listing[k], DelistReasonOf(q, s), run[q].at)
      BY <2>3 DEF ApplyAbsence
    <3>2. snaps'[k] = {PulledForward(t, run[q].at) : t \in snaps[k]}  BY <2>1, <2>3 DEF ApplyAbsence
    <3>3. listing[k].delisted = 0  BY <2>3 DEF Delisted, Candidates, Active
    <3>4. /\ listing'[k].delisted = run[q].at /\ listing'[k].absence = Most(listing[k].absence, run[q].at)
          /\ source.bounded => listing'[k].content = 0
      BY <1>1, <2>1, <3>1, <3>3, MarkDelistedFields DEF DelistReasonOf, DelistReason
    <3>5. Most(listing[k].absence, run[q].at) >= run[q].at
          /\ Most(listing[k].absence, run[q].at) \in Nat
      BY <1>1, <2>1 DEF Most
    <3>6. source.bounded => \A t \in snaps'[k] : t.expires \in Nat /\ t.expires <= run[q].at
      <4>1. \A t \in snaps[k] : t \in Snapshot /\ t.expires \in Nat
        BY <2>1, TimeFacts DEF TypeOK, Snapshot
      <4>2. source.bounded => \A t \in snaps[k] :
               /\ PulledForward(t, run[q].at).expires = Least(t.expires, run[q].at)
        BY <4>1 DEF PulledForward, Snapshot
      <4>3. \A t \in snaps[k] : Least(t.expires, run[q].at) \in Nat
                                /\ Least(t.expires, run[q].at) <= run[q].at
        BY <1>1, <4>1 DEF Least
      <4> QED  BY <3>2, <4>2, <4>3
    <3> QED  BY <1>1, <3>4, <3>5, <3>6 DEF Retired
  <2> QED  BY <2>2, <2>3
<1> QED  BY <1>1, <1>3, <1>4, RetiredRowsNext

LEMMA PurgeRetired == ASSUME TypeOK, RetiredInv, Purge PROVE RetiredInv'
<1>1. source' = source /\ Known' = Known /\ \A k \in Keys : snaps'[k] \subseteq snaps[k]
  BY DEF Purge, Known
<1>2. \A k \in Known : /\ listing'[k].delisted = listing[k].delisted
                       /\ listing'[k].absence = listing[k].absence
                       /\ listing'[k].content = listing[k].content \/ listing'[k].content = 0
  BY DEF Purge, Known, TypeOK, Listing
<1>3. \A k \in Known : k \in Keys /\ Retired(listing[k], snaps[k])
  BY RetiredRows DEF TypeOK, Known
<1>4. \A k \in Known : Retired(listing'[k], snaps'[k])  BY <1>1, <1>2, <1>3 DEF Retired
<1>5. \A k \in Keys \ Known' : snaps'[k] = {}  BY <1>1 DEF RetiredInv
<1> QED  BY <1>1, <1>4, <1>5, RetiredRowsNext

\* Once a delete-on-delist offer has ended its content is gone, and no snapshot from
\* before its end outlives it (mark_delisted, _append_history), whatever runs arrive
\* late.
THEOREM EndedContentAlwaysRetired == Spec => []EndedContentRetired
<1>1. Init => RetiredInv
  BY DEF Init, RetiredInv, EndedContentRetired, Known
<1>2. TypeOK /\ RetiredInv /\ [Next]_vars => RetiredInv'
  <2> SUFFICES ASSUME TypeOK, RetiredInv, [Next]_vars PROVE RetiredInv'  OBVIOUS
  <2>1. ASSUME source' = source, listing' = listing, snaps' = snaps PROVE RetiredInv'
    BY <2>1 DEF RetiredInv, EndedContentRetired, Known, Active
  <2>2. ASSUME NEW r \in Runs, Fetch(r) \/ Succeed(r) \/ Fail(r) \/ Reject(r) PROVE RetiredInv'
    BY <2>1, <2>2 DEF Fetch, Succeed, Fail, Reject
  <2>3. CASE Tick \/ UNCHANGED vars  BY <2>1, <2>3 DEF Tick, vars
  <2> QED  BY <2>2, <2>3, PersistRetired, ApplyAbsenceRetired, PurgeRetired DEF Next
<1>3. RetiredInv => EndedContentRetired  BY DEF RetiredInv
<1> QED  BY <1>1, <1>2, <1>3, TypeCorrect, PTL DEF Spec

-----------------------------------------------------------------------------
(* The rows as a function of the evidence.                                 *)

\* A source that collects one scope and concludes from complete sweeps alone.
OnlyScope(s) == source.local \union source.actor = {s} /\ ~source.stale

\* The instants at which an applied run saw a key, and at which a complete sweep
\* of the scope was without it.
Sightings(k) == {run[r].at : r \in {r \in Persisted : k \in SeenInRun(r)}}
Misses(k, s) == {run[r].at : r \in {r \in Persisted : /\ k \notin SeenInRun(r)
                                                     /\ s \in run[r].applied \intersect run[r].complete}}

\* Every run is of that scope, and no two share an instant.
RunsOfScope(s) ==
    \A r \in Runs :
        /\ run[r].swept \subseteq {s} /\ run[r].applied \subseteq {s}
        /\ \A p \in AllScopes : p # s => run[r].pages[p] = {}
        /\ run[r].at <= clock
        /\ run[r].pc \in {"idle", "fetched", "failed"} => run[r].applied = {}
        /\ run[r].pc \notin {"idle", "failed"} =>
              /\ run[r].at # 0
              /\ \A q \in Runs : q # r /\ run[q].pc \notin {"idle", "failed"} => run[q].at # run[r].at

\* The newest complete sweep is one that was applied.
SweptBySome(s) ==
    mark[s].complete # 0 =>
        \E r \in Runs : s \in run[r].applied \intersect run[r].complete /\ run[r].at = mark[s].complete

\* What a row says, in terms of when its key was seen and when it was missed.
RowSays(row, seen, missed) ==
    /\ row.observed \in seen /\ row.delisted <= row.absence
    /\ row.absence # 0 => \E m \in missed : row.absence <= m
    /\ row.delisted = 0 => /\ row.absence <= row.observed
                           /\ \A t \in seen \union missed : t <= row.observed
                           /\ ~source.bounded => row.content = row.observed
    /\ row.delisted # 0 => \E m \in missed : \A t \in seen : t < m
    /\ ~source.bounded => row.expires = 0

RowsSay(s) ==
    \A k \in Keys :
        /\ Sightings(k) # {} => k \in Known
        /\ k \in Known => listing[k].scope = s /\ RowSays(listing[k], Sightings(k), Misses(k, s))

OrderInv == \A s \in AllScopes : OnlyScope(s) => RunsOfScope(s) /\ SweptBySome(s) /\ RowsSay(s)

\* The runs a step takes no evidence from keep what they prove.
LEMMA EvidenceKept ==
  ASSUME Persisted' = Persisted,
         \A r \in Persisted : /\ run'[r].at = run[r].at /\ run'[r].pages = run[r].pages
                              /\ run'[r].complete = run[r].complete /\ run'[r].applied = run[r].applied,
         NEW k, NEW s
  PROVE  Sightings(k)' = Sightings(k) /\ Misses(k, s)' = Misses(k, s)
<1>1. \A r \in Persisted : k \in SeenInRun(r)' <=> k \in SeenInRun(r)  BY DEF SeenInRun
<1> QED  BY <1>1 DEF Sightings, Misses

LEMMA EvidenceFacts ==
  ASSUME TypeOK, NEW k, NEW s
  PROVE  /\ Sightings(k) \subseteq Time /\ Misses(k, s) \subseteq Time
         /\ Persisted \subseteq Runs
  BY DEF Sightings, Misses, TypeOK, Run, Persisted

\* The newest complete sweep of the scope saw the key or missed it.
LEMMA SweepIsEvidence ==
  ASSUME TypeOK, SweepsMarked, NEW s \in AllScopes, RunsOfScope(s), SweptBySome(s), NEW k
  PROVE  /\ mark[s].complete \in Nat
         /\ mark[s].complete # 0 => mark[s].complete \in Sightings(k) \union Misses(k, s)
         /\ \A m \in Misses(k, s) : m <= mark[s].complete
<1>1. mark[s].complete \in Nat /\ \A r \in Runs : run[r].at \in Nat
  BY TimeFacts DEF TypeOK, Watermarks, Run
<1>2. \A r \in Runs : run[r].applied # {} => r \in Persisted
  <2>1. \A r \in Runs : run[r].pc \in {"idle", "fetched", "persisted", "done", "failed", "lost"}
    BY DEF TypeOK, Run
  <2> QED  BY <2>1 DEF RunsOfScope, Persisted
<1>3. ASSUME mark[s].complete # 0 PROVE mark[s].complete \in Sightings(k) \union Misses(k, s)
  <2>1. PICK r \in Runs : s \in run[r].applied \intersect run[r].complete /\ run[r].at = mark[s].complete
    BY <1>3 DEF SweptBySome
  <2>2. r \in Persisted  BY <1>2, <2>1
  <2> QED  BY <2>1, <2>2 DEF Sightings, Misses
<1>4. \A m \in Misses(k, s) : m <= mark[s].complete
  <2> SUFFICES ASSUME NEW r \in Persisted, s \in run[r].applied \intersect run[r].complete
               PROVE  run[r].at <= mark[s].complete
    BY DEF Misses
  <2> QED  BY <1>1 DEF SweepsMarked, Persisted
<1> QED  BY <1>1, <1>3, <1>4

LEMMA PersistedBy ==
  ASSUME NEW r
  PROVE  r \in Persisted <=> r \in Runs /\ run[r].pc \in {"persisted", "done", "lost"}
  BY DEF Persisted

LEMMA FetchOrder ==
  ASSUME TypeOK, NEW s \in AllScopes, OnlyScope(s), RunsOfScope(s), NEW r \in Runs, Fetch(r)
  PROVE  RunsOfScope(s)' /\ Persisted' = Persisted /\ \A q \in Persisted : run'[q] = run[q]
<1>1. PICK w : /\ run' = [run EXCEPT ![r] = w] /\ w.at = clock + 1 /\ w.applied = {} /\ w.pc = "fetched"
               /\ w.swept \subseteq {s} /\ \A p \in AllScopes : p # s => w.pages[p] = {}
  <2>1. \A kind, remote : SweptBy(kind, remote) \subseteq {s}
    BY DEF SweptBy, OnlyScope
  <2>2. \A kind, remote, swept : \A w \in Batches(kind, remote, swept) :
          /\ w.at = clock + 1 /\ w.applied = {} /\ w.pc = "fetched" /\ w.swept = swept
          /\ \A p \in AllScopes : p \notin swept => w.pages[p] = {}
    BY DEF Batches, Batch
  <2>3. PICK kind \in source.kinds, remote \in BOOLEAN :
          \E w \in Batches(kind, remote, SweptBy(kind, remote)) : run' = [run EXCEPT ![r] = w]
    BY DEF Fetch
  <2>4. PICK w \in Batches(kind, remote, SweptBy(kind, remote)) : run' = [run EXCEPT ![r] = w]
    BY <2>3
  <2>5. /\ w.at = clock + 1 /\ w.applied = {} /\ w.pc = "fetched" /\ w.swept = SweptBy(kind, remote)
        /\ \A p \in AllScopes : p \notin SweptBy(kind, remote) => w.pages[p] = {}
    BY <2>2, <2>4
  <2>6. SweptBy(kind, remote) \subseteq {s}  BY <2>1
  <2> QED  BY <2>4, <2>5, <2>6
<1>2. clock \in Nat /\ clock' = clock + 1 /\ run[r].pc = "idle" /\ \A q \in Runs : run[q].at \in Nat
  BY TimeFacts DEF Fetch, TypeOK, Run
<1>3. \A q \in Runs : run'[q] = IF q = r THEN w ELSE run[q]  BY <1>1 DEF TypeOK
<1>4. RunsOfScope(s)'
  BY <1>1, <1>2, <1>3 DEF RunsOfScope
<1>5. Persisted' = Persisted
  BY <1>1, <1>2, <1>3 DEF Persisted
<1> QED  BY <1>2, <1>3, <1>4, <1>5, PersistedBy

LEMMA EndOrder ==
  ASSUME TypeOK, NEW s \in AllScopes, RunsOfScope(s), NEW r \in Runs, Succeed(r) \/ Fail(r) \/ Reject(r)
  PROVE  /\ RunsOfScope(s)' /\ Persisted' = Persisted
         /\ \A q \in Persisted : /\ run'[q].at = run[q].at /\ run'[q].pages = run[q].pages
                                 /\ run'[q].complete = run[q].complete /\ run'[q].applied = run[q].applied
<1> DEFINE failed == [IdleRun EXCEPT !.pc = "failed"]
<1>1. \/ run' = [run EXCEPT ![r] = failed] /\ run[r].pc = "fetched"
      \/ run' = [run EXCEPT ![r] = [run[r] EXCEPT !.pc = "done"]] /\ run[r].pc = "persisted"
      \/ run' = [run EXCEPT ![r] = [run[r] EXCEPT !.pc = "lost"]] /\ run[r].pc = "persisted"
  BY DEF Succeed, Fail, Reject
<1>2. clock' = clock /\ run[r] \in Run /\ clock \in Nat  BY TimeFacts DEF Succeed, Fail, Reject, TypeOK
<1>3. CASE run' = [run EXCEPT ![r] = failed] /\ run[r].pc = "fetched"
  <2>1. \A q \in Runs : run'[q] = IF q = r THEN failed ELSE run[q]  BY <1>3 DEF TypeOK
  <2>2. /\ failed.pc = "failed" /\ failed.at = 0 /\ failed.swept = {} /\ failed.applied = {}
        /\ \A p \in AllScopes : failed.pages[p] = {}
    BY DEF IdleRun, NoPages
  <2> HIDE DEF failed
  <2>3. RunsOfScope(s)'  BY <1>2, <2>1, <2>2 DEF RunsOfScope
  <2>4. Persisted' = Persisted  BY <1>3, <2>1, <2>2 DEF Persisted
  <2> QED  BY <1>3, <2>1, <2>3, <2>4, PersistedBy
<1>4. ASSUME NEW pc \in {"done", "lost"}, run' = [run EXCEPT ![r] = [run[r] EXCEPT !.pc = pc]],
             run[r].pc = "persisted"
      PROVE  /\ RunsOfScope(s)' /\ Persisted' = Persisted
             /\ \A q \in Runs : /\ run'[q].at = run[q].at /\ run'[q].pages = run[q].pages
                                /\ run'[q].complete = run[q].complete /\ run'[q].applied = run[q].applied
  <2>1. \A q \in Runs : /\ run'[q].at = run[q].at /\ run'[q].pages = run[q].pages
                        /\ run'[q].complete = run[q].complete /\ run'[q].applied = run[q].applied
                        /\ run'[q].swept = run[q].swept
                        /\ run'[q].pc = IF q = r THEN pc ELSE run[q].pc
    BY <1>4 DEF TypeOK, Run
  <2>2. RunsOfScope(s)'  BY <1>2, <1>4, <2>1 DEF RunsOfScope
  <2>3. Persisted' = Persisted  BY <1>4, <2>1 DEF Persisted
  <2> QED  BY <2>1, <2>2, <2>3
<1> QED  BY <1>1, <1>3, <1>4 DEF Persisted

LEMMA PersistOrder ==
  ASSUME TypeOK, NEW s \in AllScopes, RunsOfScope(s), NEW q \in Runs, Persist(q)
  PROVE  /\ RunsOfScope(s)'
         /\ \A k : /\ Sightings(k)' = Sightings(k) \union (IF k \in SeenInRun(q) THEN {run[q].at} ELSE {})
                   /\ Misses(k, s)' = Misses(k, s)
<1>1. \A r \in Runs : /\ run'[r].at = run[r].at /\ run'[r].pages = run[r].pages
                      /\ run'[r].complete = run[r].complete /\ run'[r].applied = run[r].applied
                      /\ run'[r].swept = run[r].swept
                      /\ run'[r].pc = IF r = q THEN "persisted" ELSE run[r].pc
  BY DEF Persist, TypeOK, Run
<1>2. clock' = clock /\ run[q].pc = "fetched" /\ run[q].applied = {}  BY DEF Persist, RunsOfScope
<1>3. RunsOfScope(s)'  BY <1>1, <1>2 DEF RunsOfScope
<1>4. Persisted' = Persisted \union {q} /\ q \notin Persisted  BY <1>1, <1>2 DEF Persisted
<1>5. ASSUME NEW k
      PROVE  /\ Sightings(k)' = Sightings(k) \union (IF k \in SeenInRun(q) THEN {run[q].at} ELSE {})
             /\ Misses(k, s)' = Misses(k, s)
  <2>1. \A r \in Runs : k \in SeenInRun(r)' <=> k \in SeenInRun(r)  BY <1>1 DEF SeenInRun
  <2>2. \A r \in Persisted : r \in Runs  BY DEF Persisted
  <2>3. Sightings(k)' = Sightings(k) \union (IF k \in SeenInRun(q) THEN {run[q].at} ELSE {})
    BY <1>1, <1>4, <2>1, <2>2 DEF Sightings
  <2>4. Misses(k, s)' = Misses(k, s)
    BY <1>1, <1>2, <1>4, <2>1, <2>2 DEF Misses
  <2> QED  BY <2>3, <2>4
<1> QED  BY <1>3, <1>5

\* observe_listing of a key this run saw, against what is known of the key.
LEMMA ObservedSays ==
  ASSUME TypeOK, SweepsMarked, NEW s \in AllScopes, OnlyScope(s), RunsOfScope(s), SweptBySome(s),
         RowsSay(s), NEW q \in Runs, run[q].pc = "fetched", NEW k \in SeenInRun(q)
  PROVE  /\ Observed(q, k).scope = s
         /\ RowSays(Observed(q, k), Sightings(k) \union {run[q].at}, Misses(k, s))
<1> DEFINE at == run[q].at
           C == mark[s].complete
           S == Sightings(k)
           M == Misses(k, s)
<1>1. k \in Keys /\ at \in Nat /\ at # 0 /\ at \in Time /\ C \in Nat /\ C \in Time
  BY SeenKeys, TimeFacts DEF TypeOK, Run, RunsOfScope, Watermarks
<1>2. Target(q, k) = s
  <2>1. \A p \in AllScopes : k \in run[q].pages[p] => p = s  BY DEF RunsOfScope
  <2>2. k \in run[q].pages[s]  BY <2>1 DEF SeenInRun
  <2>3. Asserted(q, k) = s
    <3>1. CASE s \in Scopes
      <4>1. \E p \in Scopes : k \in run[q].pages[p]  BY <2>2, <3>1
      <4>2. (CHOOSE p \in Scopes : k \in run[q].pages[p]) = s  BY <2>1, <4>1 DEF AllScopes
      <4> QED  BY <4>1, <4>2 DEF Asserted
    <3>2. CASE s = Null
      <4>1. ~\E p \in Scopes : k \in run[q].pages[p]
        BY <2>1, <3>2, CollectionAssumption DEF AllScopes
      <4> QED  BY <3>2, <4>1 DEF Asserted
    <3> QED  BY <3>1, <3>2 DEF AllScopes
  <2>4. k \in Known => listing[k].scope = s  BY <1>1 DEF RowsSay
  <2> QED  BY <2>3, <2>4 DEF Target
<1>3. /\ C # 0 => C \in S \union M
      /\ \A m \in M : m <= C
      /\ S \subseteq Nat /\ M \subseteq Nat
  BY SweepIsEvidence, EvidenceFacts, TimeFacts
<1>4. S # {} => k \in Known  BY <1>1 DEF RowsSay
<1>5. k \in Known => /\ RowSays(listing[k], S, M) /\ listing[k] \in Listing /\ listing[k].scope = s
                     /\ listing[k].observed \in Nat /\ listing[k].absence \in Nat
                     /\ listing[k].delisted \in Nat
  BY <1>1, TimeFacts DEF RowsSay, TypeOK, Known, Listing
<1>6. CurrentEligible(q, k) <=>
        at >= C /\ (k \in Known => /\ at >= listing[k].observed
                                   /\ at >= EffectiveAbsence(listing[k]))
  BY <1>2 DEF CurrentEligible
<1>7. k \in Known => EffectiveAbsence(listing[k]) = listing[k].absence
  BY <1>5 DEF EffectiveAbsence, Most, RowSays
<1>8. Fresh(q, k) \in Listing /\ Fresh(q, k).scope = s /\ Fresh(q, k).observed = at
      /\ Fresh(q, k).delisted = 0 /\ Fresh(q, k).absence = 0 /\ Fresh(q, k).content = at
      /\ (~source.bounded => Fresh(q, k).expires = 0)
  BY <1>1, <1>2, FreshType DEF Fresh, ExpiresAt
<1> HIDE DEF at, C, S, M
<1>9. CASE k \notin Known /\ CurrentEligible(q, k)
  <2>1. S = {} /\ \A m \in M : m <= at  BY <1>1, <1>3, <1>4, <1>6, <1>9
  <2>2. RowSays(Fresh(q, k), S \union {at}, M)  BY <1>1, <1>8, <2>1 DEF RowSays
  <2> QED  BY <1>8, <1>9, <2>2, ObservedCases DEF at, S, M
<1>10. CASE k \notin Known /\ ~CurrentEligible(q, k)
  <2> DEFINE w == MarkDelisted(Fresh(q, k), "absent_from_sweep", C)
  <2>1. S = {} /\ C > at /\ C \in M  BY <1>1, <1>3, <1>4, <1>6, <1>10
  <2>2. Observed(q, k) = w  BY <1>2, <1>10, ObservedCases DEF C
  <2>3. /\ w.scope = s /\ w.observed = at /\ w.delisted = C /\ w.absence = Most(0, C)
        /\ (~source.bounded => w.expires = 0)
    BY <1>8 DEF MarkDelisted, Listing
  <2>4. w.absence = C  BY <1>1, <2>1, <2>3 DEF Most
  <2> HIDE DEF w
  <2>5. RowSays(w, S \union {at}, M)  BY <1>1, <2>1, <2>3, <2>4 DEF RowSays
  <2> QED  BY <2>2, <2>3, <2>5 DEF at, S, M
<1>11. CASE k \in Known /\ CurrentEligible(q, k)
  <2> DEFINE w == [Fresh(q, k) EXCEPT !.absence = listing[k].absence]
  <2>1. Observed(q, k) = w  BY <1>11, ObservedCases
  <2>2. /\ w.scope = s /\ w.observed = at /\ w.delisted = 0 /\ w.absence = listing[k].absence
        /\ w.content = at /\ (~source.bounded => w.expires = 0)
    BY <1>8 DEF Listing
  <2>3. at >= C /\ at >= listing[k].observed /\ at >= listing[k].absence  BY <1>6, <1>7, <1>11
  <2>4. \A t \in S \union {at} \union M : t <= at
    <3>1. \A m \in M : m <= at  BY <1>1, <1>3, <2>3
    <3>2. CASE listing[k].delisted = 0  BY <1>1, <1>3, <1>5, <1>11, <2>3, <3>1, <3>2 DEF RowSays
    <3>3. CASE listing[k].delisted # 0
      <4>1. PICK m \in M : \A t \in S : t < m  BY <1>5, <1>11, <3>3 DEF RowSays
      <4>2. m \in Nat /\ S \subseteq Nat /\ at \in Nat /\ m <= at  BY <1>1, <1>3, <3>1, <4>1
      <4>3. \A t \in S : t <= at  BY <4>1, <4>2
      <4>4. at <= at  BY <4>2
      <4> QED  BY <3>1, <4>3, <4>4
    <3> QED  BY <3>2, <3>3
  <2>5. listing[k].absence # 0 => \E m \in M : listing[k].absence <= m  BY <1>5, <1>11 DEF RowSays
  <2> HIDE DEF w
  <2>6. RowSays(w, S \union {at}, M)  BY <1>1, <1>5, <1>11, <2>2, <2>3, <2>4, <2>5 DEF RowSays
  <2> QED  BY <2>1, <2>2, <2>6 DEF at, S, M
<1>12. CASE k \in Known /\ ~CurrentEligible(q, k)
  <2>1. Observed(q, k) = listing[k]  BY <1>12, ObservedCases
  <2>2. at < C \/ at < listing[k].observed \/ at < listing[k].absence  BY <1>1, <1>5, <1>6, <1>7, <1>12
  <2>3. RowSays(listing[k], S, M)  BY <1>5, <1>12
  <2>4. CASE listing[k].delisted = 0
    <3>1. at <= listing[k].observed
      <4>1. \A t \in S \union M : t <= listing[k].observed  BY <2>3, <2>4 DEF RowSays
      <4>2. listing[k].absence <= listing[k].observed  BY <2>3, <2>4 DEF RowSays
      <4>3. C <= listing[k].observed  BY <1>3, <1>5, <1>12, <4>1
      <4> QED  BY <1>1, <1>5, <1>12, <2>2, <4>2, <4>3
    <3> QED  BY <1>5, <1>12, <2>1, <2>3, <2>4, <3>1 DEF RowSays, at, S, M
  <2>5. CASE listing[k].delisted # 0
    <3>1. PICK m \in M : \A t \in S : t < m  BY <2>3, <2>5 DEF RowSays
    <3>2. \E n \in M : \A t \in S \union {at} : t < n
      <4>1. CASE at < m  BY <3>1, <4>1
      <4>2. CASE m <= at
        <5>1. \A t \in S : t <= at
          <6> SUFFICES ASSUME NEW t \in S PROVE t <= at
            OBVIOUS
          <6>1. t \in Nat /\ m \in Nat /\ t < m  BY <1>3, <3>1
          <6> QED  BY <1>1, <4>2, <6>1
        <5>2. ASSUME NEW n \in M, at < n PROVE \A t \in S \union {at} : t < n
          BY <1>1, <1>3, <5>1, <5>2
        <5>3. ~(at < listing[k].observed)  BY <1>1, <1>5, <1>12, <2>3, <5>1 DEF RowSays
        <5>4. CASE at < C
          <6>1. C \notin S  BY <1>1, <5>1, <5>4
          <6>2. C \in M  BY <1>1, <1>3, <5>4, <6>1
          <6> QED  BY <5>2, <5>4, <6>2
        <5>5. CASE at < listing[k].absence
          <6>1. PICK n \in M : listing[k].absence <= n  BY <1>1, <1>5, <1>12, <2>3, <5>5 DEF RowSays
          <6>2. at < n  BY <1>1, <1>3, <1>5, <1>12, <5>5, <6>1
          <6> QED  BY <5>2, <6>2
        <5> QED  BY <2>2, <5>3, <5>4, <5>5
      <4> QED  BY <1>1, <1>3, <4>1, <4>2
    <3> QED  BY <1>5, <1>12, <2>1, <2>3, <2>5, <3>2 DEF RowSays, at, S, M
  <2> QED  BY <2>4, <2>5
<1> QED  BY <1>9, <1>10, <1>11, <1>12

LEMMA CompleteAfterExact ==
  ASSUME TypeOK, NEW r \in Runs, NEW s \in AllScopes
  PROVE  WatermarksAfter(r, s)[s].complete =
            IF s \in run[r].complete THEN Most(mark[s].complete, run[r].at) ELSE mark[s].complete
<1>1. run[r].at \in Time /\ mark[s] \in Watermarks  BY DEF TypeOK, Run
<1> DEFINE folded == IF CountsTowardContinuity(r, s)
                     THEN RecordContinuity(mark[s], run[r].at, Previous(r, s))
                     ELSE BreakContinuity(mark[s], run[r].at)
           swept == IF GateDelistScope(r, s) = "complete"
                    THEN RaiseCompleteSweep(folded, run[r].at) ELSE folded
<1>2. folded \in Watermarks /\ folded.complete = mark[s].complete
  BY <1>1, WatermarkTypes, WatermarkComplete, Zenon
<1>3. GateDelistScope(r, s) = "complete" <=> s \in run[r].complete  BY DEF GateDelistScope
<1> HIDE DEF folded
<1>4. RaiseCompleteSweep(folded, run[r].at).complete = Most(mark[s].complete, run[r].at)
  BY <1>2 DEF RaiseCompleteSweep, Watermarks
<1>5. swept.complete = IF s \in run[r].complete THEN Most(mark[s].complete, run[r].at)
                       ELSE mark[s].complete
  BY <1>2, <1>3, <1>4
<1> HIDE DEF swept
<1>6. WatermarksAfter(r, s) = [q \in AllScopes |->
            CASE q = s -> swept
              [] q = Null /\ q # s /\ BreaksNull(r, s) -> BreakContinuity(mark[q], run[r].at)
              [] OTHER -> mark[q]]
  BY Zenon DEF WatermarksAfter, folded, swept
<1> QED  BY <1>5, <1>6

\* apply_delist of a listing the sweep was without, and of any other.
LEMMA AbsenceSays ==
  ASSUME NEW row \in Listing, NEW at \in Time, at # 0, NEW seen \in SUBSET Nat, NEW missed \in SUBSET Nat,
         at \notin seen, RowSays(row, seen, missed)
  PROVE  /\ row.delisted = 0 /\ row.observed <= at =>
               RowSays(MarkDelisted(row, "absent_from_sweep", at), seen, missed \union {at})
         /\ ~(row.delisted = 0 /\ row.observed <= at) => RowSays(row, seen, missed \union {at})
<1>1. /\ row.observed \in Nat /\ row.absence \in Nat /\ row.delisted \in Nat /\ at \in Nat
  BY TimeFacts DEF Listing
<1>2. ASSUME row.delisted = 0, row.observed <= at
      PROVE  RowSays(MarkDelisted(row, "absent_from_sweep", at), seen, missed \union {at})
  <2> DEFINE w == MarkDelisted(row, "absent_from_sweep", at)
  <2>1. row.absence <= row.observed /\ \A t \in seen : t <= row.observed  BY <1>2 DEF RowSays
  <2>2. Most(row.absence, at) = at  BY <1>1, <1>2, <2>1 DEF Most
  <2>3. /\ w.observed = row.observed /\ w.delisted = at /\ w.absence = at
        /\ (~source.bounded => w.expires = 0)
    BY <1>2, <2>2 DEF MarkDelisted, Listing
  <2> HIDE DEF w
  <2>4. \A t \in seen : t < at
    <3> SUFFICES ASSUME NEW t \in seen PROVE t < at
      OBVIOUS
    <3>1. t \in Nat /\ t <= row.observed /\ t # at  BY <2>1
    <3> QED  BY <1>1, <1>2, <3>1
  <2>5. RowSays(w, seen, missed \union {at})  BY <1>1, <2>3, <2>4 DEF RowSays
  <2> QED  BY <2>5 DEF w
<1>3. ASSUME ~(row.delisted = 0 /\ row.observed <= at) PROVE RowSays(row, seen, missed \union {at})
  <2>1. CASE row.delisted # 0  BY <2>1 DEF RowSays
  <2>2. CASE row.delisted = 0
    <3>1. at <= row.observed  BY <1>1, <1>3, <2>2
    <3> QED  BY <2>2, <3>1 DEF RowSays
  <2> QED  BY <2>1, <2>2
<1> QED  BY <1>2, <1>3

LEMMA AbsenceOrder ==
  ASSUME TypeOK, NEW s \in AllScopes, OnlyScope(s), RunsOfScope(s), SweptBySome(s),
         NEW q \in Runs, NEW p \in AllScopes, ApplyAbsence(q, p)
  PROVE  /\ p = s /\ RunsOfScope(s)' /\ SweptBySome(s)'
         /\ \A k : /\ Sightings(k)' = Sightings(k)
                   /\ Misses(k, s)' = Misses(k, s) \union
                        (IF k \notin SeenInRun(q) /\ s \in run[q].complete THEN {run[q].at} ELSE {})
<1>1. p = s
  BY DEF ApplyAbsence, Reported, RunsOfScope
<1>2. \A r \in Runs : /\ run'[r].at = run[r].at /\ run'[r].pages = run[r].pages
                      /\ run'[r].complete = run[r].complete /\ run'[r].swept = run[r].swept
                      /\ run'[r].pc = run[r].pc
                      /\ run'[r].applied = IF r = q THEN run[r].applied \union {s} ELSE run[r].applied
  BY <1>1 DEF ApplyAbsence, TypeOK, Run
<1>3. clock' = clock /\ run[q].pc = "persisted" /\ s \notin run[q].applied
  BY <1>1 DEF ApplyAbsence
<1>a. \A r \in Runs : /\ run'[r].at = run[r].at /\ run'[r].pages = run[r].pages
                      /\ run'[r].swept = run[r].swept /\ run'[r].pc = run[r].pc
  BY <1>2
<1>b. \A r \in Runs : run'[r].applied \subseteq run[r].applied \union {s}
                      /\ (r # q => run'[r].applied = run[r].applied)
  BY <1>2
<1>4. RunsOfScope(s)'
  <2>1. \A r \in Runs : /\ run'[r].swept \subseteq {s} /\ run'[r].applied \subseteq {s}
                        /\ \A o \in AllScopes : o # s => run'[r].pages[o] = {}
                        /\ run'[r].at <= clock'
    BY <1>3, <1>a, <1>b DEF RunsOfScope
  <2>2. \A r \in Runs : run'[r].pc \in {"idle", "fetched", "failed"} => run'[r].applied = {}
    BY <1>3, <1>a, <1>b DEF RunsOfScope
  <2>3. \A r \in Runs : run'[r].pc \notin {"idle", "failed"} =>
          /\ run'[r].at # 0
          /\ \A o \in Runs : o # r /\ run'[o].pc \notin {"idle", "failed"} => run'[o].at # run'[r].at
    BY <1>a DEF RunsOfScope
  <2> QED  BY <2>1, <2>2, <2>3 DEF RunsOfScope
<1>5. SweptBySome(s)'
  <2>1. mark'[s].complete = IF s \in run[q].complete THEN Most(mark[s].complete, run[q].at)
                            ELSE mark[s].complete
    BY <1>1, CompleteAfterExact DEF ApplyAbsence
  <2>2. mark'[s].complete = mark[s].complete
        \/ (mark'[s].complete = run[q].at /\ s \in run[q].complete)
    BY <2>1 DEF Most
  <2>3. CASE mark'[s].complete = mark[s].complete  BY <1>2, <2>3 DEF SweptBySome
  <2>4. CASE mark'[s].complete = run[q].at /\ s \in run[q].complete  BY <1>2, <2>4 DEF SweptBySome
  <2> QED  BY <2>2, <2>3, <2>4
<1>6. Persisted' = Persisted /\ q \in Persisted  BY <1>2, <1>3 DEF Persisted
<1>7. ASSUME NEW k
      PROVE  /\ Sightings(k)' = Sightings(k)
             /\ Misses(k, s)' = Misses(k, s) \union
                  (IF k \notin SeenInRun(q) /\ s \in run[q].complete THEN {run[q].at} ELSE {})
  <2>1. \A r \in Runs : k \in SeenInRun(r)' <=> k \in SeenInRun(r)  BY <1>2 DEF SeenInRun
  <2>2. \A r \in Persisted : r \in Runs  BY DEF Persisted
  <2>3. Sightings(k)' = Sightings(k)  BY <1>a, <1>6, <2>1, <2>2 DEF Sightings
  <2> DEFINE Missed(r) == k \notin SeenInRun(r) /\ s \in run[r].applied \intersect run[r].complete
             new == IF k \notin SeenInRun(q) /\ s \in run[q].complete THEN {q} ELSE {}
             old == {r \in Persisted : Missed(r)}
  <2>5. {r \in Persisted : Missed(r)'} = old \union new
    <3>1. \A r \in Persisted : Missed(r)' <=> (Missed(r) \/ r \in new)
      BY <1>2, <2>1, <2>2
    <3> QED  BY <1>6, <3>1
  <2>4. Misses(k, s)' = Misses(k, s) \union
           (IF k \notin SeenInRun(q) /\ s \in run[q].complete THEN {run[q].at} ELSE {})
    <3>1. Misses(k, s) = {run[r].at : r \in old}  BY DEF Misses
    <3>2. Misses(k, s)' = {run'[r].at : r \in {r \in Persisted : Missed(r)'}}
      BY <1>6 DEF Misses
    <3>3. \A r \in old \union new : run'[r].at = run[r].at  BY <1>a, <1>6, <2>2
    <3>4. {run'[r].at : r \in old \union new} = {run[r].at : r \in old} \union {run[r].at : r \in new}
      BY <3>3
    <3>5. {run[r].at : r \in new} = IF k \notin SeenInRun(q) /\ s \in run[q].complete THEN {run[q].at} ELSE {}
      OBVIOUS
    <3> HIDE DEF old, new
    <3> QED  BY <2>5, <3>1, <3>2, <3>4, <3>5
  <2> QED  BY <2>3, <2>4
<1> QED  BY <1>1, <1>4, <1>5, <1>7

\* A step that moves no evidence and rewrites no row.
LEMMA RowsStay ==
  ASSUME NEW s, RowsSay(s), listing' = listing, source' = source,
         \A k : Sightings(k)' = Sightings(k) /\ Misses(k, s)' = Misses(k, s)
  PROVE  RowsSay(s)'
  BY DEF RowsSay, RowSays, Known

LEMMA SweptStays ==
  ASSUME TypeOK, NEW s \in AllScopes, RunsOfScope(s), SweptBySome(s), mark'[s].complete = mark[s].complete,
         \A r \in Persisted : /\ run'[r].at = run[r].at /\ run'[r].complete = run[r].complete
                              /\ run'[r].applied = run[r].applied
  PROVE  SweptBySome(s)'
<1>1. \A r \in Runs : run[r].applied # {} => r \in Persisted
  <2>1. \A r \in Runs : run[r].pc \in {"idle", "fetched", "persisted", "done", "failed", "lost"}
    BY DEF TypeOK, Run
  <2> QED  BY <2>1 DEF RunsOfScope, Persisted
<1> QED  BY <1>1 DEF SweptBySome

LEMMA OrderStep == SweepInv /\ OrderInv /\ [Next]_vars => OrderInv'
<1> SUFFICES ASSUME SweepInv, OrderInv, [Next]_vars, NEW s \in AllScopes, OnlyScope(s)'
             PROVE  RunsOfScope(s)' /\ SweptBySome(s)' /\ RowsSay(s)'
  BY DEF OrderInv
<1>1. source' = source
  BY DEF Next, vars, Fetch, Persist, Succeed, Fail, Reject, ApplyAbsence, Purge, Tick
<1>2. TypeOK /\ SweepsMarked /\ OnlyScope(s) /\ RunsOfScope(s) /\ SweptBySome(s) /\ RowsSay(s)
  BY <1>1 DEF SweepInv, OrderInv, OnlyScope
<1>3. ASSUME NEW r \in Runs, Fetch(r) PROVE RunsOfScope(s)' /\ SweptBySome(s)' /\ RowsSay(s)'
  <2>1. RunsOfScope(s)' /\ Persisted' = Persisted /\ \A q \in Persisted : run'[q] = run[q]
    BY <1>2, <1>3, FetchOrder
  <2>2. listing' = listing /\ mark' = mark  BY <1>3 DEF Fetch
  <2>3. \A k : Sightings(k)' = Sightings(k) /\ Misses(k, s)' = Misses(k, s)
    BY <2>1, EvidenceKept
  <2>4. SweptBySome(s)'  BY <1>2, <2>1, <2>2, SweptStays
  <2> QED  BY <1>1, <1>2, <2>1, <2>2, <2>3, <2>4, RowsStay
<1>4. ASSUME NEW r \in Runs, Succeed(r) \/ Fail(r) \/ Reject(r)
      PROVE  RunsOfScope(s)' /\ SweptBySome(s)' /\ RowsSay(s)'
  <2>1. /\ RunsOfScope(s)' /\ Persisted' = Persisted
        /\ \A q \in Persisted : /\ run'[q].at = run[q].at /\ run'[q].pages = run[q].pages
                                /\ run'[q].complete = run[q].complete /\ run'[q].applied = run[q].applied
    BY <1>2, <1>4, EndOrder
  <2>2. listing' = listing  BY <1>4 DEF Succeed, Fail, Reject
  <2>3. mark'[s].complete = mark[s].complete
    BY <1>2, <1>4, WatermarkComplete DEF TypeOK, Run, Succeed, Fail, Reject
  <2>4. \A k : Sightings(k)' = Sightings(k) /\ Misses(k, s)' = Misses(k, s)
    BY <2>1, EvidenceKept
  <2>5. SweptBySome(s)'  BY <1>2, <2>1, <2>3, SweptStays
  <2> QED  BY <1>1, <1>2, <2>1, <2>2, <2>4, <2>5, RowsStay
<1>5. ASSUME NEW q \in Runs, Persist(q) PROVE RunsOfScope(s)' /\ SweptBySome(s)' /\ RowsSay(s)'
  <2>1. /\ RunsOfScope(s)'
        /\ \A k : /\ Sightings(k)' = Sightings(k) \union (IF k \in SeenInRun(q) THEN {run[q].at} ELSE {})
                  /\ Misses(k, s)' = Misses(k, s)
    BY <1>2, <1>5, PersistOrder
  <2>2. /\ run[q].pc = "fetched" /\ mark' = mark
        /\ listing' = [k \in Known \union SeenInRun(q) |->
                         IF k \in SeenInRun(q) THEN Observed(q, k) ELSE listing[k]]
        /\ Known' = Known \union SeenInRun(q)
    BY <1>5 DEF Persist, Known
  <2>3. \A r \in Runs : /\ run'[r].at = run[r].at /\ run'[r].complete = run[r].complete
                        /\ run'[r].applied = run[r].applied
    BY <1>2, <1>5 DEF Persist, TypeOK, Run
  <2>4. SweptBySome(s)'  BY <1>2, <2>2, <2>3 DEF SweptBySome
  <2>5. ASSUME NEW k \in Keys
        PROVE  /\ Sightings(k)' # {} => k \in Known'
               /\ k \in Known' => listing'[k].scope = s /\ RowSays(listing'[k], Sightings(k)', Misses(k, s)')
    <3>1. CASE k \in SeenInRun(q)
      <4>1. listing'[k] = Observed(q, k) /\ k \in Known'  BY <2>2, <3>1
      <4>2. Observed(q, k).scope = s
            /\ RowSays(Observed(q, k), Sightings(k) \union {run[q].at}, Misses(k, s))
        BY <1>2, <2>2, <3>1, ObservedSays
      <4>3. Sightings(k)' = Sightings(k) \union {run[q].at} /\ Misses(k, s)' = Misses(k, s)
        BY <2>1, <3>1
      <4> QED  BY <4>1, <4>2, <4>3
    <3>2. CASE k \notin SeenInRun(q)
      <4>1. Sightings(k)' = Sightings(k) /\ Misses(k, s)' = Misses(k, s)  BY <2>1, <3>2
      <4>2. (k \in Known' <=> k \in Known) /\ (k \in Known => listing'[k] = listing[k])
        BY <2>2, <3>2
      <4> QED  BY <1>2, <4>1, <4>2 DEF RowsSay
    <3> QED  BY <3>1, <3>2
  <2>6. RowsSay(s)'  BY <1>1, <2>5 DEF RowsSay, RowSays
  <2> QED  BY <2>1, <2>4, <2>6
<1>6. ASSUME NEW q \in Runs, NEW p \in AllScopes, ApplyAbsence(q, p)
      PROVE  RunsOfScope(s)' /\ SweptBySome(s)' /\ RowsSay(s)'
  <2> DEFINE gone(k) == k \notin SeenInRun(q) /\ s \in run[q].complete
  <2>1. /\ p = s /\ RunsOfScope(s)' /\ SweptBySome(s)'
        /\ \A k : /\ Sightings(k)' = Sightings(k)
                  /\ Misses(k, s)' = Misses(k, s) \union (IF gone(k) THEN {run[q].at} ELSE {})
    BY <1>2, <1>6, AbsenceOrder
  <2>2. /\ run[q].pc = "persisted" /\ Known' = Known
        /\ \A k \in Known : listing'[k] = IF k \in Delisted(q, s)
                                          THEN MarkDelisted(listing[k], DelistReasonOf(q, s), run[q].at)
                                          ELSE listing[k]
    BY <1>6, <2>1 DEF ApplyAbsence, Known
  <2>3. /\ Delisted(q, s) = (IF s \in run[q].complete THEN Candidates(q, s) ELSE {})
        /\ s \in run[q].complete => DelistReasonOf(q, s) = "absent_from_sweep"
    <3>1. CASE s \in run[q].complete
      <4>1. GateDelistScope(q, s) = "complete"  BY <3>1 DEF GateDelistScope
      <4> QED  BY <3>1, <4>1 DEF Delisted, DelistReasonOf
    <3>2. CASE s \notin run[q].complete
      <4>1. GateDelistScope(q, s) = "none"  BY <1>2, <3>2 DEF GateDelistScope, OnlyScope
      <4>2. Delisted(q, s) = {}  BY <4>1 DEF Delisted
      <4> QED  BY <3>2, <4>2
    <3> QED  BY <3>1, <3>2
  <2>4. run[q].at \in Time /\ run[q].at # 0
    BY <1>2, <2>2 DEF TypeOK, Run, RunsOfScope
  <2>5. ASSUME NEW k \in Keys
        PROVE  /\ Sightings(k)' # {} => k \in Known'
               /\ k \in Known' => listing'[k].scope = s /\ RowSays(listing'[k], Sightings(k)', Misses(k, s)')
    <3>0. /\ Sightings(k) # {} => k \in Known
          /\ k \in Known => listing[k].scope = s /\ RowSays(listing[k], Sightings(k), Misses(k, s))
      BY <1>2 DEF RowsSay
    <3>1. CASE ~gone(k) /\ k \in Known
      <4>1. k \notin Delisted(q, s)  BY <2>3, <3>1 DEF Candidates, WidenSeen
      <4>2. listing'[k] = listing[k] /\ Misses(k, s)' = Misses(k, s)  BY <2>1, <2>2, <3>1, <4>1
      <4> QED  BY <2>1, <2>2, <3>0, <4>2
    <3>2. CASE gone(k) /\ k \in Known
      <4> DEFINE row == listing[k]
                 at == run[q].at
      <4>1. row \in Listing /\ row.scope = s /\ RowSays(row, Sightings(k), Misses(k, s))
        BY <1>2, <3>0, <3>2 DEF TypeOK, Known
      <4>2. at \notin Sightings(k)
        <5> SUFFICES ASSUME NEW r \in Persisted, k \in SeenInRun(r) PROVE run[r].at # at
          BY DEF Sightings
        <5>1. r # q /\ r \in Runs /\ run[r].pc \notin {"idle", "failed"}
          BY <3>2 DEF Persisted
        <5> QED  BY <1>2, <2>2, <5>1 DEF RunsOfScope
      <4>3. /\ Sightings(k) \in SUBSET Nat /\ Misses(k, s) \in SUBSET Nat
            /\ Misses(k, s)' = Misses(k, s) \union {at} /\ Sightings(k)' = Sightings(k)
        BY <1>2, <2>1, <3>2, EvidenceFacts, TimeFacts
      <4>4. k \in Delisted(q, s) <=> row.delisted = 0 /\ row.observed <= at
        BY <2>3, <3>2, <4>1 DEF Candidates, WidenSeen, Active
      <4>5. listing'[k] = IF row.delisted = 0 /\ row.observed <= at
                          THEN MarkDelisted(row, "absent_from_sweep", at) ELSE row
        BY <2>2, <2>3, <3>2, <4>4
      <4>6. RowSays(listing'[k], Sightings(k), Misses(k, s) \union {at})
        BY <2>4, <4>1, <4>2, <4>3, <4>5, AbsenceSays
      <4>7. listing'[k].scope = s
        BY <4>1, <4>5 DEF MarkDelisted, Listing
      <4> QED  BY <2>2, <3>0, <3>2, <4>3, <4>6, <4>7
    <3>3. CASE k \notin Known  BY <2>1, <2>2, <3>0, <3>3
    <3> QED  BY <3>1, <3>2, <3>3
  <2>6. RowsSay(s)'  BY <1>1, <2>5 DEF RowsSay, RowSays
  <2> QED  BY <2>1, <2>6
<1>7. ASSUME UNCHANGED <<source, run, mark>>, clock' \in Nat, clock' >= clock
      PROVE  /\ RunsOfScope(s)' /\ SweptBySome(s)'
             /\ \A k : Sightings(k)' = Sightings(k) /\ Misses(k, s)' = Misses(k, s)
  <2>1. clock \in Nat /\ \A r \in Runs : run[r].at \in Nat  BY <1>2, TimeFacts DEF TypeOK, Run
  <2>2. RunsOfScope(s)'  BY <1>2, <1>7, <2>1 DEF RunsOfScope
  <2>3. SweptBySome(s)'  BY <1>2, <1>7 DEF SweptBySome
  <2>4. Persisted' = Persisted  BY <1>7 DEF Persisted
  <2>5. \A k : Sightings(k)' = Sightings(k) /\ Misses(k, s)' = Misses(k, s)
    BY <1>7, <2>4, EvidenceKept
  <2> QED  BY <2>2, <2>3, <2>5
<1>8. CASE Purge
  <2>1. UNCHANGED <<source, run, mark>> /\ clock' = clock /\ clock \in Nat
    BY <1>2, <1>8, TimeFacts DEF Purge, TypeOK
  <2>2. /\ RunsOfScope(s)' /\ SweptBySome(s)'
        /\ \A k : Sightings(k)' = Sightings(k) /\ Misses(k, s)' = Misses(k, s)
    BY <1>7, <2>1
  <2>3. Known' = Known /\ \A k \in Known : listing'[k] = IF Expired(listing[k])
                                                       THEN [listing[k] EXCEPT !.content = 0] ELSE listing[k]
    BY <1>8 DEF Purge, Known
  <2>4. ASSUME NEW k \in Keys, k \in Known
        PROVE  listing'[k].scope = s /\ RowSays(listing'[k], Sightings(k), Misses(k, s))
    <3>1. listing[k] \in Listing /\ listing[k].scope = s /\ RowSays(listing[k], Sightings(k), Misses(k, s))
      BY <1>2, <2>4 DEF TypeOK, Known, RowsSay
    <3>2. CASE ~Expired(listing[k])  BY <2>3, <2>4, <3>1, <3>2
    <3>3. CASE Expired(listing[k])
      <4> DEFINE w == [listing[k] EXCEPT !.content = 0]
      <4>1. /\ w.scope = s /\ w.observed = listing[k].observed /\ w.delisted = listing[k].delisted
            /\ w.absence = listing[k].absence /\ w.expires = listing[k].expires
        BY <3>1 DEF Listing
      <4>2. source.bounded  BY <3>1, <3>3 DEF Expired, RowSays
      <4> HIDE DEF w
      <4>3. RowSays(w, Sightings(k), Misses(k, s))  BY <3>1, <4>1, <4>2 DEF RowSays
      <4> QED  BY <2>3, <2>4, <3>3, <4>1, <4>3 DEF w
    <3> QED  BY <3>2, <3>3
  <2>5. \A k \in Keys : Sightings(k) # {} => k \in Known  BY <1>2 DEF RowsSay
  <2>6. RowsSay(s)'  BY <2>1, <2>2, <2>3, <2>4, <2>5 DEF RowsSay, RowSays
  <2> QED  BY <2>2, <2>6
<1>9. CASE Tick \/ UNCHANGED vars
  <2>1. clock \in Nat  BY <1>2, TimeFacts DEF TypeOK
  <2>2. UNCHANGED <<source, run, mark, listing>> /\ (clock' = clock + 1 \/ clock' = clock)
    BY <1>9 DEF Tick, vars
  <2>3. clock' \in Nat /\ clock' >= clock  BY <2>1, <2>2
  <2>4. RunsOfScope(s)' /\ SweptBySome(s)'
        /\ \A k : Sightings(k)' = Sightings(k) /\ Misses(k, s)' = Misses(k, s)
    BY <1>7, <2>2, <2>3
  <2> QED  BY <1>1, <1>2, <2>2, <2>4, RowsStay
<1> QED  BY <1>3, <1>4, <1>5, <1>6, <1>8, <1>9 DEF Next

LEMMA OrderInit == Init => OrderInv
<1> SUFFICES ASSUME Init, NEW s \in AllScopes PROVE RunsOfScope(s) /\ SweptBySome(s) /\ RowsSay(s)
  BY DEF OrderInv
<1>1. run = [r \in Runs |-> IdleRun] /\ clock = 0 /\ Known = {}  BY DEF Init, Known
<1>2. RunsOfScope(s)  BY <1>1 DEF RunsOfScope, IdleRun, NoPages
<1>3. SweptBySome(s)  BY DEF Init, SweptBySome
<1>4. Persisted = {}  BY <1>1 DEF Persisted, IdleRun
<1>5. RowsSay(s)  BY <1>1, <1>4 DEF RowsSay, Sightings
<1> QED  BY <1>2, <1>3, <1>5

LEMMA NewestFacts ==
  ASSUME NEW S, S \subseteq Time
  PROVE  Max({0} \union S) \in {0} \union S /\ \A t \in S : t <= Max({0} \union S)
<1> DEFINE T == {0} \union S
<1>1. T \subseteq 0..MaxTime /\ 0..MaxTime \subseteq Int  BY TimeFacts DEF Time
<1>2. IsFiniteSet(0..MaxTime)  BY TimeFacts, FS_Interval
<1>3. IsFiniteSet(T)  BY <1>1, <1>2, FS_Subset
<1>4. T # {} /\ T \subseteq Int  BY <1>1
<1> HIDE DEF T
<1>5. Max(T) \in T /\ \A x \in T : x <= Max(T)  BY <1>3, <1>4, MaxOfFinite
<1> QED  BY <1>5 DEF T

\* observe_listing and apply_delist: where one scope is collected and only complete
\* sweeps conclude, a row is a function of the evidence applied and not of the
\* order it was applied in.
THEOREM OrderNeverMatters == Spec => []OrderDoesNotMatter
<1>1. SweepInv /\ OrderInv => OrderDoesNotMatter
  <2> SUFFICES ASSUME SweepInv, OrderInv, ~source.stale,
                      Cardinality(source.local \union source.actor) = 1, NEW k \in Known
               PROVE  /\ Active(k) <=> NewestSeen(k) >= NewestAbsent(k)
                      /\ Active(k) /\ ~source.bounded => listing[k].content = NewestSeen(k)
    BY DEF OrderDoesNotMatter
  <2>1. TypeOK  BY DEF SweepInv
  <2>2. PICK s : source.local \union source.actor = {s}
    <3>1. IsFiniteSet(AllScopes)
      BY CollectionAssumption, FS_AddElement DEF AllScopes
    <3>2. source.local \union source.actor \in SUBSET AllScopes  BY <2>1 DEF TypeOK, Source
    <3>3. IsFiniteSet(source.local \union source.actor)  BY <3>1, <3>2, FS_Subset
    <3> QED  BY <3>3, FS_Singleton
  <2>3. s \in AllScopes  BY <2>1, <2>2 DEF TypeOK, Source
  <2>4. RowsSay(s)  BY <2>2, <2>3 DEF OrderInv, OnlyScope
  <2> DEFINE S == Sightings(k)
             M == Misses(k, s)
             row == listing[k]
  <2>5. row.scope = s /\ RowSays(row, S, M) /\ row \in Listing
    BY <2>1, <2>4 DEF RowsSay, TypeOK, Known
  <2>6. NewestSeen(k) = Max({0} \union S)  BY DEF NewestSeen, Sightings
  <2>7. NewestAbsent(k) = Max({0} \union M)  BY <2>5 DEF NewestAbsent, Misses
  <2>8. S \subseteq Time /\ M \subseteq Time  BY <2>1, EvidenceFacts
  <2>9. row.observed \in Nat /\ (Active(k) <=> row.delisted = 0)
    BY <2>5, TimeFacts DEF Listing, Active
  <2> HIDE DEF S, M, row
  <2>10. /\ NewestSeen(k) \in {0} \union S /\ \A t \in S : t <= NewestSeen(k)
         /\ NewestAbsent(k) \in {0} \union M /\ \A t \in M : t <= NewestAbsent(k)
    BY <2>6, <2>7, <2>8, NewestFacts
  <2>11. S \subseteq Nat /\ M \subseteq Nat /\ NewestSeen(k) \in Nat /\ NewestAbsent(k) \in Nat
    BY <2>8, <2>10, TimeFacts
  <2>12. CASE row.delisted = 0
    <3>1. row.observed \in S /\ \A t \in S \union M : t <= row.observed
      BY <2>5, <2>12 DEF RowSays
    <3>2. NewestSeen(k) = row.observed
      <4>1. row.observed <= NewestSeen(k)  BY <2>10, <3>1
      <4>2. NewestSeen(k) <= row.observed  BY <2>9, <2>10, <3>1
      <4> QED  BY <2>9, <2>11, <4>1, <4>2
    <3>3. NewestAbsent(k) <= row.observed  BY <2>9, <2>10, <3>1
    <3> QED  BY <2>5, <2>9, <2>11, <2>12, <3>2, <3>3 DEF RowSays, row
  <2>13. CASE row.delisted # 0
    <3>1. PICK m \in M : \A t \in S : t < m  BY <2>5, <2>13 DEF RowSays
    <3>2. NewestSeen(k) \in S
      <4>1. row.observed \in S /\ row.observed <= NewestSeen(k)  BY <2>5, <2>10 DEF RowSays
      <4>2. NewestSeen(k) = 0 => row.observed = 0  BY <2>9, <4>1
      <4> QED  BY <2>10, <4>1, <4>2
    <3>3. NewestSeen(k) < m /\ m <= NewestAbsent(k)  BY <2>10, <3>1, <3>2
    <3> QED  BY <2>9, <2>11, <2>13, <3>3
  <2> QED  BY <2>12, <2>13
<1> QED  BY <1>1, InitSweeps, StepSweeps, OrderInit, OrderStep, PTL DEF Spec
-----------------------------------------------------------------------------
(* Stale absence.  A scope's watermark stands for a chain of sweeps no     *)
(* further apart than the tolerance, newer than whatever broke it.         *)

\* How far a run has come tells which of its scopes it has applied.
AppliedInOrder ==
    \A r \in Runs :
        /\ run[r].applied \subseteq Reported(r)
        /\ run[r].pc \in {"idle", "fetched", "failed"} => run[r].applied = {}
        /\ run[r].applied # {} /\ Null \in Reported(r) => Null \in run[r].applied
        /\ run[r].pc \notin {"idle", "failed"} =>
              run[r].at # 0 /\ (run[r].kind # "probe" => Reported(r) # {})
        /\ run[r].pc = "done" => Reported(r) \subseteq run[r].applied

Chained(S, from, to) == \A t \in from..to - 1 : \E p \in S : t < p /\ p <= t + Tolerance

\* The watermark of a scope against its sweeps and breaks.
Continuous(m, sweeps, breaks) ==
    /\ \A p \in sweeps : p <= m.eligible \/ p <= m.broken
    /\ \A x \in breaks : x <= m.broken
    /\ m.since # 0 => /\ m.broken < m.since /\ m.since <= m.eligible
                      /\ m.since \in sweeps /\ Chained(sweeps, m.since, m.eligible)
ContinuityInv == \A s \in AllScopes : Continuous(mark[s], SweptAt(s), BrokenAt(s))

LEMMA MarkNumbers ==
  ASSUME NEW m \in Watermarks
  PROVE  m.since \in Nat /\ m.eligible \in Nat /\ m.broken \in Nat
  BY TimeFacts DEF Watermarks

\* record_continuity: a sweep that is folded in extends the chain or starts one.
LEMMA FoldContinuous ==
  ASSUME NEW m \in Watermarks, NEW sweeps, NEW breaks, Continuous(m, sweeps, breaks),
         sweeps \subseteq Nat, NEW at \in Nat, at # 0, NEW previous \in Nat,
         previous <= m.eligible \/ previous <= m.broken
  PROVE  Continuous(RecordContinuity(m, at, previous), sweeps \union {at}, breaks)
<1> DEFINE n == RecordContinuity(m, at, previous)
           old == (m.broken # 0 /\ at <= m.broken) \/ at < m.eligible
           anew == m.since = 0 \/ previous = 0 \/ at > previous + Tolerance
<1>1. m.since \in Nat /\ m.eligible \in Nat /\ m.broken \in Nat /\ Tolerance \in Nat
  BY MarkNumbers, CollectionAssumption
<1>2. CASE old
  <2>1. n = m  BY <1>2 DEF RecordContinuity
  <2>2. at <= m.eligible \/ at <= m.broken  BY <1>1, <1>2
  <2>3. \A p \in sweeps \union {at} : p <= m.eligible \/ p <= m.broken
    BY <2>2 DEF Continuous
  <2>4. m.since # 0 => Chained(sweeps \union {at}, m.since, m.eligible)
    BY DEF Continuous, Chained
  <2> QED  BY <2>1, <2>3, <2>4 DEF Continuous
<1>3. CASE ~old
  <2>1. n = [m EXCEPT !.eligible = at, !.since = IF anew THEN at ELSE m.since]
    BY <1>3 DEF RecordContinuity
  <2>2. n.eligible = at /\ n.broken = m.broken /\ n.since = IF anew THEN at ELSE m.since
    BY <2>1 DEF Watermarks
  <2>3. m.eligible <= at /\ m.broken < at  BY <1>1, <1>3
  <2> HIDE DEF n
  <2>4. \A p \in sweeps \union {at} : p <= n.eligible \/ p <= n.broken
    BY <1>1, <2>2, <2>3 DEF Continuous
  <2>5. n.broken < n.since /\ n.since <= n.eligible /\ n.since \in sweeps \union {at}
        /\ Chained(sweeps \union {at}, n.since, n.eligible)
    <3>1. CASE anew
      <4>1. at..at - 1 = {}  OBVIOUS
      <4> QED  BY <2>2, <2>3, <3>1, <4>1 DEF Chained
    <3>2. CASE ~anew
      <4>1. /\ m.broken < m.since /\ m.since <= m.eligible /\ m.since \in sweeps
            /\ Chained(sweeps, m.since, m.eligible) /\ n.since = m.since
        BY <2>2, <3>2 DEF Continuous
      <4>2. at <= m.eligible + Tolerance  BY <1>1, <3>2, <4>1
      <4>3. ASSUME NEW t \in m.since..at - 1
            PROVE  \E p \in sweeps \union {at} : t < p /\ p <= t + Tolerance
        <5>1. CASE t < m.eligible
          <6>1. t \in m.since..m.eligible - 1  BY <1>1, <5>1
          <6> QED  BY <4>1, <6>1 DEF Chained
        <5>2. CASE t >= m.eligible
          <6>1. t < at /\ at <= t + Tolerance  BY <1>1, <4>2, <5>2
          <6> QED  BY <6>1
        <5> QED  BY <1>1, <5>1, <5>2
      <4> QED  BY <1>1, <2>2, <2>3, <4>1, <4>3 DEF Chained
    <3> QED  BY <3>1, <3>2
  <2> QED  BY <2>2, <2>4, <2>5 DEF Continuous, n
<1> QED  BY <1>2, <1>3

\* break_continuity, and the newest complete sweep, which continuity ignores.
LEMMA BreakContinuous ==
  ASSUME NEW m \in Watermarks, NEW sweeps, NEW breaks, Continuous(m, sweeps, breaks),
         sweeps \subseteq Nat, breaks \subseteq Nat, NEW at \in Nat
  PROVE  Continuous(BreakContinuity(m, at), sweeps, breaks \union {at})
<1> DEFINE n == BreakContinuity(m, at)
<1>1. m.since \in Nat /\ m.eligible \in Nat /\ m.broken \in Nat  BY MarkNumbers
<1>2. n.since = 0 /\ n.eligible = m.eligible /\ n.broken = Most(m.broken, at)
  BY DEF BreakContinuity, Watermarks
<1>3. m.broken <= n.broken /\ at <= n.broken /\ n.broken \in Nat  BY <1>1, <1>2 DEF Most
<1> HIDE DEF n
<1>4. \A p \in sweeps : p <= n.eligible \/ p <= n.broken  BY <1>1, <1>2, <1>3 DEF Continuous
<1>5. \A x \in breaks \union {at} : x <= n.broken  BY <1>1, <1>3 DEF Continuous
<1> QED  BY <1>2, <1>4, <1>5 DEF Continuous, n

LEMMA RaiseContinuous ==
  ASSUME NEW m \in Watermarks, NEW sweeps, NEW breaks, NEW at, Continuous(m, sweeps, breaks)
  PROVE  Continuous(RaiseCompleteSweep(m, at), sweeps, breaks)
<1> DEFINE n == RaiseCompleteSweep(m, at)
<1>1. n.since = m.since /\ n.eligible = m.eligible /\ n.broken = m.broken
  BY DEF RaiseCompleteSweep, Watermarks
<1> HIDE DEF n
<1> QED  BY <1>1 DEF Continuous, n

\* Fewer breaks break no more.
LEMMA FewerBreaks ==
  ASSUME NEW m, NEW sweeps, NEW breaks, Continuous(m, sweeps, breaks), NEW some, some \subseteq breaks
  PROVE  Continuous(m, sweeps, some)
  BY DEF Continuous

\* What a run's batch says stays; runs that applied nothing are no evidence.
Applies(w, v) ==
    /\ w.at = v.at /\ w.kind = v.kind /\ w.remote = v.remote /\ w.swept = v.swept
    /\ w.empty = v.empty /\ w.complete = v.complete

LEMMA BatchSays ==
  ASSUME NEW r, Applies(run'[r], run[r])
  PROVE  /\ Reported(r)' = Reported(r)
         /\ \A s : CountsTowardContinuity(r, s)' <=> CountsTowardContinuity(r, s)
  BY DEF Applies, Reported, CountsTowardContinuity

LEMMA SameSweeps ==
  ASSUME \A r \in Runs : \/ Applies(run'[r], run[r]) /\ run'[r].applied = run[r].applied
                         \/ run[r].applied = {} /\ run'[r].applied = {},
         NEW s
  PROVE  SweptAt(s)' = SweptAt(s) /\ BrokenAt(s)' = BrokenAt(s)
<1>1. ASSUME NEW r \in Runs
      PROVE  /\ run'[r].applied = run[r].applied
             /\ run[r].applied # {} =>
                   /\ run'[r].at = run[r].at
                   /\ CountsTowardContinuity(r, s)' <=> CountsTowardContinuity(r, s)
  BY BatchSays DEF Applies
<1>2. SweptAt(s)' = SweptAt(s)  BY <1>1 DEF SweptAt
<1>3. BrokenAt(s)' = BrokenAt(s)  BY <1>1 DEF BrokenAt
<1> QED  BY <1>2, <1>3

LEMMA EvidenceTimes ==
  ASSUME TypeOK, NEW s
  PROVE  SweptAt(s) \subseteq Nat /\ BrokenAt(s) \subseteq Nat
<1>1. \A r \in Runs : run[r].at \in Nat  BY TimeFacts DEF TypeOK, Run
<1> QED  BY <1>1 DEF SweptAt, BrokenAt

LEMMA FetchApplied ==
  ASSUME TypeOK, AppliedInOrder, NEW r \in Runs, Fetch(r)
  PROVE  /\ AppliedInOrder'
         /\ run[r].applied = {} /\ run'[r].applied = {}
         /\ \A q \in Runs \ {r} : run'[q] = run[q]
<1>1. PICK kind \in source.kinds, remote \in BOOLEAN :
         /\ SweptBy(kind, remote) # {}
         /\ \E w \in Batches(kind, remote, SweptBy(kind, remote)) : run' = [run EXCEPT ![r] = w]
  BY DEF Fetch
<1> DEFINE swept == SweptBy(kind, remote)
<1>2. PICK w \in Batches(kind, remote, swept) : run' = [run EXCEPT ![r] = w]
  BY <1>1
<1>3. \A v \in Batches(kind, remote, swept) :
         /\ v.kind = kind /\ v.remote = remote /\ v.swept = swept /\ v.at = clock + 1
         /\ v.applied = {} /\ v.pc = "fetched"
         /\ v.empty \subseteq swept /\ (~remote => v.empty # swept)
  BY DEF Batches, Batch
<1>4. /\ w.kind = kind /\ w.remote = remote /\ w.swept = swept /\ w.at = clock + 1
      /\ w.applied = {} /\ w.pc = "fetched"
      /\ w.empty \subseteq swept /\ (~remote => w.empty # swept) /\ swept # {}
  BY <1>1, <1>2, <1>3
<1>5. clock \in Nat /\ run[r].pc = "idle"  BY TimeFacts DEF Fetch, TypeOK
<1>6. run'[r] = w /\ \A q \in Runs \ {r} : run'[q] = run[q]  BY <1>2 DEF TypeOK
<1> HIDE DEF swept
<1>7. w.kind # "probe" => Reported(r)' # {}
  <2>1. ASSUME w.kind # "probe", remote PROVE Reported(r)' = swept
    BY <1>4, <1>6, <2>1 DEF Reported
  <2>2. ASSUME w.kind # "probe", ~remote PROVE \E s \in swept : s \in Reported(r)'
    <3>1. PICK s \in swept : s \notin w.empty  BY <1>4, <2>2
    <3> QED  BY <1>4, <1>6, <2>2, <3>1 DEF Reported
  <2> QED  BY <1>4, <2>1, <2>2
<1>8. \A q \in Runs \ {r} : Reported(q)' = Reported(q)  BY <1>6 DEF Reported
<1>9. AppliedInOrder'
  BY <1>4, <1>5, <1>6, <1>7, <1>8 DEF AppliedInOrder
<1> QED  BY <1>4, <1>5, <1>6, <1>9 DEF AppliedInOrder

LEMMA EndApplied ==
  ASSUME TypeOK, AppliedInOrder, NEW r \in Runs, Persist(r) \/ Succeed(r) \/ Fail(r) \/ Reject(r)
  PROVE  /\ AppliedInOrder'
         /\ \A q \in Runs : \/ Applies(run'[q], run[q]) /\ run'[q].applied = run[q].applied
                            \/ run[q].applied = {} /\ run'[q].applied = {}
<1> DEFINE failed == [IdleRun EXCEPT !.pc = "failed"]
<1>1. \/ run' = [run EXCEPT ![r] = failed] /\ run[r].pc = "fetched"
      \/ \E pc \in {"persisted", "done", "lost"} :
            /\ run' = [run EXCEPT ![r] = [run[r] EXCEPT !.pc = pc]]
            /\ run[r].pc \in {"fetched", "persisted"}
            /\ pc = "done" => Reported(r) \subseteq run[r].applied
  BY DEF Persist, Succeed, Fail, Reject
<1>2. CASE run' = [run EXCEPT ![r] = failed] /\ run[r].pc = "fetched"
  <2>1. \A q \in Runs : run'[q] = IF q = r THEN failed ELSE run[q]  BY <1>2 DEF TypeOK
  <2>2. failed.pc = "failed" /\ failed.applied = {}  BY DEF IdleRun
  <2> HIDE DEF failed
  <2>3. \A q \in Runs \ {r} : Reported(q)' = Reported(q)  BY <2>1 DEF Reported
  <2>4. AppliedInOrder'  BY <2>1, <2>2, <2>3 DEF AppliedInOrder
  <2>5. run[r].applied = {}  BY <1>2 DEF AppliedInOrder
  <2> QED  BY <2>1, <2>2, <2>4, <2>5 DEF Applies
<1>3. ASSUME NEW pc \in {"persisted", "done", "lost"},
             run' = [run EXCEPT ![r] = [run[r] EXCEPT !.pc = pc]],
             run[r].pc \in {"fetched", "persisted"}, pc = "done" => Reported(r) \subseteq run[r].applied
      PROVE  /\ AppliedInOrder'
             /\ \A q \in Runs : Applies(run'[q], run[q]) /\ run'[q].applied = run[q].applied
  <2>1. \A q \in Runs : /\ Applies(run'[q], run[q]) /\ run'[q].applied = run[q].applied
                        /\ run'[q].at = run[q].at /\ run'[q].kind = run[q].kind
                        /\ run'[q].pc = IF q = r THEN pc ELSE run[q].pc
    BY <1>3 DEF TypeOK, Run, Applies
  <2>2. \A q \in Runs : Reported(q)' = Reported(q)  BY <2>1, BatchSays
  <2>3. AppliedInOrder'  BY <1>3, <2>1, <2>2 DEF AppliedInOrder
  <2> QED  BY <2>1, <2>3
<1> QED  BY <1>1, <1>2, <1>3

LEMMA AbsenceApplied ==
  ASSUME TypeOK, AppliedInOrder, NEW r \in Runs, NEW s \in AllScopes, ApplyAbsence(r, s)
  PROVE  /\ AppliedInOrder' /\ run[r].at \in Nat /\ run[r].at # 0
         /\ \A q \in Runs : /\ Applies(run'[q], run[q])
                            /\ run'[q].applied = IF q = r THEN run[q].applied \union {s}
                                                 ELSE run[q].applied
<1>1. \A q \in Runs : /\ Applies(run'[q], run[q])
                      /\ run'[q].at = run[q].at /\ run'[q].kind = run[q].kind
                      /\ run'[q].pc = run[q].pc
                      /\ run'[q].applied = IF q = r THEN run[q].applied \union {s} ELSE run[q].applied
  BY DEF ApplyAbsence, TypeOK, Run, Applies
<1>2. /\ run[r].pc = "persisted" /\ s \in Reported(r)
      /\ s # Null => Null \notin Reported(r) \ run[r].applied
  BY DEF ApplyAbsence
<1>3. \A q \in Runs : Reported(q)' = Reported(q)  BY <1>1, BatchSays
<1>4. AppliedInOrder'
  <2> SUFFICES ASSUME NEW q \in Runs
               PROVE  /\ run'[q].applied \subseteq Reported(q)
                      /\ run'[q].pc \in {"idle", "fetched", "failed"} => run'[q].applied = {}
                      /\ run'[q].applied # {} /\ Null \in Reported(q) => Null \in run'[q].applied
                      /\ run'[q].pc \notin {"idle", "failed"} =>
                            run'[q].at # 0 /\ (run'[q].kind # "probe" => Reported(q) # {})
                      /\ run'[q].pc = "done" => Reported(q) \subseteq run'[q].applied
    BY <1>3 DEF AppliedInOrder
  <2>1. CASE q = r
    <3>1. /\ run'[r].pc = "persisted" /\ run'[r].at = run[r].at /\ run'[r].kind = run[r].kind
          /\ run'[r].applied = run[r].applied \union {s}
      BY <1>1, <1>2
    <3>2. /\ run[r].applied \subseteq Reported(r)
          /\ run[r].at # 0 /\ (run[r].kind # "probe" => Reported(r) # {})
      BY <1>2 DEF AppliedInOrder
    <3>3. Null \in Reported(r) => Null \in run'[r].applied  BY <1>2, <3>1
    <3> QED  BY <1>2, <2>1, <3>1, <3>2, <3>3
  <2>2. CASE q # r  BY <1>1, <2>2 DEF AppliedInOrder
  <2> QED  BY <2>1, <2>2
<1>5. run[r].at \in Nat /\ run[r].at # 0  BY <1>2, TimeFacts DEF AppliedInOrder, TypeOK, Run
<1> QED  BY <1>1, <1>4, <1>5

\* What an applied scope adds to the sweeps and breaks of each.
LEMMA AbsenceSweeps ==
  ASSUME TypeOK, AppliedInOrder, NEW r \in Runs, NEW s \in AllScopes, ApplyAbsence(r, s)
  PROVE  /\ SweptAt(s)' = IF CountsTowardContinuity(r, s) THEN SweptAt(s) \union {run[r].at} ELSE SweptAt(s)
         /\ CountsTowardContinuity(r, s) => BrokenAt(s)' \subseteq BrokenAt(s)
         /\ BrokenAt(s)' \subseteq BrokenAt(s) \union {run[r].at}
         /\ \A q \in AllScopes : q # s => SweptAt(q)' = SweptAt(q)
         /\ \A q \in AllScopes : q # s => BrokenAt(q)' \subseteq BrokenAt(q) \union
                                    (IF q = Null /\ BreaksNull(r, s) THEN {run[r].at} ELSE {})
<1>1. \A q \in Runs : /\ run'[q].at = run[q].at
                      /\ \A t : CountsTowardContinuity(q, t)' <=> CountsTowardContinuity(q, t)
                      /\ run'[q].applied = IF q = r THEN run[q].applied \union {s} ELSE run[q].applied
  BY AbsenceApplied, BatchSays DEF Applies
<1>2. /\ s \in Reported(r) /\ s \notin run[r].applied /\ run[r].applied \subseteq Reported(r)
      /\ s # Null => Null \notin Reported(r) \ run[r].applied
      /\ run[r].applied # {} /\ Null \in Reported(r) => Null \in run[r].applied
  BY DEF ApplyAbsence, AppliedInOrder
<1>3. SweptAt(s)' = IF CountsTowardContinuity(r, s) THEN SweptAt(s) \union {run[r].at} ELSE SweptAt(s)
  <2> DEFINE Old == {x \in Runs : s \in run[x].applied /\ CountsTowardContinuity(x, s)}
             New == {x \in Runs : s \in run'[x].applied /\ CountsTowardContinuity(x, s)'}
  <2>1. /\ SweptAt(s) = {run[x].at : x \in Old} /\ SweptAt(s)' = {run'[x].at : x \in New}
        /\ \A x \in Runs : run'[x].at = run[x].at
    BY <1>1 DEF SweptAt
  <2>2. \A x \in Runs : (s \in run'[x].applied) <=> (s \in run[x].applied \/ x = r)
    BY <1>1
  <2>3. New = IF CountsTowardContinuity(r, s) THEN Old \union {r} ELSE Old
    BY <1>1, <1>2, <2>2
  <2>4. Old \subseteq Runs  OBVIOUS
  <2> HIDE DEF Old, New
  <2>5. CASE CountsTowardContinuity(r, s)  BY <2>1, <2>3, <2>4, <2>5
  <2>6. CASE ~CountsTowardContinuity(r, s)  BY <2>1, <2>3, <2>4, <2>6
  <2> QED  BY <2>5, <2>6
<1>4. \A q \in AllScopes : q # s => SweptAt(q)' = SweptAt(q)  BY <1>1 DEF SweptAt
<1> DEFINE Breaks(w, counts, q) == \/ q \in w.applied /\ ~counts
                                   \/ q = Null /\ Null \notin w.applied /\ w.applied # {}
<1>5. \A q : BrokenAt(q) = {run[x].at : x \in {x \in Runs : Breaks(run[x], CountsTowardContinuity(x, q), q)}}
  BY DEF BrokenAt
<1>6. \A q : BrokenAt(q)' =
                {run'[x].at : x \in {x \in Runs : Breaks(run'[x], CountsTowardContinuity(x, q)', q)}}
  BY DEF BrokenAt
<1>7. \A q : \A x \in Runs : x # r /\ Breaks(run'[x], CountsTowardContinuity(x, q)', q)
                                => Breaks(run[x], CountsTowardContinuity(x, q), q)
  BY <1>1
<1>8. ASSUME Breaks(run'[r], CountsTowardContinuity(r, s)', s)
      PROVE  ~CountsTowardContinuity(r, s)
  BY <1>1, <1>2, <1>8
<1>9. ASSUME NEW q \in AllScopes, q # s, Breaks(run'[r], CountsTowardContinuity(r, q)', q)
      PROVE  Breaks(run[r], CountsTowardContinuity(r, q), q) \/ (q = Null /\ BreaksNull(r, s))
  <2>1. CASE q \in run'[r].applied /\ ~CountsTowardContinuity(r, q)'
    BY <1>1, <1>9, <2>1
  <2>2. CASE q = Null /\ Null \notin run'[r].applied
    <3>1. s # Null /\ Null \notin run[r].applied  BY <1>1, <1>9, <2>2
    <3>2. Null \notin Reported(r)  BY <1>2, <3>1
    <3> QED  BY <2>2, <3>1, <3>2 DEF BreaksNull, NullScopeSwept
  <2> QED  BY <1>9, <2>1, <2>2
<1> HIDE DEF Breaks
<1>10. \A q, x : x \in BrokenAt(q)' =>
          x \in BrokenAt(q) \/ (x = run[r].at /\ Breaks(run'[r], CountsTowardContinuity(r, q)', q))
  BY <1>1, <1>5, <1>6, <1>7
<1>11. run[r].at \in BrokenAt(Null) \/ ~Breaks(run[r], CountsTowardContinuity(r, Null), Null)
  BY <1>5
<1>12. \A q \in AllScopes : Breaks(run[r], CountsTowardContinuity(r, q), q) => run[r].at \in BrokenAt(q)
  BY <1>5
<1> QED  BY <1>3, <1>4, <1>8, <1>9, <1>10, <1>12

\* The newest run that was done is behind the sweeps and breaks of the NULL scope.
LEMMA PreviousBehind ==
  ASSUME TypeOK, AppliedInOrder, ContinuityInv, NEW r \in Runs, NEW s \in AllScopes
  PROVE  /\ Previous(r, s) \in Nat
         /\ Previous(r, s) <= mark[s].eligible \/ Previous(r, s) <= mark[s].broken
<1>1. mark[s].eligible \in Nat /\ mark[s].broken \in Nat  BY MarkNumbers DEF TypeOK
<1>2. CASE s # Null  BY <1>1, <1>2 DEF Previous
<1>3. CASE s = Null
  <2> DEFINE P == {run[q].at : q \in {q \in Runs : run[q].pc = "done" /\ run[q].kind # "probe"}}
  <2>1. Previous(r, s) = Max({0} \union P)  BY <1>3 DEF Previous
  <2>2. P \subseteq Time  BY DEF TypeOK, Run
  <2>3. ASSUME NEW q \in Runs, run[q].pc = "done", run[q].kind # "probe"
        PROVE  run[q].at <= mark[s].eligible \/ run[q].at <= mark[s].broken
    <3>1. Reported(q) # {} /\ Reported(q) = run[q].applied  BY <2>3 DEF AppliedInOrder
    <3>2. run[q].at \in SweptAt(Null) \/ run[q].at \in BrokenAt(Null)
      BY <3>1 DEF SweptAt, BrokenAt
    <3>3. Continuous(mark[s], SweptAt(Null), BrokenAt(Null))  BY <1>3 DEF ContinuityInv
    <3> QED  BY <3>2, <3>3 DEF Continuous
  <2>4. \A p \in P : p <= mark[s].eligible \/ p <= mark[s].broken  BY <2>3
  <2> HIDE DEF P
  <2>5. Max({0} \union P) \in {0} \union P  BY <2>2, NewestFacts
  <2>6. \A p \in {0} \union P : p \in Nat /\ (p <= mark[s].eligible \/ p <= mark[s].broken)
    <3>1. P \subseteq Nat  BY <2>2, TimeFacts
    <3> QED  BY <1>1, <2>4, <3>1
  <2> QED  BY <2>1, <2>5, <2>6
<1> QED  BY <1>2, <1>3

StaleInv == TypeOK /\ AppliedInOrder /\ ContinuityInv

LEMMA AbsenceContinuous ==
  ASSUME StaleInv, NEW r \in Runs, NEW s \in AllScopes, ApplyAbsence(r, s)
  PROVE  ContinuityInv'
<1> DEFINE at == run[r].at
           folded == IF CountsTowardContinuity(r, s)
                     THEN RecordContinuity(mark[s], at, Previous(r, s))
                     ELSE BreakContinuity(mark[s], at)
           swept == IF GateDelistScope(r, s) = "complete" THEN RaiseCompleteSweep(folded, at) ELSE folded
<1>1. /\ TypeOK /\ AppliedInOrder /\ ContinuityInv /\ at \in Nat /\ at # 0 /\ at \in Time
      /\ \A q \in AllScopes : mark[q] \in Watermarks /\ Continuous(mark[q], SweptAt(q), BrokenAt(q))
      /\ \A q \in AllScopes : SweptAt(q) \subseteq Nat /\ BrokenAt(q) \subseteq Nat
  BY AbsenceApplied, EvidenceTimes DEF StaleInv, ContinuityInv, TypeOK, Run
<1>2. /\ SweptAt(s)' = IF CountsTowardContinuity(r, s) THEN SweptAt(s) \union {at} ELSE SweptAt(s)
      /\ CountsTowardContinuity(r, s) => BrokenAt(s)' \subseteq BrokenAt(s)
      /\ BrokenAt(s)' \subseteq BrokenAt(s) \union {at}
      /\ \A q \in AllScopes : q # s => SweptAt(q)' = SweptAt(q)
      /\ \A q \in AllScopes : q # s => BrokenAt(q)' \subseteq BrokenAt(q) \union
                                    (IF q = Null /\ BreaksNull(r, s) THEN {at} ELSE {})
  BY <1>1, AbsenceSweeps
<1>3. mark' = [q \in AllScopes |->
            CASE q = s -> swept
              [] q = Null /\ q # s /\ BreaksNull(r, s) -> BreakContinuity(mark[q], at)
              [] OTHER -> mark[q]]
  BY Zenon DEF ApplyAbsence, WatermarksAfter
<1>4. folded \in Watermarks /\ Continuous(folded, SweptAt(s)', BrokenAt(s)')
  <2>1. CASE CountsTowardContinuity(r, s)
    <3>1. folded = RecordContinuity(mark[s], at, Previous(r, s))  BY <2>1
    <3>2. /\ Previous(r, s) \in Nat
          /\ Previous(r, s) <= mark[s].eligible \/ Previous(r, s) <= mark[s].broken
      BY <1>1, PreviousBehind
    <3>3. Continuous(RecordContinuity(mark[s], at, Previous(r, s)), SweptAt(s) \union {at}, BrokenAt(s))
      BY <1>1, <3>2, FoldContinuous
    <3>4. folded \in Watermarks  BY <1>1, <3>1, WatermarkTypes, Zenon
    <3> QED  BY <1>2, <2>1, <3>1, <3>3, <3>4, FewerBreaks
  <2>2. CASE ~CountsTowardContinuity(r, s)
    <3>1. folded = BreakContinuity(mark[s], at)  BY <2>2
    <3>2. Continuous(BreakContinuity(mark[s], at), SweptAt(s), BrokenAt(s) \union {at})
      BY <1>1, BreakContinuous
    <3>3. folded \in Watermarks  BY <1>1, <3>1, WatermarkTypes, Zenon
    <3> QED  BY <1>2, <2>2, <3>1, <3>2, <3>3, FewerBreaks
  <2> QED  BY <2>1, <2>2
<1> HIDE DEF folded
<1>5. Continuous(swept, SweptAt(s)', BrokenAt(s)')  BY <1>4, RaiseContinuous
<1> HIDE DEF swept
<1> SUFFICES ASSUME NEW q \in AllScopes PROVE Continuous(mark'[q], SweptAt(q)', BrokenAt(q)')
  BY DEF ContinuityInv
<1>6. CASE q = s
  <2>1. mark'[q] = swept  BY <1>3, <1>6
  <2> QED  BY <1>5, <1>6, <2>1
<1>7. CASE q # s /\ q = Null /\ BreaksNull(r, s)
  <2>1. mark'[q] = BreakContinuity(mark[q], at)  BY <1>3, <1>7
  <2>2. Continuous(BreakContinuity(mark[q], at), SweptAt(q), BrokenAt(q) \union {at})
    BY <1>1, BreakContinuous
  <2> QED  BY <1>2, <1>7, <2>1, <2>2, FewerBreaks
<1>8. CASE q # s /\ ~(q = Null /\ BreaksNull(r, s))
  <2>1. mark'[q] = mark[q]  BY <1>3, <1>8
  <2>2. SweptAt(q)' = SweptAt(q) /\ BrokenAt(q)' \subseteq BrokenAt(q)  BY <1>2, <1>8
  <2> QED  BY <1>1, <2>1, <2>2, FewerBreaks
<1> QED  BY <1>6, <1>7, <1>8

LEMMA StaleStep == StaleInv /\ [Next]_vars => StaleInv'
<1> SUFFICES ASSUME StaleInv, [Next]_vars PROVE AppliedInOrder' /\ ContinuityInv'
  BY StepType DEF StaleInv
<1>1. /\ TypeOK /\ AppliedInOrder
      /\ \A s \in AllScopes : Continuous(mark[s], SweptAt(s), BrokenAt(s))
  BY DEF StaleInv, ContinuityInv
<1>2. ASSUME mark' = mark,
             \A r \in Runs : \/ Applies(run'[r], run[r]) /\ run'[r].applied = run[r].applied
                             \/ run[r].applied = {} /\ run'[r].applied = {}
      PROVE  ContinuityInv'
  <2>1. \A s : SweptAt(s)' = SweptAt(s) /\ BrokenAt(s)' = BrokenAt(s)  BY <1>2, SameSweeps
  <2> QED  BY <1>1, <1>2, <2>1 DEF ContinuityInv
<1>3. ASSUME NEW r \in Runs, Fetch(r) PROVE AppliedInOrder' /\ ContinuityInv'
  <2>1. /\ AppliedInOrder' /\ run[r].applied = {} /\ run'[r].applied = {}
        /\ \A q \in Runs \ {r} : run'[q] = run[q]
    BY <1>1, <1>3, FetchApplied
  <2>2. mark' = mark  BY <1>3 DEF Fetch
  <2> QED  BY <1>2, <2>1, <2>2 DEF Applies
<1>4. ASSUME NEW r \in Runs, Persist(r) \/ Succeed(r) \/ Fail(r) PROVE AppliedInOrder' /\ ContinuityInv'
  <2>1. /\ AppliedInOrder'
        /\ \A q \in Runs : \/ Applies(run'[q], run[q]) /\ run'[q].applied = run[q].applied
                           \/ run[q].applied = {} /\ run'[q].applied = {}
    BY <1>1, <1>4, EndApplied
  <2>2. mark' = mark  BY <1>4 DEF Persist, Succeed, Fail
  <2> QED  BY <1>2, <2>1, <2>2
<1>5. ASSUME NEW r \in Runs, Reject(r) PROVE AppliedInOrder' /\ ContinuityInv'
  <2>1. /\ AppliedInOrder'
        /\ \A q \in Runs : \/ Applies(run'[q], run[q]) /\ run'[q].applied = run[q].applied
                           \/ run[q].applied = {} /\ run'[q].applied = {}
    BY <1>1, <1>5, EndApplied
  <2>2. \A s : SweptAt(s)' = SweptAt(s) /\ BrokenAt(s)' = BrokenAt(s)  BY <2>1, SameSweeps
  <2>3. ASSUME NEW s \in AllScopes PROVE Continuous(mark'[s], SweptAt(s), BrokenAt(s))
    <3>1. mark'[s] = mark[s] \/ mark'[s] = BreakContinuity(mark[s], run[r].at)
      BY <1>1, <1>5 DEF Reject, TypeOK
    <3>2. /\ mark[s] \in Watermarks /\ run[r].at \in Nat
          /\ SweptAt(s) \subseteq Nat /\ BrokenAt(s) \subseteq Nat
      BY <1>1, EvidenceTimes, TimeFacts DEF TypeOK, Run
    <3>3. Continuous(BreakContinuity(mark[s], run[r].at), SweptAt(s), BrokenAt(s) \union {run[r].at})
      BY <1>1, <3>2, BreakContinuous
    <3>4. Continuous(BreakContinuity(mark[s], run[r].at), SweptAt(s), BrokenAt(s))
      BY <3>3, FewerBreaks
    <3> QED  BY <1>1, <3>1, <3>4
  <2> QED  BY <2>1, <2>2, <2>3 DEF ContinuityInv
<1>6. ASSUME NEW r \in Runs, NEW s \in AllScopes, ApplyAbsence(r, s)
      PROVE  AppliedInOrder' /\ ContinuityInv'
  BY <1>1, <1>6, AbsenceApplied, AbsenceContinuous
<1>7. CASE Purge \/ Tick \/ UNCHANGED vars
  <2>1. run' = run /\ mark' = mark  BY <1>7 DEF Purge, Tick, vars
  <2>2. \A r : Reported(r)' = Reported(r)  BY <2>1 DEF Reported
  <2>3. AppliedInOrder'  BY <1>1, <2>1, <2>2 DEF AppliedInOrder
  <2> QED  BY <1>2, <2>1, <2>3 DEF Applies
<1> QED  BY <1>3, <1>4, <1>5, <1>6, <1>7 DEF Next

LEMMA StaleStart == Init => StaleInv
<1> SUFFICES ASSUME Init PROVE AppliedInOrder /\ ContinuityInv
  BY InitType DEF StaleInv
<1>1. \A r \in Runs : run[r] = IdleRun  BY DEF Init
<1>2. /\ IdleRun.applied = {} /\ IdleRun.pc = "idle"  BY DEF IdleRun
<1>3. AppliedInOrder  BY <1>1, <1>2 DEF AppliedInOrder
<1>4. \A s : SweptAt(s) = {} /\ BrokenAt(s) = {}  BY <1>1, <1>2 DEF SweptAt, BrokenAt
<1>5. \A s \in AllScopes : mark[s].since = 0  BY DEF Init
<1> QED  BY <1>3, <1>4, <1>5 DEF ContinuityInv, Continuous

\* A delist on stale evidence stands on the chain its own sweep just extended.
LEMMA StaleDelist ==
  ASSUME StaleInv, StaleInv', NEW r \in Runs, NEW s \in AllScopes, ApplyAbsence(r, s),
         NEW k \in Delisted(r, s), GateDelistScope(r, s) # "complete"
  PROVE  SweptThroughout(s, run[r].at - Grace, run[r].at)'
<1> DEFINE at == run[r].at
           m == mark'[s]
           since == IF CountsTowardContinuity(r, s) THEN ContinuousSince(WatermarksAfter(r, s)[s], at) ELSE 0
<1>1. Delisted(r, s) = CASE GateDelistScope(r, s) = "complete" -> Candidates(r, s)
          [] GateDelistScope(r, s) = "stale" /\ since # 0 /\ at >= since + Grace ->
                {x \in Candidates(r, s) : listing[x].seen + Grace < at}
          [] OTHER -> {}
  BY Zenon DEF Delisted
<1>2. since # 0 /\ at >= since + Grace
  <2> HIDE DEF since
  <2> QED  BY <1>1
<1>3. CountsTowardContinuity(r, s) /\ since = ContinuousSince(m, at)
  <2>1. mark' = WatermarksAfter(r, s)  BY DEF ApplyAbsence
  <2> QED  BY <1>2, <2>1
<1>4. /\ ~((m.broken # 0 /\ at <= m.broken) \/ at < m.eligible) /\ since = m.since
  BY <1>2, <1>3 DEF ContinuousSince
<1>5. TypeOK /\ at \in Nat /\ m \in Watermarks /\ mark[s] \in Watermarks /\ run'[r].at = at
  BY AbsenceApplied, Zenon DEF StaleInv, TypeOK, Applies
<1>6. m.eligible = at
  <2> DEFINE old == (mark[s].broken # 0 /\ at <= mark[s].broken) \/ at < mark[s].eligible
  <2>1. m = RecordContinuity(mark[s], at, Previous(r, s))
    <3> DEFINE folded == RecordContinuity(mark[s], at, Previous(r, s))
    <3>1. WatermarksAfter(r, s) = [q \in AllScopes |->
            CASE q = s -> folded
              [] q = Null /\ q # s /\ BreaksNull(r, s) -> BreakContinuity(mark[q], at)
              [] OTHER -> mark[q]]
      BY <1>3, Zenon DEF WatermarksAfter
    <3> HIDE DEF folded
    <3>2. WatermarksAfter(r, s)[s] = folded  BY <3>1
    <3> QED  BY <3>2 DEF ApplyAbsence, folded
  <2>2. CASE old
    <3>1. m = mark[s]  BY <2>1, <2>2 DEF RecordContinuity
    <3> QED  BY <1>4, <2>2, <3>1
  <2>3. CASE ~old  BY <1>5, <2>1, <2>3 DEF RecordContinuity, Watermarks
  <2> QED  BY <2>2, <2>3
<1>7. Continuous(m, SweptAt(s)', BrokenAt(s)')  BY DEF StaleInv, ContinuityInv
<1>8. /\ m.broken < m.since /\ m.since \in SweptAt(s)' /\ Chained(SweptAt(s)', m.since, at)
      /\ \A x \in BrokenAt(s)' : x <= m.broken
  BY <1>2, <1>4, <1>6, <1>7 DEF Continuous
<1>9. m.since \in Nat /\ m.broken \in Nat /\ Grace \in Nat /\ SweptAt(s)' \subseteq Nat
      /\ BrokenAt(s)' \subseteq Nat
  <2>1. TypeOK'  BY DEF StaleInv
  <2>2. SweptAt(s)' \subseteq Nat /\ BrokenAt(s)' \subseteq Nat
    <3>1. \A x \in Runs : run'[x].at \in Nat  BY <2>1, TimeFacts DEF TypeOK, Run
    <3> QED  BY <3>1 DEF SweptAt, BrokenAt
  <2> QED  BY <1>5, <2>2, MarkNumbers, CollectionAssumption
<1>10. m.since <= at - Grace  BY <1>2, <1>4, <1>5, <1>9
<1>11. \A x \in BrokenAt(s)' : x < m.since  BY <1>8, <1>9
<1>12. SweptThroughout(s, at - Grace, at)'
          = \E b \in SweptAt(s)' :
               /\ b <= at - Grace
               /\ \A t \in b..at - 1 : \E p \in SweptAt(s)' : t < p /\ p <= t + Tolerance
               /\ \A x \in BrokenAt(s)' : x < b \/ x > at
  <2>1. (at - Grace)' = at - Grace /\ at' = at  BY <1>5
  <2> QED  BY <2>1 DEF SweptThroughout
<1> HIDE DEF at
<1> QED  BY <1>8, <1>10, <1>11, <1>12 DEF Chained, at

\* record_continuity, break_continuity, apply_delist: absence is concluded from
\* incomplete sweeps only where the scope was swept without a gap beyond the
\* tolerance for the whole grace, whatever runs failed, were rejected or overlapped.
THEOREM StaleAlwaysProven == Spec => StaleAbsenceProven
<1> DEFINE Proven == \A k \in Known :
             (Active(k) /\ ~Active(k)' /\ listing'[k].reason = "absent_stale")
                => SweptThroughout(listing[k].scope, listing[k].delisted - Grace, listing[k].delisted)'
<1>1. StaleInv /\ StaleInv' /\ [Next]_vars => [Proven]_vars
  <2> SUFFICES ASSUME StaleInv, StaleInv', Next, NEW k \in Known, Active(k), ~Active(k)',
                      listing'[k].reason = "absent_stale"
               PROVE  SweptThroughout(listing[k].scope, listing[k].delisted - Grace, listing[k].delisted)'
    OBVIOUS
  <2>1. listing[k] \in Listing /\ listing[k].delisted = 0  BY DEF StaleInv, TypeOK, Known, Active
  <2>2. ASSUME k \in Known', listing'[k].delisted = 0 PROVE FALSE  BY <2>2 DEF Active
  <2>3. ASSUME NEW r \in Runs, Fetch(r) \/ Succeed(r) \/ Fail(r) \/ Reject(r) PROVE FALSE
    <3>1. listing' = listing  BY <2>3 DEF Fetch, Succeed, Fail, Reject
    <3> QED  BY <2>1, <2>2, <3>1 DEF Known
  <2>4. ASSUME NEW r \in Runs, Persist(r) PROVE FALSE
    <3>1. k \in Known' /\ listing'[k] = IF k \in SeenInRun(r) THEN Observed(r, k) ELSE listing[k]
      BY <2>4 DEF Persist, Known
    <3>2. Observed(r, k).delisted = 0
      <4>1. [Fresh(r, k) EXCEPT !.absence = listing[k].absence].delisted = 0  BY DEF Fresh
      <4> QED  BY <2>1, <4>1, ObservedCases
    <3> QED  BY <2>1, <2>2, <3>1, <3>2
  <2>5. ASSUME Purge \/ Tick PROVE FALSE
    <3>1. k \in Known' /\ (listing'[k] = listing[k] \/ listing'[k] = [listing[k] EXCEPT !.content = 0])
      BY <2>5 DEF Purge, Tick, Known
    <3>2. listing'[k].delisted = 0  BY <2>1, <3>1 DEF Listing
    <3> QED  BY <2>2, <3>1, <3>2
  <2>6. ASSUME NEW r \in Runs, NEW s \in AllScopes, ApplyAbsence(r, s)
        PROVE  SweptThroughout(listing[k].scope, listing[k].delisted - Grace, listing[k].delisted)'
    <3>1. k \in Known' /\ listing'[k] = IF k \in Delisted(r, s)
                                        THEN MarkDelisted(listing[k], DelistReasonOf(r, s), run[r].at)
                                        ELSE listing[k]
      BY <2>6 DEF ApplyAbsence, Known
    <3>2. k \in Delisted(r, s)  BY <2>1, <2>2, <3>1
    <3>3. /\ listing'[k].delisted = run[r].at /\ listing'[k].reason = DelistReasonOf(r, s)
          /\ listing'[k].scope = listing[k].scope
      <4>1. listing'[k] = MarkDelisted(listing[k], DelistReasonOf(r, s), run[r].at)  BY <3>1, <3>2
      <4> QED  BY <2>1, <4>1 DEF MarkDelisted, Listing
    <3>4. GateDelistScope(r, s) # "complete"  BY <3>3 DEF DelistReasonOf
    <3>5. listing[k].scope = s  BY <3>2 DEF Delisted, Candidates
    <3>6. SweptThroughout(s, run[r].at - Grace, run[r].at)'  BY <2>6, <3>2, <3>4, StaleDelist
    <3>7. run'[r].at = run[r].at  BY <2>6, AbsenceApplied DEF StaleInv, Applies
    <3> QED  BY <3>3, <3>5, <3>6, <3>7 DEF SweptThroughout
  <2> QED  BY <2>3, <2>4, <2>5, <2>6 DEF Next
<1> QED  BY <1>1, StaleStart, StaleStep, PTL DEF Spec, StaleAbsenceProven
=============================================================================
