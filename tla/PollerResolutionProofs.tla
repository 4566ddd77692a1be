----------------------- MODULE PollerResolutionProofs -----------------------
(***************************************************************************)
(* Theorems about Poller for every profile of a source, every burst and    *)
(* back-off and any interleaving of jobs, restarts and database losses;    *)
(* and about Resolution for every catalog, every text and any history of   *)
(* edits, releases, imports and failures.                                  *)
(***************************************************************************)
EXTENDS Poller, Resolution, FiniteSetTheorems, TLAPS

-----------------------------------------------------------------------------
(* The poller's jobs.                                                      *)

\* The rows a step updates in place are rows.
Shape ==
    /\ config = [enabled |-> config.enabled, state |-> config.state, fails |-> config.fails,
                 rot |-> config.rot]
    /\ job \in [Jobs -> JobRow]
    /\ job["probe"].pc # "fired"

LEMMA JobFacts == /\ "poll" \in Jobs /\ "heartbeat" \in Jobs /\ "probe" \in Jobs
                  /\ IdleJob \in JobRow /\ IdleJob.pc = "idle"
  BY DEF Jobs, IdleJob, JobRow, LifecycleState

\* What an applied outcome does to the row: it moves the state by Transition.
LEMMA HealthFacts ==
  ASSUME NEW c, NEW event
  PROVE  LET h == Health(c, event) IN
         /\ h = [enabled |-> h.enabled, state |-> h.state, fails |-> h.fails,
                 rot |-> h.rot]
         /\ h.state = Transition(c.state, event, c.rot)
  BY DEF Health

LEMMA ShapeStep == Shape /\ config.state \in LifecycleState /\ [Next]_vars
                     => Shape' /\ config'.state \in LifecycleState
<1> SUFFICES ASSUME Shape, config.state \in LifecycleState, [Next]_vars
             PROVE  Shape' /\ config'.state \in LifecycleState
  OBVIOUS
<1>a. \A event : Transition(config.state, event, config.rot) \in LifecycleState
  BY DEF Transition, LifecycleState
<1>1. ASSUME NEW j \in Jobs, Begin(j) \/ Admit(j) \/ Deny(j) \/ JobRaises(j)
      PROVE  Shape' /\ config'.state \in LifecycleState
  <2>1. config' = config  BY <1>1 DEF Begin, Admit, Deny, JobRaises
  <2>2. job' \in [Jobs -> JobRow] /\ job'["probe"].pc # "fired"
    <3>1. CASE Begin(j)  BY <3>1 DEF Begin, Shape, JobRow
    <3>2. CASE Admit(j)  BY <3>2, JobFacts DEF Admit, Shape, JobRow
    <3>3. CASE Deny(j)  BY <3>3, JobFacts DEF Deny, Shape
    <3>4. CASE JobRaises(j)  BY <3>4, JobFacts DEF JobRaises, Shape
    <3> QED  BY <1>1, <3>1, <3>2, <3>3, <3>4
  <2> QED  BY <2>1, <2>2 DEF Shape
<1>2. ASSUME NEW j \in Jobs, NEW event, Finish(j, event)
      PROVE  Shape' /\ config'.state \in LifecycleState
  <2>1. config' = Health(config, event)  BY <1>2 DEF Finish, ApplyRunOutcome
  <2>2. job' \in [Jobs -> JobRow] /\ job'["probe"].pc # "fired"
    BY <1>2, JobFacts DEF Finish, Shape
  <2> QED  BY <1>a, <2>1, <2>2, HealthFacts DEF Shape
<1>3. ASSUME NEW kind, NEW event, ImportDecided(kind, event)
      PROVE  Shape' /\ config'.state \in LifecycleState
  <2>1. config' = Health(config, event) /\ job' = job
    BY <1>3 DEF ImportDecided, ApplyRunOutcome
  <2> QED  BY <1>a, <2>1, HealthFacts DEF Shape
<1>4. CASE DeadmanPush \/ Checkpoint \/ Boot \/ DbLost \/ DbBack \/ UNCHANGED vars
  BY <1>4 DEF DeadmanPush, Checkpoint, Boot, DbLost, DbBack, vars, Shape
<1>5. CASE Lose  BY <1>5, JobFacts DEF Lose, Shape
<1>6. CASE Tick \/ Fire
  <2>1. config' = config  BY <1>6 DEF Tick, Fire
  <2>2. job' \in [Jobs -> JobRow] /\ job'["probe"].pc # "fired"
    BY <1>6, JobFacts DEF Tick, Fire, Shape, JobRow, Jobs
  <2> QED  BY <2>1, <2>2 DEF Shape
<1> QED  BY <1>1, <1>2, <1>3, <1>4, <1>5, <1>6 DEF Next

ShapeInv == Shape /\ config.state \in LifecycleState

LEMMA ShapeAlways == Spec => []ShapeInv
<1>1. Init => ShapeInv
  BY JobFacts DEF Init, ShapeInv, Shape, LifecycleState
<1>2. ShapeInv /\ [Next]_vars => ShapeInv'  BY ShapeStep DEF ShapeInv
<1> QED  BY <1>1, <1>2, PTL DEF Spec

-----------------------------------------------------------------------------
(* A pause holds.                                                          *)

\* From a pause only a recovery probe's success or the owner leads away.
LEMMA PausedTransition ==
  ASSUME NEW event, NEW rot, event \notin {"probe_success", "manual_skip", "manual_reactivate"}
  PROVE  Transition("paused_pending_fix", event, rot) = "paused_pending_fix"
  BY DEF Transition

LEMMA OutcomeKinds ==
  /\ \A j : Outcomes(j) \intersect {"manual_skip", "manual_reactivate"} = {}
  /\ \A j : "probe_success" \in Outcomes(j) => j = "probe"
  BY DEF Outcomes, FailureEvents

\* Only a successful recovery probe ends a pause: an outcome of either lane that was
\* collected before the pause is applied to the row as it is now (apply_run_outcome).
THEOREM PauseAlwaysHolds == Spec => PauseHolds
<1> DEFINE Held == config.state = "paused_pending_fix" /\ config'.state # "paused_pending_fix"
                      => job["probe"].pc = "running" \/ "probe" \in remote
<1>1. ShapeInv /\ [Next]_vars => [Held]_vars
  <2> SUFFICES ASSUME ShapeInv, Next, config.state = "paused_pending_fix",
                      config'.state # "paused_pending_fix"
               PROVE  job["probe"].pc = "running" \/ "probe" \in remote
    OBVIOUS
  <2>1. ASSUME NEW j \in Jobs, Begin(j) \/ Admit(j) \/ Deny(j) \/ JobRaises(j)  PROVE FALSE
    BY <2>1 DEF Begin, Admit, Deny, JobRaises
  <2>2. ASSUME NEW j \in Jobs, NEW event, Finish(j, event)
        PROVE  job["probe"].pc = "running"
    <3>1. config'.state = Transition("paused_pending_fix", event, config.rot)
      BY <2>2, HealthFacts DEF Finish, ApplyRunOutcome
    <3>2. event = "probe_success" /\ event \in Outcomes(j)
      BY <2>2, <3>1, PausedTransition, OutcomeKinds DEF Finish
    <3>3. j = "probe"  BY <3>2, OutcomeKinds
    <3> QED  BY <2>2, <3>3 DEF Finish, ShapeInv, Shape
  <2>3. ASSUME NEW kind \in {"full", "probe"}, NEW event, ImportDecided(kind, event)
        PROVE  "probe" \in remote
    <3>1. config'.state = Transition("paused_pending_fix", event, config.rot)
      BY <2>3, HealthFacts DEF ImportDecided, ApplyRunOutcome
    <3>2. event \in Outcomes(IF kind = "probe" THEN "probe" ELSE "poll")  BY <2>3 DEF ImportDecided
    <3>3. event = "probe_success"  BY <3>1, <3>2, PausedTransition, OutcomeKinds
    <3>4. (IF kind = "probe" THEN "probe" ELSE "poll") = "probe"  BY <3>2, <3>3, OutcomeKinds
    <3> QED  BY <2>3, <3>4 DEF ImportDecided
  <2>4. CASE DeadmanPush \/ Checkpoint \/ Lose \/ Boot \/ DbLost \/ DbBack
    BY <2>4 DEF DeadmanPush, Checkpoint, Lose, Boot, DbLost, DbBack
  <2>5. CASE Tick \/ Fire  BY <2>5 DEF Tick, Fire
  <2> QED  BY <2>1, <2>2, <2>3, <2>4, <2>5 DEF Next
<1> QED  BY <1>1, ShapeAlways, PTL DEF Spec, PauseHolds

-----------------------------------------------------------------------------
(* A blocked source never runs.                                            *)

\* A source the admission matrix blocks is collected by no job, the recovery probe
\* included, which takes its candidates from the database (recovery_probe_job).
THEOREM BlockedAlwaysIdle == Spec => []BlockedNeverRuns
<1>1. Init => BlockedNeverRuns  BY JobFacts DEF Init, BlockedNeverRuns
<1>2. ShapeInv /\ BlockedNeverRuns /\ [Next]_vars => BlockedNeverRuns'
  <2> SUFFICES ASSUME ShapeInv, BlockedNeverRuns, [Next]_vars, SchedulingBlock'
               PROVE  remote' = {} /\ \A j \in Jobs : job'[j].pc = "idle"
    BY DEF BlockedNeverRuns
  <2>1. SchedulingBlock /\ source' = source
    <3>1. source' = source
      BY DEF Next, vars, Begin, Admit, Deny, JobRaises, Finish, ImportDecided, DeadmanPush,
             Checkpoint, Lose, Boot, DbLost, DbBack, Tick, Fire
    <3> QED  BY <3>1 DEF SchedulingBlock, AdmittedCategories, IsAdmitted
  <2>2. remote = {} /\ \A j \in Jobs : job[j].pc = "idle"  BY <2>1 DEF BlockedNeverRuns
  <2>3. ASSUME NEW j \in Jobs, Begin(j) PROVE FALSE
    BY <2>1, <2>3 DEF Begin, HasJob, ProbeCandidate, Jobs
  <2>4. ASSUME NEW j \in Jobs, Admit(j) \/ Deny(j) \/ JobRaises(j) PROVE FALSE
    BY <2>2, <2>4 DEF Admit, Deny, JobRaises
  <2>5. ASSUME NEW j \in Jobs, NEW event, Finish(j, event) PROVE FALSE
    BY <2>2, <2>5 DEF Finish
  <2>6. ASSUME NEW kind, NEW event, ImportDecided(kind, event) PROVE FALSE
    BY <2>2, <2>6 DEF ImportDecided
  <2>7. CASE Lose  BY <2>2, <2>7, JobFacts DEF Lose
  <2>8. CASE Fire  BY <2>2, <2>8, JobFacts DEF Fire
  <2>9. CASE DeadmanPush \/ Checkpoint \/ Boot \/ DbLost \/ DbBack \/ Tick \/ UNCHANGED vars
    BY <2>2, <2>9 DEF DeadmanPush, Checkpoint, Boot, DbLost, DbBack, Tick, vars
  <2> QED  BY <2>3, <2>4, <2>5, <2>6, <2>7, <2>8, <2>9 DEF Next
<1> QED  BY <1>1, <1>2, ShapeAlways, PTL DEF Spec

-----------------------------------------------------------------------------
(* A restart and the domain's bucket.                                      *)

\* What the checkpoint holds is covered by what is left and what was taken since.
Covered ==
    /\ {tokens, saved, unsaved} \subseteq [Buckets -> Nat]
    /\ tokens["domain"] <= DomainBurst /\ saved["domain"] <= DomainBurst
    /\ saved["domain"] <= tokens["domain"] + unsaved["domain"]

LEMMA CoveredStep == Covered /\ [Next]_vars => Covered'
<1> SUFFICES ASSUME Covered, [Next]_vars PROVE Covered'
  OBVIOUS
<1>a. /\ "domain" \in Buckets /\ "source" \in Buckets /\ Burst("domain") = DomainBurst
      /\ \A b \in Buckets : Burst(b) \in Nat
      /\ DomainBurst \in Nat /\ SourceBurst \in Nat
  BY PollerAssumption DEF Buckets, Burst
<1>b. \A m, n \in Nat : Least(m, n) \in Nat  BY DEF Least
<1>1. CASE UNCHANGED <<tokens, saved, unsaved>>
  BY <1>1 DEF Covered
<1>2. ASSUME NEW j \in Jobs, Admit(j) PROVE Covered'
  <2>1. /\ tokens' = [b \in Buckets |-> tokens[b] - 1]
        /\ unsaved' = [b \in Buckets |-> Least(unsaved[b] + 1, Burst(b))]
        /\ saved' = saved /\ \A b \in Buckets : tokens[b] >= 1
    BY <1>2 DEF Admit, TakeTokens, BucketsAdmit
  <2>2. \A b \in Buckets : tokens[b] - 1 \in Nat /\ Least(unsaved[b] + 1, Burst(b)) \in Nat
    <3>1. tokens \in [Buckets -> Nat] /\ unsaved \in [Buckets -> Nat]  BY DEF Covered
    <3>2. \A b \in Buckets : tokens[b] \in Nat /\ unsaved[b] + 1 \in Nat  BY <3>1
    <3>3. \A b \in Buckets : tokens[b] - 1 \in Nat  BY <2>1, <3>2
    <3> QED  BY <3>2, <3>3, <1>a, <1>b
  <2>3. {tokens', saved', unsaved'} \subseteq [Buckets -> Nat]  BY <2>1, <2>2 DEF Covered
  <2>4. /\ tokens'["domain"] = tokens["domain"] - 1
        /\ unsaved'["domain"] = Least(unsaved["domain"] + 1, DomainBurst)
    BY <2>1, <1>a
  <2>5. saved["domain"] <= tokens'["domain"] + unsaved'["domain"]
    BY <2>3, <2>4, <1>a DEF Covered, Least
  <2> QED  BY <2>1, <2>3, <2>4, <2>5, <1>a DEF Covered
<1>3. CASE Checkpoint
  <2>1. saved' = tokens /\ tokens' = tokens /\ unsaved' = [b \in Buckets |-> 0]
    BY <1>3 DEF Checkpoint, NoTokens
  <2>2. unsaved' \in [Buckets -> Nat] /\ unsaved'["domain"] = 0  BY <2>1, <1>a
  <2> QED  BY <2>1, <2>2, <1>a DEF Covered
<1>4. CASE Boot
  <2>1. /\ tokens' = IF SchedulingBlock THEN saved ELSE [saved EXCEPT !["source"] = SourceBurst]
        /\ saved' = saved /\ unsaved' = unsaved
    BY <1>4 DEF Boot, Loaded
  <2>2. tokens' \in [Buckets -> Nat] /\ tokens'["domain"] = saved["domain"]
    BY <2>1, <1>a DEF Covered
  <2> QED  BY <2>1, <2>2, <1>a DEF Covered
<1>5. CASE Tick
  <2>1. /\ tokens' = [b \in Buckets |-> Least(tokens[b] + 1, Burst(b))] \/ tokens' = tokens
        /\ saved' = saved /\ unsaved' = unsaved
    BY <1>5 DEF Tick
  <2>2. CASE tokens' = tokens  BY <2>1, <2>2, <1>1
  <2>3. CASE tokens' = [b \in Buckets |-> Least(tokens[b] + 1, Burst(b))]
    <3>1. tokens' \in [Buckets -> Nat]  BY <2>3, <1>a, <1>b DEF Covered
    <3>2. tokens'["domain"] = Least(tokens["domain"] + 1, DomainBurst)  BY <2>3, <1>a
    <3>3. tokens["domain"] <= tokens'["domain"] /\ tokens'["domain"] <= DomainBurst
      BY <3>2, <1>a DEF Covered, Least
    <3> QED  BY <2>1, <3>1, <3>3, <1>a DEF Covered
  <2> QED  BY <2>1, <2>2, <2>3
<1>6. ASSUME NEW j \in Jobs, Begin(j) \/ Deny(j) \/ JobRaises(j) PROVE Covered'
  BY <1>6, <1>1 DEF Begin, Deny, JobRaises
<1>7. ASSUME NEW j \in Jobs, NEW event, Finish(j, event) PROVE Covered'
  BY <1>7, <1>1 DEF Finish
<1>8. ASSUME NEW kind, NEW event, ImportDecided(kind, event) PROVE Covered'
  BY <1>8, <1>1 DEF ImportDecided
<1>9. CASE Fire \/ DeadmanPush \/ Lose \/ DbLost \/ DbBack \/ UNCHANGED vars
  BY <1>9, <1>1 DEF Fire, DeadmanPush, Lose, DbLost, DbBack, vars
<1> QED  BY <1>2, <1>3, <1>4, <1>5, <1>6, <1>7, <1>8, <1>9 DEF Next

\* A restart hands out no token of the domain twice, and none for the time the
\* process was down, wherever between two checkpoints it was lost (load_buckets).
THEOREM RestartAlwaysKeepsDomain == Spec => RestartKeepsDomain
<1>1. Init => Covered
  <2>1. ASSUME Init PROVE tokens = FullBuckets /\ saved = FullBuckets /\ unsaved = NoTokens
    BY <2>1 DEF Init
  <2>2. /\ FullBuckets \in [Buckets -> Nat] /\ NoTokens \in [Buckets -> Nat]
        /\ FullBuckets["domain"] = DomainBurst /\ NoTokens["domain"] = 0 /\ DomainBurst \in Nat
    BY PollerAssumption DEF FullBuckets, NoTokens, Buckets, Burst
  <2> QED  BY <2>1, <2>2 DEF Covered
<1>2. Covered /\ [Next]_vars
        => [Boot => tokens'["domain"] <= tokens["domain"] + unsaved["domain"]]_vars
  <2> SUFFICES ASSUME Covered, Boot PROVE tokens'["domain"] <= tokens["domain"] + unsaved["domain"]
    OBVIOUS
  <2>1. tokens' = IF SchedulingBlock THEN saved ELSE [saved EXCEPT !["source"] = SourceBurst]
    BY DEF Boot, Loaded
  <2>2. tokens'["domain"] = saved["domain"]  BY <2>1 DEF Covered, Buckets
  <2> QED  BY <2>2 DEF Covered
<1> QED  BY <1>1, <1>2, CoveredStep, PTL DEF Spec, RestartKeepsDomain

-----------------------------------------------------------------------------
(* The catalog.                                                            *)

\* What a resolver may count on: only seeded models are named by an alias.
Catalog == seeded \subseteq Models /\ learned \subseteq Ids \X seeded /\ version \in 1..Versions

\* A target of the catalog: its model is one of its family.
Placed(t) ==
    /\ t \in Target /\ t.family \in Families
    /\ t.model = None => t.cond = None
    /\ t.model # None => t.model \in Models /\ t.family = FamilyOf[t.model]

LEMMA FiniteImage ==
  ASSUME NEW S, IsFiniteSet(S), NEW f
  PROVE  IsFiniteSet({f[x] : x \in S})
<1> DEFINE g == [x \in S |-> f[x]]
           T == {f[x] : x \in S}
<1>1. g \in Surjection(S, T)  BY DEF Surjection
<1> QED  BY <1>1, FS_Surjection

\* A set with one member is that member's.
LEMMA One ==
  ASSUME NEW S, IsFiniteSet(S), Cardinality(S) = 1
  PROVE  \E x : S = {x}
BY FS_Singleton

\* Two members make a finite set larger than one.
LEMMA Two ==
  ASSUME NEW S, IsFiniteSet(S), ~(Cardinality(S) > 1), NEW x \in S, NEW y \in S
  PROVE  x = y
<1>1. Cardinality(S) \in Nat  BY FS_CardinalityType
<1>2. Cardinality({x}) = 1 /\ {x} \in SUBSET S  BY FS_Singleton
<1>3. Cardinality({x}) <= Cardinality(S)  BY <1>2, FS_Subset
<1>4. Cardinality(S) = 1  BY <1>1, <1>2, <1>3
<1> QED  BY <1>4, One

LEMMA HitFacts ==
  ASSUME Catalog, NEW ids \in SUBSET Ids, NEW h \in Hits(ids)
  PROVE  /\ h.id \in ids /\ Placed(h.target)
         /\ h.target.model \in seeded /\ h.target.model # None
         /\ h \in Hits({h.id}) /\ h.target.model \in ModelsOf(h.id)
<1>1. CASE \E a \in Aliases : /\ a.id \in ids /\ a.model \in seeded
                              /\ h = [id |-> a.id, learned |-> FALSE,
                                      target |-> [family |-> FamilyOf[a.model], model |-> a.model,
                                                  cond |-> a.cond]]
  <2>1. PICK a \in Aliases : /\ a.id \in ids /\ a.model \in seeded
                             /\ h = [id |-> a.id, learned |-> FALSE,
                                     target |-> [family |-> FamilyOf[a.model], model |-> a.model,
                                                 cond |-> a.cond]]
    BY <1>1
  <2>2. a.model \in Models /\ a.cond \in Conds \union {None} /\ FamilyOf[a.model] \in Families
        /\ a.model # None
    BY CatalogAssumption
  <2>3. h \in Hits({h.id})  BY <2>1 DEF Hits
  <2> QED  BY <2>1, <2>2, <2>3 DEF Placed, Target, ModelsOf
<1>2. CASE \E a \in learned : /\ a[1] \in ids
                              /\ h = [id |-> a[1], learned |-> TRUE,
                                      target |-> [family |-> FamilyOf[a[2]], model |-> a[2], cond |-> None]]
  <2>1. PICK a \in learned : /\ a[1] \in ids
                             /\ h = [id |-> a[1], learned |-> TRUE,
                                     target |-> [family |-> FamilyOf[a[2]], model |-> a[2], cond |-> None]]
    BY <1>2
  <2>2. a[2] \in seeded /\ a[2] \in Models /\ FamilyOf[a[2]] \in Families /\ a[2] # None
    BY CatalogAssumption DEF Catalog
  <2>3. h \in Hits({h.id})  BY <2>1 DEF Hits
  <2> QED  BY <2>1, <2>2, <2>3 DEF Placed, Target, ModelsOf
<1> QED  BY <1>1, <1>2 DEF Hits

LEMMA HitsFinite ==
  ASSUME Catalog, NEW ids \in SUBSET Ids
  PROVE  IsFiniteSet(Hits(ids))
<1> DEFINE reference == {a \in Aliases : a.id \in ids /\ a.model \in seeded}
           derived == {a \in learned : a[1] \in ids}
           f == [a \in reference |->
                   [id |-> a.id, learned |-> FALSE,
                    target |-> [family |-> FamilyOf[a.model], model |-> a.model, cond |-> a.cond]]]
           g == [a \in derived |->
                   [id |-> a[1], learned |-> TRUE,
                    target |-> [family |-> FamilyOf[a[2]], model |-> a[2], cond |-> None]]]
<1>1. IsFiniteSet(reference)  BY CatalogAssumption, FS_Subset
<1>2. IsFiniteSet(Ids \X Models)  BY CatalogAssumption, FS_Product
<1>3. derived \in SUBSET (Ids \X Models)  BY DEF Catalog
<1>4. IsFiniteSet(derived)  BY <1>2, <1>3, FS_Subset
<1>5. IsFiniteSet({f[a] : a \in reference})
  <2> HIDE DEF f
  <2> QED  BY <1>1, FiniteImage
<1>6. IsFiniteSet({g[a] : a \in derived})
  <2> HIDE DEF g
  <2> QED  BY <1>4, FiniteImage
<1>7. Hits(ids) = {f[a] : a \in reference} \union {g[a] : a \in derived}
  BY DEF Hits
<1> HIDE DEF f, g
<1> QED  BY <1>5, <1>6, <1>7, FS_Union

\* An identifier's hits are among those of a set it belongs to.
LEMMA HitsGrow ==
  ASSUME NEW ids, NEW id \in ids
  PROVE  Hits({id}) \subseteq Hits(ids)
BY DEF Hits

LEMMA NamedSeeded ==
  ASSUME Catalog, NEW id \in Ids
  PROVE  ModelsOf(id) \subseteq seeded
<1> SUFFICES ASSUME NEW h \in Hits({id}) PROVE h.target.model \in seeded
  BY DEF ModelsOf
<1>1. {id} \in SUBSET Ids  OBVIOUS
<1> QED  BY <1>1, HitFacts

\* A family's agreed attribute is that of any of its seeded models, if known.
LEMMA AgreedAttr ==
  ASSUME Catalog, NEW m \in seeded, NEW f, f = FamilyOf[m], NEW a, ~Differ(a, AttrOf[m]),
         NEW t, t.family = f, t.model = None
  PROVE  ~Differ(a, TargetAttr(t))
<1> DEFINE members == {n \in seeded : FamilyOf[n] = t.family}
           known == {AttrOf[n] : n \in members}
<1>1. IsFiniteSet(known)
  <2>1. members \in SUBSET Models  BY DEF Catalog
  <2>2. IsFiniteSet(members)  BY <2>1, CatalogAssumption, FS_Subset
  <2> HIDE DEF members
  <2> QED  BY <2>2, FiniteImage
<1>2. AttrOf[m] \in known  OBVIOUS
<1>3. CASE Cardinality(known) = 1
  <2>1. known = {AttrOf[m]}  BY <1>1, <1>2, <1>3, One
  <2>2. (CHOOSE b \in known : TRUE) = AttrOf[m]  BY <2>1
  <2>3. TargetAttr(t) = AttrOf[m]  BY <1>3, <2>2 DEF TargetAttr
  <2> QED  BY <2>3
<1>4. CASE Cardinality(known) # 1
  <2>1. TargetAttr(t) = None  BY <1>4 DEF TargetAttr
  <2> QED  BY <2>1 DEF Differ
<1> QED  BY <1>3, <1>4

LEMMA ModelAttr ==
  ASSUME NEW t, t.model # None
  PROVE  TargetAttr(t) = AttrOf[t.model]
BY DEF TargetAttr

-----------------------------------------------------------------------------
(* The rungs.                                                              *)

VerdictField == {"outcome", "rung", "method", "target", "source", "reasons", "about", "ids",
                 "category", "again", "error"}
IsVerdict(v) == v = [f \in VerdictField |-> v[f]]

\* A verdict without an accept proposes no product.
Proper(v) ==
    /\ IsVerdict(v) /\ v.error = "" /\ v.outcome \in VerdictOutcomes
    /\ v.outcome # "accept" => v.target = NoTarget

LEMMA StartFacts ==
  ASSUME NEW S
  PROVE  /\ Proper(NoVerdict) /\ NoVerdict.outcome = "none"
         /\ Proper([NoVerdict EXCEPT !.about = S])
         /\ [NoVerdict EXCEPT !.about = S].outcome = "none"
BY DEF Proper, IsVerdict, NoVerdict, VerdictField, VerdictOutcomes

LEMMA ReviewFacts ==
  ASSUME NEW v, IsVerdict(v), v.error = "", NEW S, NEW w, w = Review(v, S)
  PROVE  Proper(w) /\ w.outcome = "review"
BY DEF Proper, IsVerdict, Review, VerdictField, VerdictOutcomes

LEMMA RungSet ==
  ASSUME NEW v, IsVerdict(v), v.error = "", NEW n
  PROVE  IsVerdict([v EXCEPT !.rung = n]) /\ [v EXCEPT !.rung = n].error = ""
BY DEF IsVerdict, VerdictField

\* What an accept of a rung rests on.
ByPrior(w, x, prior) ==
    /\ w.rung = 0 /\ prior # NoTarget /\ w.target = prior /\ ~Differ(x.attr, TargetAttr(prior))
FamilyOnly(f) == [NoTarget EXCEPT !.family = f]
ByAlias(w, x) ==
    /\ w.rung = 1
    /\ \E h \in Hits(x.ids) :
          /\ ~Differ(x.brand, BrandOf[h.target.family]) /\ ~Differ(x.attr, TargetAttr(h.target))
          /\ w.target \in {h.target, FamilyOnly(h.target.family)}
ByDecode(w, x, rules) ==
    /\ w.rung = 2
    /\ \E id \in Decodable(x.ids, rules) :
          /\ ~Differ(x.brand, BrandOf[Decoded[version][id].family])
          /\ ~Differ(x.attr, Decoded[version][id].attr)
          /\ w.target = FamilyOnly(Decoded[version][id].family)

LEMMA InheritFacts ==
  ASSUME NEW v, IsVerdict(v), v.error = "", NEW x, NEW prior, prior # NoTarget,
         NEW w, w = Inherit(v, x, prior)
  PROVE  Proper(w) /\ (w.outcome = "accept" => ByPrior(w, x, prior))
<1> DEFINE u == [v EXCEPT !.rung = 0]
<1>1. IsVerdict(u) /\ u.error = ""  BY RungSet
<1>2. CASE Differ(x.attr, TargetAttr(prior))
  <2>1. w = Review(u, {"veto"})  BY <1>2 DEF Inherit
  <2> HIDE DEF u
  <2>2. Proper(w) /\ w.outcome = "review"  BY <1>1, <2>1, ReviewFacts
  <2> QED  BY <2>2
<1>3. CASE ~Differ(x.attr, TargetAttr(prior))
  <2>1. w = Accept(v, 0, "source_alias", prior, None)  BY <1>3 DEF Inherit
  <2>2. Proper(w) /\ w.rung = 0 /\ w.target = prior  BY <2>1 DEF Accept, Proper, IsVerdict, VerdictField, VerdictOutcomes
  <2>3. ByPrior(w, x, prior)  BY <1>3, <2>2 DEF ByPrior
  <2> QED  BY <2>2, <2>3
<1> QED  BY <1>2, <1>3

LEMMA ExactAliasFacts ==
  ASSUME Catalog, NEW v, IsVerdict(v), v.error = "", NEW x, x.ids \in SUBSET Ids,
         NEW hits, hits \subseteq Hits(x.ids), NEW w, w = ExactAlias(v, x, hits)
  PROVE  Proper(w) /\ (w.outcome = "accept" => ByAlias(w, x))
<1> DEFINE u == [v EXCEPT !.rung = 1]
           viable == {h \in hits : ~Differ(x.brand, BrandOf[h.target.family])}
           clean == {h \in viable : ~Differ(x.attr, TargetAttr(h.target))}
           targets == {h.target : h \in viable}
           only == CHOOSE t \in targets : TRUE
           families == {t.family : t \in targets}
<1>1. IsVerdict(u) /\ u.error = ""  BY RungSet
<1>2. \/ w \in {Review(u, S) : S \in {{"brand_contradicts_exact_alias"}, {"veto"},
                                       {"no_brand_evidence"}, {"conflicting_targets"}}}
      \/ /\ Cardinality(targets) = 1 /\ clean # {}
         /\ w = Accept(u, 1, "exact_alias", only, Source(viable))
      \/ /\ Cardinality(families) = 1 /\ clean # {}
         /\ w = Accept(u, 1, "exact_alias", FamilyOnly(only.family), Source(clean))
  <2> DEFINE unnamed == \A h \in viable : Kind[h.id] # "mpn"
             named == \E h \in viable : Kind[h.id] = "mpn"
             fanned == \A h \in viable : Kind[h.id] = "oem"
  <2>1. w = CASE viable = {} -> Review(u, {"brand_contradicts_exact_alias"})
              [] Cardinality(targets) = 1 /\ clean = {} -> Review(u, {"veto"})
              [] Cardinality(targets) = 1 /\ clean # {} /\ x.brand = None /\ unnamed
                    -> Review(u, {"no_brand_evidence"})
              [] Cardinality(targets) = 1 /\ clean # {} /\ (x.brand # None \/ named)
                    -> Accept(u, 1, "exact_alias", only, Source(viable))
              [] Cardinality(targets) > 1 /\ Cardinality(families) = 1 /\ clean # {} /\ fanned
                    -> Accept(u, 1, "exact_alias", FamilyOnly(only.family), Source(clean))
              [] OTHER -> Review(u, {"conflicting_targets"})
    BY Zenon DEF ExactAlias, FamilyOnly
  <2> HIDE DEF u, viable, clean, targets, only, families, unnamed, named, fanned
  <2> QED  BY <2>1
<1>3. IsFiniteSet(targets) /\ IsFiniteSet(families)
  <2>1. IsFiniteSet(Hits(x.ids))  BY HitsFinite
  <2>2. viable \in SUBSET Hits(x.ids)  OBVIOUS
  <2>3. IsFiniteSet(viable)  BY <2>1, <2>2, FS_Subset
  <2> DEFINE f == [h \in viable |-> h.target]
             g == [t \in targets |-> t.family]
  <2>4. targets = {f[h] : h \in viable}  OBVIOUS
  <2>5. families = {g[t] : t \in targets}  OBVIOUS
  <2>6. IsFiniteSet(targets)
    <3> HIDE DEF f, targets, viable
    <3> QED  BY <2>3, <2>4, FiniteImage
  <2> HIDE DEF g, targets, families
  <2> QED  BY <2>5, <2>6, FiniteImage
<1>4. ASSUME NEW S, w = Review(u, S)
      PROVE  Proper(w) /\ (w.outcome = "accept" => ByAlias(w, x))
  <2> HIDE DEF u
  <2>1. Proper(w) /\ w.outcome = "review"  BY <1>1, <1>4, ReviewFacts
  <2> QED  BY <2>1
<1>5. ASSUME NEW h \in clean
      PROVE  /\ h \in Hits(x.ids) /\ ~Differ(x.brand, BrandOf[h.target.family])
             /\ ~Differ(x.attr, TargetAttr(h.target))
             /\ h.target \in targets /\ h.target.family \in families
             /\ only \in targets /\ only.family \in families
  OBVIOUS
<1>6. CASE Cardinality(targets) = 1 /\ clean # {}
           /\ w = Accept(u, 1, "exact_alias", only, Source(viable))
  <2>1. PICK h \in clean : TRUE  BY <1>6
  <2>2. only = h.target
    <3>1. h.target \in targets /\ only \in targets  BY <1>5, <2>1
    <3> HIDE DEF targets, only, clean
    <3>2. PICK t : targets = {t}  BY <1>3, <1>6, One
    <3> QED  BY <3>1, <3>2
  <2>3. Proper(w) /\ w.outcome = "accept" /\ w.rung = 1 /\ w.target = only
    <3> HIDE DEF u, only, viable, clean, targets
    <3> QED  BY <1>1, <1>6 DEF Accept, Proper, IsVerdict, VerdictField, VerdictOutcomes
  <2> HIDE DEF only, clean, targets, families
  <2>4. ByAlias(w, x)  BY <1>5, <2>1, <2>2, <2>3 DEF ByAlias
  <2> QED  BY <2>3, <2>4
<1>7. CASE Cardinality(families) = 1 /\ clean # {}
           /\ w = Accept(u, 1, "exact_alias", FamilyOnly(only.family), Source(clean))
  <2>1. PICK h \in clean : TRUE  BY <1>7
  <2>2. only.family = h.target.family
    <3>1. h.target.family \in families /\ only.family \in families  BY <1>5, <2>1
    <3> HIDE DEF targets, only, clean, families
    <3>2. PICK f : families = {f}  BY <1>3, <1>7, One
    <3> QED  BY <3>1, <3>2
  <2>3. Proper(w) /\ w.outcome = "accept" /\ w.rung = 1 /\ w.target = FamilyOnly(only.family)
    <3> HIDE DEF u, only, clean, families
    <3> QED  BY <1>1, <1>7 DEF Accept, Proper, IsVerdict, VerdictField, VerdictOutcomes
  <2> HIDE DEF only, clean, targets, families
  <2>4. ByAlias(w, x)  BY <1>5, <2>1, <2>2, <2>3 DEF ByAlias
  <2> QED  BY <2>3, <2>4
<1> QED  BY <1>2, <1>4, <1>6, <1>7

LEMMA GrammarDecodeFacts ==
  ASSUME NEW v, IsVerdict(v), v.error = "", NEW x, NEW rules, Decodable(x.ids, rules) # {},
         NEW w, w = GrammarDecode(v, x, rules)
  PROVE  Proper(w) /\ (w.outcome = "accept" => ByDecode(w, x, rules))
<1> DEFINE u == [v EXCEPT !.rung = 2]
           id == CHOOSE id \in Decodable(x.ids, rules) : TRUE
           d == Decoded[version][id]
<1>1. IsVerdict(u) /\ u.error = ""  BY RungSet
<1>2. id \in Decodable(x.ids, rules) /\ FirstDecode(x.ids, rules) = d  BY DEF FirstDecode
<1>3. \/ \E S : w = Review(u, S)
      \/ /\ ~Differ(x.brand, BrandOf[d.family]) /\ ~Differ(x.attr, d.attr)
         /\ w = Accept(u, 2, "mpn_decode", FamilyOnly(d.family), None)
  <2> HIDE DEF d
  <2> QED  BY <1>2 DEF GrammarDecode, FamilyOnly
<1>4. ASSUME NEW S, w = Review(u, S)
      PROVE  Proper(w) /\ (w.outcome = "accept" => ByDecode(w, x, rules))
  <2> HIDE DEF u
  <2>1. Proper(w) /\ w.outcome = "review"  BY <1>1, <1>4, ReviewFacts
  <2> QED  BY <2>1
<1>5. CASE /\ ~Differ(x.brand, BrandOf[d.family]) /\ ~Differ(x.attr, d.attr)
           /\ w = Accept(u, 2, "mpn_decode", FamilyOnly(d.family), None)
  <2>1. Proper(w) /\ w.outcome = "accept" /\ w.rung = 2 /\ w.target = FamilyOnly(d.family)
    <3> HIDE DEF u, d
    <3> QED  BY <1>1, <1>5 DEF Accept, Proper, IsVerdict, VerdictField, VerdictOutcomes
  <2> HIDE DEF id
  <2>2. ByDecode(w, x, rules)  BY <1>2, <1>5, <2>1 DEF ByDecode
  <2> QED  BY <2>1, <2>2
<1> QED  BY <1>3, <1>4, <1>5

-----------------------------------------------------------------------------
(* The ladder.                                                             *)

LEMMA RungFacts ==
  ASSUME Catalog, NEW v, Proper(v), v.outcome = "none", NEW x, x.ids \in SUBSET Ids, NEW rules,
         NEW prior, NEW w, w = Rung(v, x, rules, prior)
  PROVE  /\ Proper(w)
         /\ w.outcome = "accept" => ByPrior(w, x, prior) \/ ByAlias(w, x) \/ ByDecode(w, x, rules)
<1> DEFINE grounding == {h \in Hits(x.ids) : Kind[h.id] # "retail"}
<1>1. IsVerdict(v) /\ v.error = ""  BY DEF Proper
<1>2. \/ prior # NoTarget /\ w = Inherit(v, x, prior)
      \/ w = ExactAlias(v, x, grounding)
      \/ Decodable(x.ids, rules) # {} /\ w = GrammarDecode(v, x, rules)
      \/ w = v
  <2>1. w = CASE prior # NoTarget -> Inherit(v, x, prior)
              [] prior = NoTarget /\ grounding # {} -> ExactAlias(v, x, grounding)
              [] prior = NoTarget /\ grounding = {} /\ Decodable(x.ids, rules) # {}
                    -> GrammarDecode(v, x, rules)
              [] OTHER -> v
    BY Zenon DEF Rung
  <2> HIDE DEF grounding
  <2> QED  BY <2>1
<1>3. CASE prior # NoTarget /\ w = Inherit(v, x, prior)  BY <1>1, <1>3, InheritFacts
<1>4. CASE w = ExactAlias(v, x, grounding)
  <2>1. grounding \subseteq Hits(x.ids)  OBVIOUS
  <2> HIDE DEF grounding
  <2> QED  BY <1>1, <1>4, <2>1, ExactAliasFacts
<1>5. CASE Decodable(x.ids, rules) # {} /\ w = GrammarDecode(v, x, rules)
  BY <1>1, <1>5, GrammarDecodeFacts
<1>6. CASE w = v  BY <1>6
<1> QED  BY <1>2, <1>3, <1>4, <1>5, <1>6

LEMMA UnambiguousFacts ==
  ASSUME NEW v, Proper(v), NEW x, NEW rules, NEW w, w = Unambiguous(v, x, rules)
  PROVE  Proper(w) /\ (w.outcome = "accept" => w = v /\ ~x.lot /\ ~ConflictingAliasModels(x.ids))
<1> DEFINE holds(reason) ==
             CASE reason = "conflicting_alias_models" -> ConflictingAliasModels(x.ids)
               [] reason = "prior_model_not_named" -> v.rung = 0 /\ PriorModelNotNamed(x.ids, v.target)
               [] reason = "review_only_alias_conflict" -> ReviewOnlyConflict(v, x, rules)
               [] reason = "lot" -> x.lot
               [] reason = "multiple_mpns" -> rules.mpnGuard /\ DistinctMpns(x.ids)
           ambiguity == {reason \in {"conflicting_alias_models", "prior_model_not_named",
                                     "review_only_alias_conflict", "lot", "multiple_mpns"} : holds(reason)}
<1>1. w = IF v.outcome = "accept" /\ ambiguity # {} THEN Review(v, ambiguity) ELSE v
  BY Zenon DEF Unambiguous
<1>2. (x.lot => "lot" \in ambiguity)
      /\ (ConflictingAliasModels(x.ids) => "conflicting_alias_models" \in ambiguity)
  <2>1. (holds("lot") <=> x.lot)
        /\ (holds("conflicting_alias_models") <=> ConflictingAliasModels(x.ids))
    OBVIOUS
  <2> HIDE DEF holds
  <2> QED  BY <2>1
<1> HIDE DEF ambiguity
<1>3. CASE v.outcome = "accept" /\ ambiguity # {}
  <2>1. w = Review(v, ambiguity)  BY <1>1, <1>3
  <2>2. Proper(w) /\ w.outcome = "review"  BY <2>1, ReviewFacts DEF Proper
  <2> QED  BY <2>2
<1>4. CASE ~(v.outcome = "accept" /\ ambiguity # {})
  BY <1>1, <1>2, <1>4
<1> QED  BY <1>3, <1>4

LEMMA OfferFacts ==
  ASSUME NEW v, Proper(v), NEW x, NEW w, w = OfferContradictionReview(v, x)
  PROVE  /\ Proper(w)
         /\ w.outcome = "accept"
              => w = v /\ ~x.conflict /\ (v.rung = 0 \/ ~VariantContradicted(x, v.target))
<1>1. \/ \E S : w = Review(v, S)
      \/ w = v /\ (w.outcome = "accept" => ~x.conflict /\ (v.rung = 0 \/ ~VariantContradicted(x, v.target)))
  BY DEF OfferContradictionReview
<1>2. ASSUME NEW S, w = Review(v, S)  PROVE Proper(w) /\ w.outcome = "review"
  BY <1>2, ReviewFacts DEF Proper
<1> QED  BY <1>1, <1>2

LEMMA GatesFacts ==
  ASSUME NEW v, Proper(v), NEW category, NEW rules, NEW w, w = CategoryGates(v, category, rules)
  PROVE  /\ Proper(w)
         /\ w.outcome = "accept" => /\ v.outcome = "accept" /\ w.target = v.target /\ w.rung = v.rung
                                    /\ w.ids = v.ids
                                    /\ v.rung = 2 \/ CategoryOf[v.target.family] = category
<1> DEFINE t == v.target
           foreign == v.rung # 2 /\ CategoryOf[t.family] # category
           trusted == IF v.rung = 0 THEN basis # None /\ Authoritative(basis.method, basis.source, t)
                      ELSE v.rung = 1 /\ Authoritative(v.method, v.source, t)
<1>1. \/ w \in {Review(v, S) : S \in {{"cross_category"}, {"acceptance_policy"},
                                       {"auto_accept_disabled"}, {"family_not_ratified"}}}
      \/ w = v /\ v.outcome # "accept"
      \/ v.outcome = "accept" /\ ~foreign /\ w \in {[v EXCEPT !.source = None], [v EXCEPT !.source = "catalog"]}
  <2>1. w = CASE v.outcome # "accept" -> v
              [] v.outcome = "accept" /\ foreign -> Review(v, {"cross_category"})
              [] v.outcome = "accept" /\ ~foreign /\ ~rules.policy -> [v EXCEPT !.source = None]
              [] v.outcome = "accept" /\ ~foreign /\ rules.policy /\ ~trusted
                    -> Review(v, {"acceptance_policy"})
              [] v.outcome = "accept" /\ ~foreign /\ rules.policy /\ trusted /\ v.rung # 0 /\ ~rules.auto
                    -> Review(v, {"auto_accept_disabled"})
              [] v.outcome = "accept" /\ ~foreign /\ rules.policy /\ trusted /\ (v.rung = 0 \/ rules.auto)
                    /\ t.family \notin rules.ratified
                    -> Review(v, {"family_not_ratified"})
              [] OTHER -> [v EXCEPT !.source = "catalog"]
    BY Zenon DEF CategoryGates
  <2> DEFINE a == [v EXCEPT !.source = None]
             b == [v EXCEPT !.source = "catalog"]
             ratified == t.family \in rules.ratified
  <2> HIDE DEF foreign, trusted, a, b, ratified
  <2> QED  BY <2>1 DEF a, b, ratified
<1>2. ASSUME NEW S, w = Review(v, S)  PROVE Proper(w) /\ w.outcome = "review"
  BY <1>2, ReviewFacts DEF Proper
<1>3. ASSUME NEW s, w = [v EXCEPT !.source = s], v.outcome = "accept", ~foreign
      PROVE  Proper(w) /\ w.target = v.target /\ w.rung = v.rung /\ w.ids = v.ids
             /\ (v.rung = 2 \/ CategoryOf[v.target.family] = category)
  BY <1>3 DEF Proper, IsVerdict, VerdictField
<1> HIDE DEF foreign
<1> QED  BY <1>1, <1>2, <1>3

LEMMA IdsStamped ==
  ASSUME NEW v, Proper(v), NEW S, NEW w, w = [v EXCEPT !.ids = S]
  PROVE  Proper(w) /\ w.outcome = v.outcome /\ w.target = v.target /\ w.rung = v.rung /\ w.ids = S
BY DEF Proper, IsVerdict, VerdictField

\* What an accept of the whole ladder rests on.
LEMMA LadderFacts ==
  ASSUME Catalog, NEW x \in Texts, NEW denorm, NEW reconsider,
         NEW v, v = RunLadder(x, x.category, denorm, reconsider)
  PROVE  /\ Proper(v)
         /\ v.outcome = "accept" =>
               /\ x.category \in DOMAIN Rules /\ v.category = x.category
               /\ v.ids = Identifiers(x.ids, Rules[x.category])
               /\ ~x.lot /\ ~x.conflict /\ ~ConflictingAliasModels(x.ids)
               /\ \/ ByPrior(v, x, denorm) /\ ~Reconsidered(x, Rules[x.category], denorm)
                  \/ ByAlias(v, x) \/ ByDecode(v, x, Rules[x.category])
               /\ v.rung = 0 \/ ~VariantContradicted(x, v.target)
               /\ v.rung = 2 \/ CategoryOf[v.target.family] = x.category
<1> DEFINE rules == Rules[x.category]
           first == IF reconsider THEN NoTarget ELSE denorm
           again == Reconsidered(x, rules, first)
           prior == IF again THEN NoTarget ELSE first
           start == [NoVerdict EXCEPT !.about = About(x.ids)]
           ran == Rung(start, x, rules, prior)
           clear == Unambiguous(ran, x, rules)
           offered == OfferContradictionReview(clear, x)
           listed == [offered EXCEPT !.ids = Identifiers(x.ids, rules)]
           gated == CategoryGates(listed, x.category, rules)
<1>a. x.ids \in SUBSET Ids  BY ResolutionAssumption DEF Text, Candidates
<1>1. CASE x.category \notin DOMAIN Rules
  <2>1. v = [NoVerdict EXCEPT !.category = x.category, !.reasons = {"unsupported_category"}]
    BY <1>1 DEF RunLadder
  <2>2. Proper(v) /\ v.outcome = "none"
    BY <2>1 DEF Proper, IsVerdict, NoVerdict, VerdictField, VerdictOutcomes
  <2> QED  BY <2>2
<1>2. CASE x.category \in DOMAIN Rules
  <2>1. v = [gated EXCEPT !.category = x.category, !.again = again]
    BY <1>2 DEF RunLadder, Decide, Then
  <2>2. Proper(start) /\ start.outcome = "none"  BY StartFacts
  <2> HIDE DEF start
  <2>3. Proper(ran) /\ (ran.outcome = "accept" => ByPrior(ran, x, prior) \/ ByAlias(ran, x) \/ ByDecode(ran, x, rules))
    <3> HIDE DEF prior, rules
    <3> QED  BY <1>a, <2>2, RungFacts
  <2> HIDE DEF ran
  <2>4. Proper(clear) /\ (clear.outcome = "accept" => clear = ran /\ ~x.lot /\ ~ConflictingAliasModels(x.ids))
    <3> HIDE DEF rules
    <3> QED  BY <2>3, UnambiguousFacts
  <2> HIDE DEF clear
  <2>5. Proper(offered) /\ (offered.outcome = "accept"
                        => offered = clear /\ ~x.conflict /\ (clear.rung = 0 \/ ~VariantContradicted(x, clear.target)))
    BY <2>4, OfferFacts
  <2> HIDE DEF offered
  <2>6. /\ Proper(listed) /\ listed.outcome = offered.outcome /\ listed.target = offered.target
        /\ listed.rung = offered.rung /\ listed.ids = Identifiers(x.ids, rules)
    <3> DEFINE S == Identifiers(x.ids, rules)
    <3>1. listed = [offered EXCEPT !.ids = S]  OBVIOUS
    <3> HIDE DEF S, listed
    <3> QED  BY <2>5, <3>1, IdsStamped DEF S
  <2> HIDE DEF listed
  <2>7. /\ Proper(gated)
        /\ gated.outcome = "accept" =>
              /\ listed.outcome = "accept" /\ gated.target = listed.target /\ gated.rung = listed.rung
              /\ gated.ids = listed.ids
              /\ listed.rung = 2 \/ CategoryOf[listed.target.family] = x.category
    <3> HIDE DEF rules
    <3> QED  BY <2>6, GatesFacts
  <2> HIDE DEF gated
  <2>8. /\ Proper(v) /\ v.outcome = gated.outcome /\ v.target = gated.target /\ v.rung = gated.rung
        /\ v.ids = gated.ids /\ v.category = x.category
    <3> DEFINE c == x.category
    <3>1. PICK b : v = [gated EXCEPT !.category = c, !.again = b]  BY <2>1
    <3> HIDE DEF c
    <3>2. /\ Proper(v) /\ v.outcome = gated.outcome /\ v.target = gated.target /\ v.rung = gated.rung
          /\ v.ids = gated.ids /\ v.category = c
      <4>1. PICK u : u = gated  OBVIOUS
      <4>2. Proper(u) /\ v = [u EXCEPT !.category = c, !.again = b]  BY <2>7, <3>1, <4>1
      <4>3. Proper(v) /\ v.outcome = u.outcome /\ v.target = u.target /\ v.rung = u.rung
            /\ v.ids = u.ids /\ v.category = c
        BY <4>2 DEF Proper, IsVerdict, VerdictField
      <4> QED  BY <4>1, <4>3
    <3> QED  BY <3>2 DEF c
  <2>9. ASSUME v.outcome = "accept"
        PROVE  /\ v.rung = ran.rung /\ v.target = ran.target /\ ran.outcome = "accept"
               /\ v.ids = Identifiers(x.ids, rules)
               /\ ~x.lot /\ ~x.conflict /\ ~ConflictingAliasModels(x.ids)
               /\ v.rung = 0 \/ ~VariantContradicted(x, v.target)
               /\ v.rung = 2 \/ CategoryOf[v.target.family] = x.category
    <3> DEFINE S == Identifiers(x.ids, rules)
    <3> HIDE DEF rules, S
    <3>1. gated.outcome = "accept" /\ listed.outcome = "accept"  BY <2>7, <2>8, <2>9
    <3>2. offered.outcome = "accept" /\ offered = clear  BY <2>5, <2>6, <3>1
    <3>3. clear.outcome = "accept" /\ clear = ran  BY <2>4, <3>2
    <3>4. v.rung = ran.rung /\ v.target = ran.target /\ ran.outcome = "accept" /\ v.ids = S
      BY <2>6, <2>7, <2>8, <3>1, <3>2, <3>3 DEF S
    <3>5. ~x.lot /\ ~x.conflict /\ ~ConflictingAliasModels(x.ids)
      BY <2>4, <2>5, <3>2, <3>3
    <3>6. v.rung = 0 \/ ~VariantContradicted(x, v.target)
      BY <2>5, <3>2, <3>3, <3>4
    <3>7. v.rung = 2 \/ CategoryOf[v.target.family] = x.category
      <4>1. listed.rung = 2 \/ CategoryOf[listed.target.family] = x.category  BY <2>7, <3>1
      <4>2. v.rung = listed.rung /\ v.target = listed.target  BY <2>7, <2>8, <3>1
      <4> QED  BY <4>1, <4>2
    <3> QED  BY <3>4, <3>5, <3>6, <3>7 DEF S
  <2>10. ASSUME v.outcome = "accept"
         PROVE  \/ ByPrior(v, x, denorm) /\ ~Reconsidered(x, rules, denorm)
                \/ ByAlias(v, x) \/ ByDecode(v, x, rules)
    <3>1. CASE ByPrior(ran, x, prior)
      <4>1. prior = denorm /\ ~Reconsidered(x, rules, denorm)  BY <3>1 DEF ByPrior
      <4> HIDE DEF prior
      <4>2. ByPrior(v, x, denorm)  BY <2>9, <2>10, <3>1, <4>1 DEF ByPrior
      <4> QED  BY <4>1, <4>2
    <3>2. CASE ByAlias(ran, x)  BY <2>9, <2>10, <3>2 DEF ByAlias
    <3>3. CASE ByDecode(ran, x, rules)
      <4> HIDE DEF rules
      <4> QED  BY <2>9, <2>10, <3>3 DEF ByDecode
    <3> QED  BY <2>3, <2>9, <2>10, <3>1, <3>2, <3>3
  <2> QED  BY <1>2, <2>8, <2>9, <2>10
<1> QED  BY <1>1, <1>2

-----------------------------------------------------------------------------
(* An accept fits the listing.                                             *)

\* Some model is named by all the identifiers that name any.
LEMMA CommonModel ==
  ASSUME Catalog, NEW ids \in SUBSET Ids, ~ConflictingAliasModels(ids),
         NEW id \in ids, NEW m \in ModelsOf(id)
  PROVE  \E n \in Models : \A i \in ids : ModelsOf(i) = {} \/ n \in ModelsOf(i)
<1> DEFINE naming == {i \in ids : ModelsOf(i) # {}}
<1>1. CASE Cardinality(naming) > 1
  <2>1. PICK n \in Models : \A i \in naming : n \in ModelsOf(i)
    BY <1>1 DEF ConflictingAliasModels
  <2> QED  BY <2>1
<1>2. CASE ~(Cardinality(naming) > 1)
  <2>1. IsFiniteSet(naming)
    <3>1. naming \in SUBSET Ids  OBVIOUS
    <3> HIDE DEF naming
    <3> QED  BY <3>1, CatalogAssumption, FS_Subset
  <2>2. id \in naming  OBVIOUS
  <2>3. ASSUME NEW i \in naming  PROVE i = id
    <3> HIDE DEF naming
    <3> QED  BY <1>2, <2>1, <2>2, Two
  <2>4. m \in Models  BY NamedSeeded DEF Catalog
  <2>5. ASSUME NEW i \in ids, ModelsOf(i) # {}  PROVE m \in ModelsOf(i)
    <3>1. i \in naming  BY <2>5
    <3>2. i = id  BY <2>3, <3>1
    <3> QED  BY <3>2
  <2> QED  BY <2>4, <2>5
<1> QED  BY <1>1, <1>2

LEMMA PlacedGrain ==
  ASSUME NEW t, Placed(t)
  PROVE  /\ t.family # None /\ t # NoTarget
         /\ Grain(t) = "variant" <=> t.cond # None
         /\ Grain(t) = "model" <=> t.cond = None /\ t.model # None
         /\ Grain(t) = "family" <=> t.model = None
         /\ Grain(t) # "none"
<1>1. t.family # None  BY CatalogAssumption DEF Placed
<1>2. t.model = None => t.cond = None  BY DEF Placed
<1> QED  BY <1>1, <1>2 DEF Grain, NoTarget

LEMMA FamilyPlaced ==
  ASSUME NEW f \in Families
  PROVE  Placed(FamilyOnly(f)) /\ FamilyOnly(f).family = f /\ FamilyOnly(f).model = None
BY DEF Placed, FamilyOnly, NoTarget, Target

\* What _materialize leaves of a proposed product.
LEMMA MaterializedFacts ==
  ASSUME NEW v, Placed(v.target), NEW x, x.cond \in Conds \union {None}, NEW t, t = Materialize(v, x)
  PROVE  /\ Placed(t) /\ t.family = v.target.family /\ t.model = v.target.model
         /\ t = v.target \/ (t.cond = x.cond /\ t.model # None)
         /\ v.outcome = "accept" /\ Grain(t) = "model" /\ Rules[v.category].onDemand => x.cond = None
         /\ x.cond = None => t = v.target
<1> DEFINE u == v.target
<1>1. u = [family |-> u.family, model |-> u.model, cond |-> u.cond]  BY DEF Placed, Target
<1>2. CASE v.outcome = "accept" /\ Grain(u) = "model" /\ Rules[v.category].onDemand
  <2>1. t = [family |-> u.family, model |-> u.model, cond |-> x.cond]
    BY <1>1, <1>2 DEF Materialize
  <2>2. u.cond = None /\ u.model # None  BY <1>2, PlacedGrain
  <2>3. Placed(t)  BY <2>1, <2>2 DEF Placed, Target
  <2>4. Grain(t) = "model" => x.cond = None  BY <2>1, <2>3, PlacedGrain
  <2> QED  BY <1>1, <2>1, <2>2, <2>3, <2>4
<1>3. CASE ~(v.outcome = "accept" /\ Grain(u) = "model" /\ Rules[v.category].onDemand)
  <2>1. t = u  BY <1>3 DEF Materialize
  <2> QED  BY <1>3, <2>1
<1> QED  BY <1>2, <1>3

\* The checks of the ladder that do not depend on the rung.
Passed(v, x) ==
    /\ v.outcome = "accept" /\ x.category \in DOMAIN Rules /\ v.category = x.category
    /\ v.ids = Identifiers(x.ids, Rules[x.category])
    /\ ~x.lot /\ ~x.conflict /\ ~ConflictingAliasModels(x.ids)
    /\ CategoryOf[v.target.family] = x.category
Inherited(v, x, t) == ByPrior(v, x, t) /\ ~Reconsidered(x, Rules[x.category], t)
Afresh(v, x) ==
    /\ ByAlias(v, x) \/ ByDecode(v, x, Rules[x.category])
    /\ ~VariantContradicted(x, v.target)

LEMMA DecodedPlace ==
  ASSUME Catalog, NEW x, x.ids \in SUBSET Ids, x.category \in DOMAIN Rules,
         NEW id \in Decodable(x.ids, Rules[x.category])
  PROVE  /\ id \in x.ids /\ id \in Ids /\ Kind[id] # "oem" /\ Rules[x.category].decodes
         /\ Decoded[version][id].family \in Families
         /\ CategoryOf[Decoded[version][id].family] = x.category
<1>1. /\ id \in x.ids /\ id \in Ids /\ Kind[id] # "oem" /\ Rules[x.category].decodes
      /\ Decoded[version][id].family # None
  BY DEF Decodable
<1>2. version \in 1..Versions /\ Decoded[version][id] \in Decode  BY <1>1, CatalogAssumption DEF Catalog
<1>3. Decoded[version][id].family \in Families  BY <1>1, <1>2 DEF Decode
<1>4. CategoryOf[Decoded[version][id].family] = x.category  BY <1>1, <1>2, CatalogAssumption
<1> QED  BY <1>1, <1>3, <1>4

\* What a verdict of this moment may be, of the text x with the product p accepted.
Sound(v, x, p) ==
    IF v.error # "" THEN v.outcome = "none"
    ELSE Proper(v) /\ (v.outcome = "accept" => Passed(v, x) /\ (Inherited(v, x, p) \/ Afresh(v, x)))

LEMMA LadderPasses ==
  ASSUME Catalog, NEW x \in Texts, NEW p, NEW b,
         NEW v, v = RunLadder(x, x.category, p, b)
  PROVE  Sound(v, x, p)
<1>1. /\ Proper(v)
      /\ v.outcome = "accept" =>
            /\ x.category \in DOMAIN Rules /\ v.category = x.category
            /\ v.ids = Identifiers(x.ids, Rules[x.category])
            /\ ~x.lot /\ ~x.conflict /\ ~ConflictingAliasModels(x.ids)
            /\ \/ ByPrior(v, x, p) /\ ~Reconsidered(x, Rules[x.category], p)
               \/ ByAlias(v, x) \/ ByDecode(v, x, Rules[x.category])
            /\ v.rung = 0 \/ ~VariantContradicted(x, v.target)
            /\ v.rung = 2 \/ CategoryOf[v.target.family] = x.category
  BY LadderFacts
<1> SUFFICES ASSUME v.outcome = "accept"
             PROVE  Passed(v, x) /\ (Inherited(v, x, p) \/ Afresh(v, x))
  BY <1>1 DEF Sound, Proper
<1>2. CategoryOf[v.target.family] = x.category
  <2>1. CASE ByDecode(v, x, Rules[x.category])
    <3>1. PICK id \in Decodable(x.ids, Rules[x.category]) :
                 v.target = FamilyOnly(Decoded[version][id].family)
      BY <2>1 DEF ByDecode
    <3>2. x.ids \in SUBSET Ids  BY ResolutionAssumption DEF Text, Candidates
    <3>3. /\ Decoded[version][id].family \in Families
          /\ CategoryOf[Decoded[version][id].family] = x.category
      BY <1>1, <3>2, DecodedPlace
    <3>4. v.target.family = Decoded[version][id].family  BY <3>1, <3>3, FamilyPlaced
    <3> QED  BY <3>3, <3>4
  <2>2. CASE ByAlias(v, x)  BY <1>1, <2>2 DEF ByAlias
  <2>3. CASE ByPrior(v, x, p)  BY <1>1, <2>3 DEF ByPrior
  <2> QED  BY <1>1, <2>1, <2>2, <2>3
<1>3. Passed(v, x)  BY <1>1, <1>2 DEF Passed
<1>4. v.rung # 0 => ~VariantContradicted(x, v.target)  BY <1>1
<1>5. CASE ByPrior(v, x, p) /\ ~Reconsidered(x, Rules[x.category], p)
  BY <1>3, <1>5 DEF Inherited
<1>6. CASE ByAlias(v, x)
  <2>1. v.rung # 0  BY <1>6 DEF ByAlias
  <2> QED  BY <1>3, <1>4, <1>6, <2>1 DEF Afresh
<1>7. CASE ByDecode(v, x, Rules[x.category])
  <2>1. v.rung # 0  BY <1>7 DEF ByDecode
  <2> QED  BY <1>3, <1>4, <1>7, <2>1 DEF Afresh
<1> QED  BY <1>1, <1>5, <1>6, <1>7

\* A decision that an origin may stand for.
Supported(o) ==
    /\ Placed(o.target)
    /\ IF o.target.model # None
       THEN \E id \in o.ids : o.target.model \in ModelsOf(id)
       ELSE \/ \E id \in o.ids : \E m \in ModelsOf(id) : FamilyOf[m] = o.target.family
            \/ \E id \in o.ids : /\ Kind[id] # "oem" /\ Decoded[o.version][id].family = o.target.family
                                 /\ Rules[CategoryOf[o.target.family]].decodes
    /\ Grain(o.target) = "model" /\ Rules[CategoryOf[o.target.family]].onDemand => o.asserted = {}

LEMMA HitNames ==
  ASSUME NEW x, NEW rules, NEW id \in x.ids, ModelsOf(id) # {}
  PROVE  id \in Identifiers(x.ids, rules)
BY DEF ModelsOf, Identifiers

\* Which identifiers speak for the product of a fresh decision.
LEMMA AfreshNamed ==
  ASSUME Catalog, NEW x \in Texts, NEW v, Passed(v, x), Afresh(v, x)
  PROVE  /\ Placed(v.target)
         /\ ~Differ(x.brand, BrandOf[v.target.family])
         /\ \/ ~Differ(x.attr, TargetAttr(v.target))
            \/ v.target.model = None
               /\ \E id \in Decodes(x, v.target.family) : ~Differ(x.attr, Decoded[version][id].attr)
         /\ IF v.target.model # None
            THEN \E id \in x.ids : v.target.model \in ModelsOf(id)
            ELSE \/ \E id \in x.ids : \E m \in ModelsOf(id) : FamilyOf[m] = v.target.family
                 \/ Decodes(x, v.target.family) # {}
<1> DEFINE t == v.target
<1>a. x.ids \in SUBSET Ids  BY ResolutionAssumption DEF Text, Candidates
<1>b. x.category \in DOMAIN Rules  BY DEF Passed
<1>1. CASE ByAlias(v, x)
  <2>1. PICK h \in Hits(x.ids) :
               /\ ~Differ(x.brand, BrandOf[h.target.family]) /\ ~Differ(x.attr, TargetAttr(h.target))
               /\ t \in {h.target, FamilyOnly(h.target.family)}
    BY <1>1 DEF ByAlias
  <2>2. /\ h.id \in x.ids /\ Placed(h.target)
        /\ h.target.model \in seeded /\ h.target.model # None
        /\ h.target.model \in ModelsOf(h.id)
    BY <1>a, HitFacts
  <2>3. h.target.family = FamilyOf[h.target.model] /\ h.target.family \in Families
    BY <2>2 DEF Placed
  <2>4. CASE t = h.target
    BY <2>1, <2>2, <2>4
  <2>5. CASE t = FamilyOnly(h.target.family)
    <3>1. Placed(t) /\ t.family = h.target.family /\ t.model = None
      BY <2>3, <2>5, FamilyPlaced
    <3>2. ~Differ(x.attr, AttrOf[h.target.model])
      BY <2>1, <2>2, ModelAttr
    <3>3. ~Differ(x.attr, TargetAttr(t))
      BY <2>2, <2>3, <3>1, <3>2, AgreedAttr
    <3> QED  BY <2>1, <2>2, <2>3, <3>1, <3>3
  <2> QED  BY <2>1, <2>4, <2>5
<1>2. CASE ByDecode(v, x, Rules[x.category])
  <2>1. PICK id \in Decodable(x.ids, Rules[x.category]) :
               /\ ~Differ(x.brand, BrandOf[Decoded[version][id].family])
               /\ ~Differ(x.attr, Decoded[version][id].attr)
               /\ t = FamilyOnly(Decoded[version][id].family)
    BY <1>2 DEF ByDecode
  <2>2. Decoded[version][id].family \in Families  BY <1>a, <1>b, DecodedPlace
  <2>3. Placed(t) /\ t.family = Decoded[version][id].family /\ t.model = None
    BY <2>1, <2>2, FamilyPlaced
  <2>4. id \in Decodes(x, t.family)  BY <2>1, <2>3 DEF Decodes
  <2> QED  BY <2>1, <2>3, <2>4
<1> QED  BY <1>1, <1>2 DEF Afresh

LEMMA Uncontradicted ==
  ASSUME NEW x \in Texts, NEW u, NEW t, ~VariantContradicted(x, u), t = u \/ t.cond = x.cond
  PROVE  ~VariantContradicted(x, t)
BY ResolutionAssumption DEF VariantContradicted, Differ

LEMMA SameAttr ==
  ASSUME NEW t, NEW u, t.family = u.family, t.model = u.model
  PROVE  TargetAttr(t) = TargetAttr(u)
BY DEF TargetAttr

\* A fresh decision fits the listing, and its origin says why.
LEMMA AfreshAgrees ==
  ASSUME Catalog, NEW x \in Texts, NEW v, Passed(v, x), Afresh(v, x), NEW t, t = Materialize(v, x)
  PROVE  Agrees(x, t) /\ Placed(t)
<1>a. x.ids \in SUBSET Ids /\ x.cond \in Conds \union {None}
  BY ResolutionAssumption DEF Text, Candidates
<1> DEFINE u == v.target
<1>1. /\ Placed(u) /\ ~Differ(x.brand, BrandOf[u.family])
      /\ \/ ~Differ(x.attr, TargetAttr(u))
         \/ u.model = None /\ \E id \in Decodes(x, u.family) : ~Differ(x.attr, Decoded[version][id].attr)
      /\ IF u.model # None
         THEN \E id \in x.ids : u.model \in ModelsOf(id)
         ELSE \/ \E id \in x.ids : \E m \in ModelsOf(id) : FamilyOf[m] = u.family
              \/ Decodes(x, u.family) # {}
  BY AfreshNamed
<1>2. /\ Placed(t) /\ t.family = u.family /\ t.model = u.model
      /\ t = u \/ t.cond = x.cond
  BY <1>a, <1>1, MaterializedFacts
<1>3. ~VariantContradicted(x, t)  BY <1>2, Uncontradicted DEF Afresh
<1>4. TargetAttr(t) = TargetAttr(u)  BY <1>2, SameAttr
<1>5. /\ x.category \in DOMAIN Rules /\ CategoryOf[t.family] = x.category
      /\ ~x.lot /\ ~x.conflict /\ ~ConflictingAliasModels(x.ids)
  BY <1>2 DEF Passed
<1>6. t.model # None => \E m \in Models : \A id \in x.ids : ModelsOf(id) = {} \/ m \in ModelsOf(id)
  <2> SUFFICES ASSUME t.model # None
               PROVE  \E m \in Models : \A id \in x.ids : ModelsOf(id) = {} \/ m \in ModelsOf(id)
    OBVIOUS
  <2>1. PICK id \in x.ids : t.model \in ModelsOf(id)  BY <1>1, <1>2
  <2> QED  BY <1>a, <1>5, <2>1, CommonModel
<1> HIDE DEF u
<1> QED  BY <1>1, <1>2, <1>3, <1>4, <1>5, <1>6 DEF Agrees

OriginOf(v, x, t) ==
    [version |-> version, ids |-> v.ids, target |-> t,
     asserted |-> IF Grain(t) = "family" THEN {} ELSE Asserted(x)]

LEMMA AfreshSupported ==
  ASSUME Catalog, NEW x \in Texts, NEW v, Passed(v, x), Afresh(v, x), NEW t, t = Materialize(v, x)
  PROVE  Supported(OriginOf(v, x, t)) /\ OriginOf(v, x, t) \in Origin
<1>a. x.ids \in SUBSET Ids /\ x.cond \in Conds \union {None}
  BY ResolutionAssumption DEF Text, Candidates
<1> DEFINE u == v.target
           o == OriginOf(v, x, t)
           rules == Rules[x.category]
<1>1. /\ Placed(u)
      /\ IF u.model # None
         THEN \E id \in x.ids : u.model \in ModelsOf(id)
         ELSE \/ \E id \in x.ids : \E m \in ModelsOf(id) : FamilyOf[m] = u.family
              \/ Decodes(x, u.family) # {}
  BY AfreshNamed
<1>2. /\ Placed(t) /\ t.family = u.family /\ t.model = u.model
      /\ Grain(t) = "model" /\ Rules[v.category].onDemand => x.cond = None
  BY <1>a, <1>1, MaterializedFacts DEF Passed
<1>3. /\ v.ids = Identifiers(x.ids, rules) /\ v.category = x.category
      /\ x.category \in DOMAIN Rules /\ CategoryOf[t.family] = x.category
  BY <1>2 DEF Passed
<1>4. o.version = version /\ o.ids = v.ids /\ o.target = t
      /\ o.asserted = IF Grain(t) = "family" THEN {} ELSE Asserted(x)
  BY DEF OriginOf
<1>5. o \in Origin
  <2>1. v.ids \in Candidates  BY <1>a, <1>3 DEF Identifiers, Candidates
  <2>2. Asserted(x) \in SUBSET Conds  BY <1>a DEF Asserted
  <2>3. version \in 1..Versions /\ t \in Target  BY <1>2 DEF Catalog, Placed
  <2> QED  BY <2>1, <2>2, <2>3 DEF Origin, OriginOf
<1>6. Grain(t) = "model" /\ Rules[CategoryOf[t.family]].onDemand => o.asserted = {}
  <2>1. Grain(t) = "model" /\ Rules[CategoryOf[t.family]].onDemand => x.cond = None
    BY <1>2, <1>3
  <2> QED  BY <1>4, <2>1 DEF Asserted
<1>7. IF t.model # None
      THEN \E id \in v.ids : t.model \in ModelsOf(id)
      ELSE \/ \E id \in v.ids : \E m \in ModelsOf(id) : FamilyOf[m] = t.family
           \/ \E id \in v.ids : /\ Kind[id] # "oem" /\ Decoded[version][id].family = t.family
                                /\ Rules[CategoryOf[t.family]].decodes
  <2>1. CASE t.model # None
    <3>1. PICK id \in x.ids : t.model \in ModelsOf(id)  BY <1>1, <1>2, <2>1
    <3>2. id \in v.ids  BY <1>3, <3>1, HitNames
    <3> QED  BY <2>1, <3>1, <3>2
  <2>2. CASE t.model = None /\ \E id \in x.ids : \E m \in ModelsOf(id) : FamilyOf[m] = t.family
    <3>1. PICK id \in x.ids : \E m \in ModelsOf(id) : FamilyOf[m] = t.family  BY <2>2
    <3>2. id \in v.ids  BY <1>3, <3>1, HitNames
    <3> QED  BY <2>2, <3>1, <3>2
  <2>3. CASE t.model = None /\ Decodes(x, t.family) # {}
    <3>1. PICK id \in Decodable(x.ids, rules) : Decoded[version][id].family = t.family
      BY <2>3 DEF Decodes
    <3>2. id \in x.ids /\ Kind[id] # "oem" /\ rules.decodes
      BY <1>a, <1>3, <3>1, DecodedPlace
    <3>3. id \in v.ids  BY <1>3, <3>1, <3>2 DEF Identifiers
    <3> QED  BY <1>3, <2>3, <3>1, <3>2, <3>3
  <2> QED  BY <1>1, <1>2, <2>1, <2>2, <2>3
<1> HIDE DEF o, u, rules
<1>8. Supported(o)
  BY <1>2, <1>4, <1>6, <1>7 DEF Supported
<1> QED  BY <1>5, <1>8 DEF o

\* An inherited product fits the listing, and is inherited as it is.
LEMMA InheritedAgrees ==
  ASSUME Catalog, NEW x \in Texts, NEW v, Passed(v, x), Inherited(v, x, target), NEW t, t = Materialize(v, x),
         origin # None, origin.target = target, Supported(origin)
  PROVE  t = target /\ Agrees(x, t) /\ v.rung = 0
<1>a. x.ids \in SUBSET Ids /\ x.cond \in Conds \union {None}
  BY ResolutionAssumption DEF Text, Candidates
<1> DEFINE rules == Rules[x.category]
<1>1. /\ v.rung = 0 /\ target # NoTarget /\ v.target = target /\ ~Differ(x.attr, TargetAttr(target))
      /\ ~Reconsidered(x, rules, target)
  BY DEF Inherited, ByPrior
<1>2. /\ origin.version = version /\ origin.ids = Identifiers(x.ids, rules)
      /\ ~Differ(x.brand, BrandOf[target.family])
      /\ ~OfferReconsideration(x, rules, target)
  BY <1>1 DEF Reconsidered, PriorReconsideration, BrandReconsideration
<1>3. /\ x.category \in DOMAIN Rules /\ v.category = x.category /\ CategoryOf[target.family] = x.category
      /\ ~x.lot /\ ~x.conflict /\ ~ConflictingAliasModels(x.ids)
  BY <1>1 DEF Passed
<1>4. Placed(target)  BY DEF Supported
<1>5. t = target
  <2>1. t = Materialize(v, x) /\ (x.cond = None => t = target)
    BY <1>a, <1>1, <1>4, MaterializedFacts
  <2>2. CASE x.cond # None /\ Grain(target) = "model" /\ rules.onDemand
    <3>1. origin.asserted = {}  BY <1>3, <2>2 DEF Supported
    <3>2. Asserted(x) # {}  BY <2>2 DEF Asserted
    <3>3. OfferReconsideration(x, rules, target)  BY <2>2, <3>1, <3>2 DEF OfferReconsideration
    <3> QED  BY <1>2, <3>3
  <2>3. CASE ~(Grain(target) = "model" /\ rules.onDemand)
    BY <1>1, <1>3, <2>1, <2>3 DEF Materialize
  <2> QED  BY <2>1, <2>2, <2>3
<1>6. ~VariantContradicted(x, target)
  <2>1. CASE target.cond = None  BY <2>1 DEF VariantContradicted
  <2>2. CASE target.cond # None
    <3>1. Grain(target) = "variant"  BY <1>4, <2>2, PlacedGrain
    <3> QED  BY <1>2, <3>1 DEF OfferReconsideration
  <2> QED  BY <2>1, <2>2
<1>7. Identifiers(x.ids, rules) \subseteq x.ids  BY DEF Identifiers
<1>8. CASE target.model # None
  <2>1. PICK id \in origin.ids : target.model \in ModelsOf(id)  BY <1>8 DEF Supported
  <2>2. id \in x.ids  BY <1>2, <1>7, <2>1
  <2>3. \E m \in Models : \A i \in x.ids : ModelsOf(i) = {} \/ m \in ModelsOf(i)
    BY <1>a, <1>3, <2>1, <2>2, CommonModel
  <2> HIDE DEF rules
  <2> QED  BY <1>1, <1>2, <1>3, <1>5, <1>6, <1>8, <2>1, <2>2, <2>3 DEF Agrees
<1>9. CASE target.model = None
  <2>1. CASE \E id \in origin.ids : \E m \in ModelsOf(id) : FamilyOf[m] = target.family
    <3>1. \E id \in x.ids : \E m \in ModelsOf(id) : FamilyOf[m] = target.family  BY <1>2, <1>7, <2>1
    <3> HIDE DEF rules
    <3> QED  BY <1>1, <1>2, <1>3, <1>5, <1>6, <1>9, <3>1 DEF Agrees
  <2>2. CASE \E id \in origin.ids : /\ Kind[id] # "oem" /\ Decoded[origin.version][id].family = target.family
                                    /\ Rules[CategoryOf[target.family]].decodes
    <3>1. PICK id \in origin.ids : /\ Kind[id] # "oem" /\ Decoded[version][id].family = target.family
                                   /\ rules.decodes
      BY <1>2, <1>3, <2>2
    <3>2. target.family # None  BY <1>4, PlacedGrain
    <3>3. id \in Decodable(x.ids, rules)  BY <1>2, <1>7, <3>1, <3>2 DEF Decodable
    <3>4. id \in Decodes(x, target.family)  BY <3>1, <3>3 DEF Decodes
    <3> HIDE DEF rules
    <3> QED  BY <1>1, <1>2, <1>3, <1>5, <1>6, <1>9, <3>4 DEF Agrees
  <2> QED  BY <1>9, <2>1, <2>2 DEF Supported
<1> QED  BY <1>1, <1>5, <1>8, <1>9

\* A product stays supported while the catalog grows.
LEMMA NamedStill ==
  ASSUME seeded \subseteq seeded', learned \subseteq learned', NEW id
  PROVE  ModelsOf(id) \subseteq ModelsOf(id)'
<1>1. Hits({id}) \subseteq Hits({id})'  BY DEF Hits
<1> QED  BY <1>1 DEF ModelsOf

LEMMA SupportKept ==
  ASSUME seeded \subseteq seeded', learned \subseteq learned', NEW o, origin' = o, Supported(o)
  PROVE  Supported(origin)'
<1>1. ASSUME NEW id, NEW m \in ModelsOf(id)  PROVE m \in ModelsOf(id)'
  BY <1>1, NamedStill
<1>2. Placed(origin.target)'  BY DEF Supported, Placed
<1>3. (Grain(origin.target) = "model" /\ Rules[CategoryOf[origin.target.family]].onDemand
         => origin.asserted = {})'
  BY DEF Supported, Grain
<1>4. CASE o.target.model # None
  <2>1. \E id \in o.ids : o.target.model \in ModelsOf(id)'  BY <1>1, <1>4 DEF Supported
  <2> QED  BY <1>2, <1>3, <1>4, <2>1 DEF Supported
<1>5. CASE o.target.model = None
  <2>1. \/ \E id \in o.ids : \E m \in ModelsOf(id)' : FamilyOf[m] = o.target.family
        \/ \E id \in o.ids : /\ Kind[id] # "oem"
                                  /\ Decoded[o.version][id].family = o.target.family
                                  /\ Rules[CategoryOf[o.target.family]].decodes
    BY <1>1, <1>5 DEF Supported
  <2> QED  BY <1>2, <1>3, <1>5, <2>1 DEF Supported
<1> QED  BY <1>4, <1>5

-----------------------------------------------------------------------------
(* One thread.                                                             *)

OneThread == \A d \in Deployments : ~d.overlap

TaskField == {"pc", "reconsider", "fallback", "quiet", "text", "prior", "verdict"}
IsTask(j) == j = [f \in TaskField |-> j[f]]
Tasks == task = [r \in Resolvers |-> task[r]] /\ \A r \in Resolvers : IsTask(task[r])

\* No two resolvers are at work.
Serial == \A q, r \in Resolvers : q = r \/ task[q].pc = "idle" \/ task[r].pc = "idle"

\* What a resolver has read is still so, and it has decided on that.
Current(j) ==
    /\ j.pc \in {"read", "decided"} => j.text = text
    /\ j.pc = "read" => j.prior = target
    /\ j.pc = "decided" => Sound(j.verdict, text, target)

Rests ==
    /\ target # NoTarget => origin # None /\ origin.target = target /\ Supported(origin)
    /\ Clean => edge.target = target

ThreadInv ==
    /\ text \in Texts /\ Catalog /\ Tasks /\ Serial
    /\ \A r \in Resolvers : Current(task[r])
    /\ Rests

\* A change elsewhere leaves of a task all but its quiet.
LEMMA DisturbedFacts ==
  ASSUME Tasks, NEW b, NEW d, d = Disturbed(b)
  PROVE  /\ d = [r \in Resolvers |-> d[r]]
         /\ \A r \in Resolvers : /\ IsTask(d[r]) /\ d[r].pc = task[r].pc /\ d[r].text = task[r].text
                                 /\ d[r].prior = task[r].prior /\ d[r].verdict = task[r].verdict
<1>1. d = [r \in Resolvers |-> d[r]]  BY DEF Disturbed
<1>2. ASSUME NEW r \in Resolvers
      PROVE  /\ IsTask(d[r]) /\ d[r].pc = task[r].pc /\ d[r].text = task[r].text
             /\ d[r].prior = task[r].prior /\ d[r].verdict = task[r].verdict
  <2>1. d[r] = task[r] \/ d[r] = [task[r] EXCEPT !.quiet = FALSE]  BY DEF Disturbed
  <2>2. IsTask(task[r])  BY DEF Tasks
  <2> DEFINE j == task[r]
  <2> HIDE DEF j
  <2>3. CASE d[r] = j  BY <2>2, <2>3 DEF j
  <2>4. CASE d[r] = [j EXCEPT !.quiet = FALSE]
    <3>1. IsTask(j)  BY <2>2 DEF j
    <3>2. /\ IsTask(d[r]) /\ d[r].pc = j.pc /\ d[r].text = j.text
          /\ d[r].prior = j.prior /\ d[r].verdict = j.verdict
      BY <2>4, <3>1 DEF IsTask, TaskField
    <3> QED  BY <3>2 DEF j
  <2> QED  BY <2>1, <2>3, <2>4 DEF j
<1> QED  BY <1>1, <1>2

\* The catalog unchanged, a verdict stays sound.
SameCatalog == UNCHANGED <<seeded, learned, version, origin>>

LEMMA SameHits ==
  ASSUME SameCatalog, NEW ids
  PROVE  Hits(ids)' = Hits(ids)
BY DEF SameCatalog, Hits

LEMMA SoundKept ==
  ASSUME SameCatalog, NEW v, NEW x, NEW p, Sound(v, x, p)
  PROVE  Sound(v, x, p)'
<1>1. \A ids : Hits(ids)' = Hits(ids)  BY SameHits
<1>2. \A id : ModelsOf(id)' = ModelsOf(id)  BY <1>1 DEF ModelsOf
<1>3. \A ids, rules : Decodable(ids, rules)' = Decodable(ids, rules)  BY DEF Decodable, SameCatalog
<1>4. \A ids, rules : Identifiers(ids, rules)' = Identifiers(ids, rules)
  BY <1>1, <1>3 DEF Identifiers
<1>5. \A t : TargetAttr(t)' = TargetAttr(t)  BY DEF TargetAttr, SameCatalog
<1>6. \A ids : ConflictingAliasModels(ids)' = ConflictingAliasModels(ids)
  BY <1>2 DEF ConflictingAliasModels
<1>7. Passed(v, x)' = Passed(v, x)  BY <1>4, <1>6 DEF Passed
<1>8. Inherited(v, x, p)' = Inherited(v, x, p)
  <2>1. ByPrior(v, x, p)' = ByPrior(v, x, p)  BY <1>5 DEF ByPrior
  <2>2. Reconsidered(x, Rules[x.category], p)' = Reconsidered(x, Rules[x.category], p)
    BY <1>4 DEF Reconsidered, PriorReconsideration, BrandReconsideration, OfferReconsideration,
                Differ, VariantContradicted, SameCatalog
  <2> QED  BY <2>1, <2>2 DEF Inherited
<1>9. Afresh(v, x)' = Afresh(v, x)
  <2>1. ByAlias(v, x)' = ByAlias(v, x)  BY <1>1, <1>5 DEF ByAlias
  <2>2. ByDecode(v, x, Rules[x.category])' = ByDecode(v, x, Rules[x.category])
    BY <1>3 DEF ByDecode, SameCatalog
  <2> QED  BY <2>1, <2>2 DEF Afresh
<1> QED  BY <1>7, <1>8, <1>9 DEF Sound

-----------------------------------------------------------------------------
(* The steps.                                                              *)

\* The resolvers but r idle before and after, r at d then, and nothing that a
\* verdict reads has changed.
LEMMA TaskStep ==
  ASSUME ThreadInv, SameCatalog, UNCHANGED <<text, target, edge>>,
         NEW r \in Resolvers, NEW d, IsTask(d), \A q \in Resolvers : q = r \/ task[q].pc = "idle",
         task' = [task EXCEPT ![r] = d], Current(d)
  PROVE  ThreadInv'
<1>1. task' = [q \in Resolvers |-> task'[q]] /\ task'[r] = d
      /\ \A q \in Resolvers : q = r \/ task'[q] = task[q]
  BY DEF ThreadInv, Tasks
<1>2. Tasks'  BY <1>1 DEF ThreadInv, Tasks
<1>3. Serial'  BY <1>1 DEF Serial
<1>4. ASSUME NEW q \in Resolvers  PROVE Current(task[q])'
  <2>1. CASE q = r
    <3>1. PICK x : x = text  OBVIOUS
    <3>2. PICK p : p = target  OBVIOUS
    <3>3. PICK v : v = d.verdict  OBVIOUS
    <3>4. d.pc = "decided" => Sound(v, x, p)  BY <3>1, <3>2, <3>3 DEF Current
    <3>5. d.pc = "decided" => Sound(v, x, p)'  BY <3>4, SoundKept
    <3>6. text' = x /\ target' = p /\ task'[q].verdict = v  BY <1>1, <2>1, <3>1, <3>2, <3>3
    <3> QED  BY <1>1, <2>1, <3>5, <3>6 DEF Current
  <2>2. CASE q # r
    <3>1. task'[q].pc = "idle"  BY <1>1, <2>2
    <3> QED  BY <3>1 DEF Current
  <2> QED  BY <2>1, <2>2
<1>5. Rests'
  <2>1. PICK o : o = origin  OBVIOUS
  <2>2. Supported(o) => Supported(origin)'  BY <2>1, SupportKept DEF SameCatalog
  <2> QED  BY <2>1, <2>2 DEF ThreadInv, Rests, Clean, SameCatalog
<1>6. text' \in Texts /\ Catalog'  BY DEF ThreadInv, Catalog, SameCatalog
<1> QED  BY <1>2, <1>3, <1>4, <1>5, <1>6 DEF ThreadInv

\* All idle afterwards, with the catalog grown and no decision applied.
LEMMA IdleStep ==
  ASSUME ThreadInv, text' \in Texts, Catalog', seeded \subseteq seeded', UNCHANGED learned,
         UNCHANGED <<target, edge, origin>>,
         Tasks', \E r \in Resolvers : \A q \in Resolvers : q = r \/ task'[q].pc = "idle",
         \A q \in Resolvers : task'[q].pc \notin {"read", "decided"}
  PROVE  ThreadInv'
<1>1. Serial'  BY DEF Serial
<1>2. \A q \in Resolvers : Current(task[q])'  BY DEF Current
<1>3. Rests'
  <2>1. PICK o : o = origin  OBVIOUS
  <2>2. Supported(o) => Supported(origin)'  BY <2>1, SupportKept
  <2> QED  BY <2>1, <2>2 DEF ThreadInv, Rests, Clean
<1> QED  BY <1>1, <1>2, <1>3 DEF ThreadInv

LEMMA IdleTyped == IsTask(IdleTask) /\ IdleTask.pc = "idle"
BY DEF IsTask, IdleTask, TaskField

LEMMA ThreadInit == ResolutionInit => ThreadInv
<1> SUFFICES ASSUME ResolutionInit PROVE ThreadInv
  OBVIOUS
<1>1. Tasks /\ \A r \in Resolvers : task[r].pc = "idle"  BY IdleTyped DEF ResolutionInit, Tasks
<1>2. Catalog
  <2>1. 1 \in 1..Versions  BY ResolutionAssumption
  <2> QED  BY <2>1, CatalogAssumption DEF ResolutionInit, Catalog
<1>3. Rests  BY DEF ResolutionInit, Rests, Clean
<1>4. \A r \in Resolvers : Current(task[r])  BY <1>1 DEF Current
<1>5. Serial  BY <1>1 DEF Serial
<1> QED  BY <1>1, <1>2, <1>3, <1>4, <1>5 DEF ThreadInv, ResolutionInit

LEMMA EditKept ==
  ASSUME ThreadInv, ~deployment.overlap, NEW t \in Texts, Edit(t)
  PROVE  ThreadInv'
<1>1. \A q \in Resolvers : task[q].pc = "idle"  BY DEF Edit, Free
<1>2. PICK d : d = Disturbed(None)  OBVIOUS
<1>3. /\ d = [r \in Resolvers |-> d[r]]
      /\ \A r \in Resolvers : IsTask(d[r]) /\ d[r].pc = "idle"
  BY <1>1, <1>2, DisturbedFacts DEF ThreadInv
<1>4. task' = d /\ text' = t /\ UNCHANGED <<target, edge, origin, seeded, learned, version>>
  BY <1>2 DEF Edit
<1>5. Tasks' /\ \A q \in Resolvers : task'[q].pc = "idle"  BY <1>3, <1>4 DEF Tasks
<1>6. Catalog' /\ Poller \in Resolvers  BY <1>4 DEF ThreadInv, Catalog, Resolvers
<1> QED  BY <1>4, <1>5, <1>6, IdleStep

LEMMA DeployKept ==
  ASSUME ThreadInv, Deploy
  PROVE  ThreadInv'
<1>1. /\ task' = [r \in Resolvers |-> IdleTask] /\ version < Versions /\ version' = version + 1
      /\ UNCHANGED <<text, target, edge, origin, seeded, learned>>
  BY DEF Deploy
<1>2. Tasks' /\ \A q \in Resolvers : task'[q].pc = "idle"  BY <1>1, IdleTyped DEF Tasks
<1>3. Catalog' /\ Poller \in Resolvers
  BY <1>1, ResolutionAssumption DEF ThreadInv, Catalog, Resolvers
<1> QED  BY <1>1, <1>2, <1>3, IdleStep DEF ThreadInv

LEMMA ImportKept ==
  ASSUME ThreadInv, ~deployment.overlap, ImportDocuments
  PROVE  ThreadInv'
<1>1. \A q \in Resolvers : task[q].pc = "idle"  BY DEF ImportDocuments, Free
<1>2. PICK new \in {{}, Models \ seeded} :
         /\ seeded' = seeded \union new
         /\ task' = [IF new = {} THEN task ELSE Disturbed(Refresher) EXCEPT ![Refresher].pc = "imported"]
  BY DEF ImportDocuments
<1>3. PICK d : d = IF new = {} THEN task ELSE Disturbed(Refresher)  OBVIOUS
<1>4. /\ d = [r \in Resolvers |-> d[r]]
      /\ \A r \in Resolvers : IsTask(d[r]) /\ d[r].pc = "idle"
  <2>1. CASE d = task  BY <1>1, <2>1 DEF ThreadInv, Tasks
  <2>2. CASE d = Disturbed(Refresher)  BY <1>1, <2>2, DisturbedFacts DEF ThreadInv
  <2> QED  BY <1>3, <2>1, <2>2
<1>5. Refresher \in Resolvers  BY DEF Resolvers
<1>6. task' = [d EXCEPT ![Refresher].pc = "imported"]  BY <1>2, <1>3
<1>7. /\ task' = [r \in Resolvers |-> task'[r]]
      /\ task'[Refresher] = [d[Refresher] EXCEPT !.pc = "imported"]
      /\ \A q \in Resolvers : q = Refresher \/ task'[q] = d[q]
  BY <1>4, <1>5, <1>6
<1>8. IsTask(task'[Refresher]) /\ task'[Refresher].pc = "imported"
  <2>1. PICK j : j = d[Refresher]  OBVIOUS
  <2>2. IsTask(j) /\ task'[Refresher] = [j EXCEPT !.pc = "imported"]  BY <1>4, <1>5, <1>7, <2>1
  <2> QED  BY <2>2 DEF IsTask, TaskField
<1>9. Tasks' /\ \A q \in Resolvers : q = Refresher \/ task'[q].pc = "idle"
  BY <1>4, <1>7, <1>8 DEF Tasks
<1>10. UNCHANGED <<text, target, edge, origin, learned, version>>  BY DEF ImportDocuments
<1>11. Catalog' /\ seeded \subseteq seeded'  BY <1>2, <1>10 DEF ThreadInv, Catalog
<1>12. \A q \in Resolvers : task'[q].pc \notin {"read", "decided"}  BY <1>8, <1>9
<1> QED  BY <1>5, <1>9, <1>10, <1>11, <1>12, IdleStep DEF ThreadInv

\* The resolver that works is the only one.
LEMMA OnlyWorker ==
  ASSUME ThreadInv, NEW r \in Resolvers, task[r].pc # "idle"
  PROVE  \A q \in Resolvers : q = r \/ task[q].pc = "idle"
BY DEF ThreadInv, Serial

LEMMA FindKept ==
  ASSUME ThreadInv, FindPending
  PROVE  ThreadInv'
<1>1. Refresher \in Resolvers /\ task[Refresher].pc # "idle"  BY DEF Resolvers, FindPending
<1>2. PICK d : d = IF Grain(target) \in {"none", "family"}
                   THEN [IdleTask EXCEPT !.pc = "queued", !.reconsider = TRUE] ELSE IdleTask
  OBVIOUS
<1>3. /\ task' = [task EXCEPT ![Refresher] = d]
      /\ UNCHANGED <<text, target, edge, origin, seeded, learned, version>>
  BY <1>2 DEF FindPending
<1>4. IsTask(d) /\ d.pc \in {"idle", "queued"}
  BY <1>2 DEF IsTask, IdleTask, TaskField
<1>5. Current(d)  BY <1>4 DEF Current
<1> QED  BY <1>1, <1>3, <1>4, <1>5, OnlyWorker, TaskStep DEF SameCatalog

LEMMA ReadKept ==
  ASSUME ThreadInv, ~deployment.overlap, NEW r \in Resolvers, Read(r)
  PROVE  ThreadInv'
<1>1. \A q \in Resolvers : q = r \/ task[q].pc = "idle"
  <2>1. CASE r = Refresher
    <3>1. task[r].pc # "idle"  BY <2>1 DEF Read
    <3> QED  BY <3>1, OnlyWorker
  <2>2. CASE r # Refresher  BY <2>2 DEF Read, Free
  <2> QED  BY <2>1, <2>2
<1>2. PICK d : d = [task[r] EXCEPT !.pc = "read", !.text = text, !.prior = target, !.quiet = TRUE]
  OBVIOUS
<1>3. /\ task' = [task EXCEPT ![r] = d]
      /\ UNCHANGED <<text, target, edge, origin, seeded, learned, version>>
  BY <1>2 DEF Read, ThreadInv, Tasks
<1>4. IsTask(d) /\ d.pc = "read" /\ d.text = text /\ d.prior = target
  <2>1. PICK j : j = task[r]  OBVIOUS
  <2>2. PICK x : x = text  OBVIOUS
  <2>3. PICK p : p = target  OBVIOUS
  <2>4. IsTask(j) /\ d = [j EXCEPT !.pc = "read", !.text = x, !.prior = p, !.quiet = TRUE]
    BY <1>2, <2>1, <2>2, <2>3 DEF ThreadInv, Tasks
  <2>5. IsTask(d) /\ d.pc = "read" /\ d.text = x /\ d.prior = p  BY <2>4 DEF IsTask, TaskField
  <2> QED  BY <2>2, <2>3, <2>5
<1>5. Current(d)  BY <1>4 DEF Current
<1> QED  BY <1>1, <1>3, <1>4, <1>5, TaskStep DEF SameCatalog

\* A resolver that has read takes the verdict v.
LEMMA VerdictKept ==
  ASSUME ThreadInv, NEW r \in Resolvers, task[r].pc = "read", NEW v, Sound(v, text, target),
         task' = [task EXCEPT ![r].pc = "decided", ![r].prior = NoTarget, ![r].verdict = v],
         UNCHANGED <<text, target, edge, origin, seeded, learned, version>>
  PROVE  ThreadInv'
<1>1. PICK j : j = task[r]  OBVIOUS
<1>2. PICK d : d = [j EXCEPT !.pc = "decided", !.prior = NoTarget, !.verdict = v]  OBVIOUS
<1>3. IsTask(j) /\ j.text = text  BY <1>1 DEF ThreadInv, Tasks, Current
<1>4. task' = [task EXCEPT ![r] = d]  BY <1>1, <1>2 DEF ThreadInv, Tasks
<1>5. IsTask(d) /\ d.pc = "decided" /\ d.text = j.text /\ d.verdict = v
  <2>1. IsTask(j)  BY <1>3
  <2> QED  BY <1>2, <2>1 DEF IsTask, TaskField
<1>6. Current(d)  BY <1>3, <1>5 DEF Current
<1> QED  BY <1>4, <1>5, <1>6, OnlyWorker, TaskStep DEF SameCatalog

LEMMA ErrorSound ==
  ASSUME NEW e \in Errors, NEW x, NEW p
  PROVE  Sound(ErrorVerdict(e), x, p)
BY DEF Sound, ErrorVerdict, NoVerdict, Errors

LEMMA RunsKept ==
  ASSUME ThreadInv, NEW r \in Resolvers, RunsLadder(r)
  PROVE  ThreadInv'
<1>1. task[r].pc = "read" /\ UNCHANGED <<text, target, edge, origin, seeded, learned, version>>
  BY DEF RunsLadder
<1>2. task[r].text = text /\ task[r].prior = target  BY <1>1 DEF ThreadInv, Current
<1>3. PICK b : b = task[r].reconsider  OBVIOUS
<1>4. PICK v : v = RunLadder(text, text.category, target, b)  OBVIOUS
<1>5. task' = [task EXCEPT ![r].pc = "decided", ![r].prior = NoTarget, ![r].verdict = v]
  BY <1>2, <1>3, <1>4 DEF RunsLadder
<1>6. Sound(v, text, target)  BY <1>4, LadderPasses DEF ThreadInv
<1> QED  BY <1>1, <1>5, <1>6, VerdictKept

LEMMA CrashKept ==
  ASSUME ThreadInv, NEW r \in Resolvers, LadderCrashes(r)
  PROVE  ThreadInv'
<1>1. PICK v : v = ErrorVerdict("ladder")  OBVIOUS
<1>2. Sound(v, text, target)  BY <1>1, ErrorSound DEF Errors
<1>3. /\ task[r].pc = "read" /\ UNCHANGED <<text, target, edge, origin, seeded, learned, version>>
      /\ task' = [task EXCEPT ![r].pc = "decided", ![r].prior = NoTarget, ![r].verdict = v]
  BY <1>1 DEF LadderCrashes
<1> QED  BY <1>2, <1>3, VerdictKept

LEMMA FailKept ==
  ASSUME ThreadInv, NEW r \in Resolvers, ApplyFails(r)
  PROVE  ThreadInv'
<1>1. PICK v : v = ErrorVerdict("apply")  OBVIOUS
<1>2. PICK j : j = task[r]  OBVIOUS
<1>3. PICK d : d = IF j.fallback THEN IdleTask ELSE [j EXCEPT !.verdict = v, !.fallback = TRUE]
  OBVIOUS
<1>4. /\ j.pc = "decided" /\ UNCHANGED <<text, target, edge, origin, seeded, learned, version>>
      /\ task' = [task EXCEPT ![r] = d]
  BY <1>1, <1>2, <1>3 DEF ApplyFails
<1>5. IsTask(j) /\ j.text = text  BY <1>2, <1>4 DEF ThreadInv, Tasks, Current
<1>6. IsTask(d) /\ Current(d)
  <2>1. CASE d = IdleTask  BY <2>1, IdleTyped DEF Current
  <2>2. CASE d = [j EXCEPT !.verdict = v, !.fallback = TRUE]
    <3>1. IsTask(d) /\ d.pc = j.pc /\ d.text = j.text /\ d.verdict = v
      <4>1. IsTask(j)  BY <1>5
      <4> QED  BY <2>2, <4>1 DEF IsTask, TaskField
    <3>2. Sound(v, text, target)  BY <1>1, ErrorSound DEF Errors
    <3> QED  BY <1>4, <1>5, <3>1, <3>2 DEF Current
  <2> QED  BY <1>3, <2>1, <2>2
<1> QED  BY <1>2, <1>4, <1>6, OnlyWorker, TaskStep DEF SameCatalog

-----------------------------------------------------------------------------
(* Applying a decision.                                                    *)

\* The product that an apply leaves when it writes: the one accepted before, none,
\* or one that fits and rests on a new origin.
LEMMA ApplyFacts ==
  ASSUME ThreadInv, NEW r \in Resolvers, task[r].pc = "decided",
         NEW v, v = task[r].verdict, NEW t, t = Materialize(v, text)
  PROVE  /\ task[r].text = text
         /\ v.error # "" => v.outcome = "none"
         /\ v.error = "" /\ v.outcome # "accept" => t = NoTarget
         /\ v.outcome = "accept" =>
               /\ v.error = "" /\ Agrees(text, t) /\ t # NoTarget /\ Placed(t)
               /\ \/ t = target /\ v.rung = 0
                  \/ v.rung # 0 /\ Supported(OriginOf(v, text, t)) /\ OriginOf(v, text, t) \in Origin
<1>1. task[r].text = text /\ Sound(v, text, target) /\ text \in Texts /\ Catalog /\ Rests
  BY DEF ThreadInv, Current
<1>2. CASE v.error # ""  BY <1>1, <1>2 DEF Sound
<1>3. CASE v.error = "" /\ v.outcome # "accept"
  <2>1. v.target = NoTarget  BY <1>1, <1>3 DEF Sound, Proper
  <2> QED  BY <1>1, <1>3, <2>1 DEF Materialize
<1>4. CASE v.error = "" /\ v.outcome = "accept"
  <2>1. Passed(v, text) /\ (Inherited(v, text, target) \/ Afresh(v, text))  BY <1>1, <1>4 DEF Sound
  <2>2. CASE Inherited(v, text, target)
    <3>1. target # NoTarget  BY <2>2 DEF Inherited, ByPrior
    <3>2. origin # None /\ origin.target = target /\ Supported(origin)  BY <1>1, <3>1 DEF Rests
    <3>3. t = target /\ Agrees(text, t) /\ v.rung = 0  BY <1>1, <2>1, <2>2, <3>2, InheritedAgrees
    <3>4. Placed(t)  BY <3>2, <3>3 DEF Supported
    <3> QED  BY <1>1, <1>4, <3>1, <3>3, <3>4
  <2>3. CASE Afresh(v, text)
    <3>1. Agrees(text, t) /\ Placed(t)  BY <1>1, <2>1, <2>3, AfreshAgrees
    <3>2. Supported(OriginOf(v, text, t)) /\ OriginOf(v, text, t) \in Origin
      BY <1>1, <2>1, <2>3, AfreshSupported
    <3>3. v.rung # 0  BY <2>3 DEF Afresh, ByAlias, ByDecode
    <3>4. t # NoTarget  BY <3>1, PlacedGrain
    <3> QED  BY <1>1, <1>4, <3>1, <3>2, <3>3, <3>4
  <2> QED  BY <2>1, <2>2, <2>3
<1> QED  BY <1>2, <1>3, <1>4

\* An accepted model is in the catalog, and so is what is learned of it.
LEMMA LearnedKept ==
  ASSUME Catalog, NEW x \in Texts, NEW t, Agrees(x, t)
  PROVE  learned \union LearnedAliases(x.ids, t.model) \subseteq Ids \X seeded
<1>1. x.ids \in SUBSET Ids  BY ResolutionAssumption DEF Text, Candidates
<1>2. CASE t.model = None  BY <1>2 DEF LearnedAliases, Catalog
<1>3. CASE t.model # None
  <2>1. PICK id \in x.ids : t.model \in ModelsOf(id)  BY <1>3 DEF Agrees
  <2>2. t.model \in seeded  BY <1>1, <2>1, NamedSeeded
  <2> QED  BY <1>1, <2>2 DEF LearnedAliases, Catalog
<1> QED  BY <1>2, <1>3

\* Whether Apply leaves everything as it is.
Skips(v, t) ==
    \/ UnchangedAccept(v) /\ ~CategoryChanged(v)
    \/ UnchangedMiss(v) /\ ~CategoryChanged(v)
    \/ UnchangedError(v)
    \/ SameAccept(v, t)

LEMMA ApplyCases ==
  ASSUME NEW r \in Resolvers, Apply(r), NEW v, v = task[r].verdict, NEW x, x = task[r].text,
         NEW t, t = Materialize(v, x)
  PROVE  /\ task[r].pc = "decided" /\ UNCHANGED <<text, seeded, version>>
         /\ \/ /\ Skips(v, t) /\ UNCHANGED <<edge, target, origin, learned>>
               /\ task' = [task EXCEPT ![r] = IdleTask]
            \/ WriteEdge(v, x, t) /\ task' = [Disturbed(r) EXCEPT ![r] = IdleTask]
BY DEF Apply, Skips

LEMMA WriteFacts ==
  ASSUME NEW v, NEW x, NEW t, WriteEdge(v, x, t)
  PROVE  /\ edge'.target = t /\ edge'.error = v.error
         /\ target' = IF v.error # "" THEN target ELSE t
         /\ origin' = IF v.outcome = "accept" /\ v.rung # 0 THEN OriginOf(v, x, t) ELSE origin
         /\ learned' = IF v.outcome = "accept" THEN learned \union LearnedAliases(x.ids, t.model)
                       ELSE learned
<1>1. edge' = [outcome |-> v.outcome, error |-> v.error, target |-> t, category |-> v.category,
               reasons |-> v.reasons, about |-> v.about, serial |-> ~edge.serial]
  BY DEF WriteEdge
<1>2. edge'.target = t /\ edge'.error = v.error  BY <1>1
<1> QED  BY <1>2 DEF WriteEdge, OriginOf

LEMMA ApplyKept ==
  ASSUME ThreadInv, NEW r \in Resolvers, Apply(r)
  PROVE  ThreadInv'
<1>1. PICK v : v = task[r].verdict  OBVIOUS
<1>2. PICK x : x = task[r].text  OBVIOUS
<1>3. PICK t : t = Materialize(v, x)  OBVIOUS
<1>4. /\ task[r].pc = "decided" /\ UNCHANGED <<text, seeded, version>>
      /\ \/ /\ Skips(v, t) /\ UNCHANGED <<edge, target, origin, learned>>
            /\ task' = [task EXCEPT ![r] = IdleTask]
         \/ WriteEdge(v, x, t) /\ task' = [Disturbed(r) EXCEPT ![r] = IdleTask]
  BY <1>1, <1>2, <1>3, ApplyCases
<1>5. \A q \in Resolvers : q = r \/ task[q].pc = "idle"  BY <1>4, OnlyWorker
<1>6. CASE UNCHANGED <<edge, target, origin, learned>> /\ task' = [task EXCEPT ![r] = IdleTask]
  <2>1. IsTask(IdleTask) /\ Current(IdleTask)  BY IdleTyped DEF Current
  <2> QED  BY <1>4, <1>5, <1>6, <2>1, TaskStep DEF SameCatalog
<1>7. CASE WriteEdge(v, x, t) /\ task' = [Disturbed(r) EXCEPT ![r] = IdleTask]
  <2>1. x = text  BY <1>2, <1>4 DEF ThreadInv, Current
  <2>2. PICK d : d = Disturbed(r)  OBVIOUS
  <2>3. /\ d = [q \in Resolvers |-> d[q]]
        /\ \A q \in Resolvers : IsTask(d[q]) /\ d[q].pc = task[q].pc
    BY <2>2, DisturbedFacts DEF ThreadInv
  <2>4. task' = [d EXCEPT ![r] = IdleTask]  BY <1>7, <2>2
  <2>5. Tasks'  BY <2>3, <2>4, IdleTyped DEF Tasks
  <2>6. \A q \in Resolvers : task'[q].pc = "idle"  BY <1>5, <2>3, <2>4, IdleTyped
  <2>7. Serial' /\ \A q \in Resolvers : Current(task[q])'  BY <2>6 DEF Serial, Current
  <2>8. /\ v.error # "" => v.outcome = "none"
        /\ v.error = "" /\ v.outcome # "accept" => t = NoTarget
        /\ v.outcome = "accept" =>
              /\ v.error = "" /\ Agrees(x, t) /\ t # NoTarget /\ Placed(t)
              /\ \/ t = target /\ v.rung = 0
                 \/ v.rung # 0 /\ Supported(OriginOf(v, x, t)) /\ OriginOf(v, x, t) \in Origin
    BY <1>1, <1>3, <1>4, <2>1, ApplyFacts
  <2>9. /\ edge'.target = t /\ edge'.error = v.error
        /\ target' = IF v.error # "" THEN target ELSE t
        /\ origin' = IF v.outcome = "accept" /\ v.rung # 0 THEN OriginOf(v, x, t) ELSE origin
        /\ learned' = IF v.outcome = "accept" THEN learned \union LearnedAliases(x.ids, t.model)
                      ELSE learned
    BY <1>7, WriteFacts
  <2>10. Catalog' /\ learned \subseteq learned'
    <3>1. learned' \subseteq Ids \X seeded
      <4>1. CASE v.outcome = "accept"
        <5>1. learned \union LearnedAliases(x.ids, t.model) \subseteq Ids \X seeded
          BY <2>1, <2>8, <4>1, LearnedKept DEF ThreadInv
        <5> QED  BY <2>9, <4>1, <5>1
      <4>2. CASE v.outcome # "accept"  BY <2>9, <4>2 DEF ThreadInv, Catalog
      <4> QED  BY <4>1, <4>2
    <3> QED  BY <1>4, <2>9, <3>1 DEF ThreadInv, Catalog
  <2>11. Rests'
    <3>1. Clean' => edge'.target = target'  BY <2>9 DEF Clean
    <3>2. ASSUME NEW o, origin' = o, Supported(o)  PROVE Supported(origin)'
      BY <1>4, <2>10, <3>2, SupportKept
    <3>3. target' # NoTarget => origin' # None /\ origin'.target = target' /\ Supported(origin)'
      <4>1. PICK o : o = origin  OBVIOUS
      <4>2. PICK p : p = target  OBVIOUS
      <4>3. p # NoTarget => o # None /\ o.target = p /\ Supported(o)
        BY <4>1, <4>2 DEF ThreadInv, Rests
      <4>4. CASE v.outcome # "accept"
        <5>1. origin' = o /\ (target' # NoTarget => target' = p)  BY <2>8, <2>9, <4>1, <4>2, <4>4
        <5> QED  BY <3>2, <4>3, <5>1
      <4>5. CASE v.outcome = "accept" /\ v.rung = 0
        <5>1. origin' = o /\ target' = p  BY <2>8, <2>9, <4>1, <4>2, <4>5
        <5> QED  BY <3>2, <4>3, <5>1
      <4>6. CASE v.outcome = "accept" /\ v.rung # 0
        <5>1. PICK n : n = OriginOf(v, x, t)  OBVIOUS
        <5>2. origin' = n /\ target' = t /\ Supported(n) /\ n \in Origin
          BY <2>8, <2>9, <4>6, <5>1
        <5>3. n.target = t  BY <5>1 DEF OriginOf
        <5>4. n # None  BY <5>2, CatalogAssumption
        <5> QED  BY <3>2, <5>2, <5>3, <5>4
      <4> QED  BY <4>4, <4>5, <4>6
    <3> QED  BY <3>1, <3>3 DEF Rests
  <2>12. text' \in Texts  BY <1>4 DEF ThreadInv
  <2> QED  BY <2>5, <2>7, <2>10, <2>11, <2>12 DEF ThreadInv
<1> QED  BY <1>4, <1>6, <1>7

LEMMA StutterKept ==
  ASSUME ThreadInv, UNCHANGED resolutionVars
  PROVE  ThreadInv'
<1> DEFINE r == Poller
<1>1. UNCHANGED <<text, target, edge, origin, seeded, learned, version, task>>  BY DEF resolutionVars
<1>2. Tasks' /\ Serial'  BY <1>1 DEF ThreadInv, Tasks, Serial
<1>3. ASSUME NEW q \in Resolvers  PROVE Current(task[q])'
  <2>1. PICK x : x = text  OBVIOUS
  <2>2. PICK p : p = target  OBVIOUS
  <2>3. PICK j : j = task[q]  OBVIOUS
  <2>4. PICK v : v = j.verdict  OBVIOUS
  <2>5. j.pc = "decided" => Sound(v, x, p)  BY <2>1, <2>2, <2>3, <2>4 DEF ThreadInv, Current
  <2>6. j.pc = "decided" => Sound(v, x, p)'  BY <1>1, <2>5, SoundKept DEF SameCatalog
  <2> QED  BY <1>1, <2>1, <2>2, <2>3, <2>4, <2>6 DEF ThreadInv, Current
<1>4. Rests'
  <2>1. PICK o : o = origin  OBVIOUS
  <2>2. Supported(o) => Supported(origin)'  BY <1>1, <2>1, SupportKept
  <2> QED  BY <1>1, <2>1, <2>2 DEF ThreadInv, Rests, Clean
<1> QED  BY <1>1, <1>2, <1>3, <1>4 DEF ThreadInv, Catalog

\* Where one thread does all the work.
Thread == deployment \in Deployments /\ (~deployment.overlap => ThreadInv)

LEMMA ThreadKept == Thread /\ [ResolutionNext]_resolutionVars => Thread'
<1> SUFFICES ASSUME Thread, [ResolutionNext]_resolutionVars PROVE Thread'
  OBVIOUS
<1>1. deployment' = deployment
  BY DEF ResolutionNext, resolutionVars, Edit, Deploy, ImportDocuments, FindPending, Read, RunsLadder, LadderCrashes,
         ApplyFails, Apply
<1>2. ASSUME ~deployment.overlap  PROVE ThreadInv'
  <2>1. ThreadInv  BY <1>2 DEF Thread
  <2>2. ASSUME NEW t \in Texts, Edit(t)  PROVE ThreadInv'  BY <1>2, <2>1, <2>2, EditKept
  <2>3. CASE Deploy  BY <2>1, <2>3, DeployKept
  <2>4. CASE ImportDocuments  BY <1>2, <2>1, <2>4, ImportKept
  <2>5. CASE FindPending  BY <2>1, <2>5, FindKept
  <2>6. ASSUME NEW r \in Resolvers, Read(r)  PROVE ThreadInv'  BY <1>2, <2>1, <2>6, ReadKept
  <2>7. ASSUME NEW r \in Resolvers, RunsLadder(r)  PROVE ThreadInv'  BY <2>1, <2>7, RunsKept
  <2>8. ASSUME NEW r \in Resolvers, LadderCrashes(r)  PROVE ThreadInv'  BY <2>1, <2>8, CrashKept
  <2>9. ASSUME NEW r \in Resolvers, ApplyFails(r)  PROVE ThreadInv'  BY <2>1, <2>9, FailKept
  <2>10. ASSUME NEW r \in Resolvers, Apply(r)  PROVE ThreadInv'  BY <2>1, <2>10, ApplyKept
  <2>11. CASE UNCHANGED resolutionVars  BY <2>1, <2>11, StutterKept
  <2> QED  BY <2>2, <2>3, <2>4, <2>5, <2>6, <2>7, <2>8, <2>9, <2>10, <2>11 DEF ResolutionNext
<1> QED  BY <1>1, <1>2 DEF Thread

LEMMA ThreadStart == ResolutionInit => Thread
BY ThreadInit DEF ResolutionInit, Thread

\* An accept in force was decided, not only inherited: between the newest decision
\* and the edges that inherit from it there is no other product, whichever
\* ladders and applies fail (_automated_origin).
THEOREM OriginAlwaysDecidedTarget == ResolutionSpec => []OriginDecidedTarget
<1>1. Thread => OriginDecidedTarget  BY DEF Thread, ThreadInv, Rests, OriginDecidedTarget
<1> QED  BY <1>1, ThreadStart, ThreadKept, PTL DEF ResolutionSpec

\* A resolution that is applied leaves none or a product that fits.
LEMMA ApplyAgrees ==
  ASSUME ThreadInv, NEW r \in Resolvers, Apply(r), task[r].verdict.error = ""
  PROVE  target' = NoTarget \/ Agrees(text, target')
<1>1. PICK v : v = task[r].verdict  OBVIOUS
<1>2. PICK x : x = task[r].text  OBVIOUS
<1>3. PICK t : t = Materialize(v, x)  OBVIOUS
<1>4. /\ task[r].pc = "decided"
      /\ \/ Skips(v, t) /\ UNCHANGED <<edge, target, origin, learned>>
         \/ WriteEdge(v, x, t)
  BY <1>1, <1>2, <1>3, ApplyCases
<1>5. x = text  BY <1>2, <1>4 DEF ThreadInv, Current
<1>6. /\ v.error = "" /\ (v.outcome # "accept" => t = NoTarget)
      /\ v.outcome = "accept" => Agrees(text, t) /\ (t = target \/ v.rung # 0)
  BY <1>1, <1>3, <1>4, <1>5, ApplyFacts
<1>7. Clean => edge.target = target  BY DEF ThreadInv, Rests
<1>8. CASE WriteEdge(v, x, t)
  <2>1. target' = IF v.error # "" THEN target ELSE t  BY <1>8 DEF WriteEdge
  <2> QED  BY <1>6, <2>1
<1>9. CASE Skips(v, t) /\ UNCHANGED <<edge, target, origin, learned>>
  <2>1. CASE v.outcome = "accept"
    <3>1. t = target  BY <1>6, <1>7, <1>9, <2>1
                      DEF Skips, UnchangedAccept, UnchangedMiss, UnchangedError, SameAccept
    <3> QED  BY <1>6, <1>9, <2>1, <3>1
  <2>2. CASE v.outcome # "accept"
    <3>1. Clean /\ Grain(edge.target) = "none"
      BY <1>6, <1>9, <2>2 DEF Skips, UnchangedAccept, UnchangedMiss, UnchangedError, SameAccept
    <3>2. target = NoTarget \/ Placed(target)  BY DEF ThreadInv, Rests, Supported
    <3>3. target = NoTarget  BY <1>7, <3>1, <3>2, PlacedGrain
    <3> QED  BY <1>9, <3>3
  <2> QED  BY <2>1, <2>2
<1> QED  BY <1>4, <1>8, <1>9

\* Where all the database work is on one thread, every resolution leaves none or a
\* product that fits what the listing says by the catalog it was resolved with:
\* inherited or decided afresh, polled or reconsidered, and after whatever
\* edits, imports, releases and failures (_run_ladder, _apply).
THEOREM QuietResolveAlwaysAgrees ==
  ASSUME OneThread
  PROVE  ResolutionSpec => QuietResolveAgrees
<1>1. Thread /\ [ResolutionNext]_resolutionVars
        => [\A r \in Resolvers :
              (task[r].pc = "decided" /\ task[r].quiet /\ task[r].verdict.error = "" /\ Apply(r))
                 => (target' = NoTarget \/ Agrees(text, target'))]_resolutionVars
  <2> SUFFICES ASSUME Thread, NEW r \in Resolvers, task[r].verdict.error = "", Apply(r)
               PROVE  target' = NoTarget \/ Agrees(text, target')
    OBVIOUS
  <2>1. ThreadInv  BY DEF Thread, OneThread
  <2> QED  BY <2>1, ApplyAgrees
<1> QED  BY <1>1, ThreadStart, ThreadKept, PTL DEF ResolutionSpec, QuietResolveAgrees
=============================================================================
