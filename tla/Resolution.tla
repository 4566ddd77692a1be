----------------------------- MODULE Resolution -----------------------------
(***************************************************************************)
(* How one listing is resolved to a product.  A resolver reads the listing *)
(* without a lock, then the category hint, the catalog and its own earlier *)
(* edges, decides, and applies the verdict under the listing's lock.  The  *)
(* seller edits the listing, the reference data grows and a new matcher is *)
(* deployed.                                                               *)
(*                                                                         *)
(* All database work of the poller is on one thread, the scheduled catalog *)
(* refresh included, so there a resolution is never interleaved.  The same *)
(* refresh started by hand (import_refdata --refresh) is a process of its  *)
(* own and overlaps with the poller.                                       *)
(*                                                                         *)
(* A text is abstracted to what the extractors read out of it.  One value  *)
(* stands for all hard attributes, the condition for the whole variant     *)
(* tuple, a brand for its lineage.  No house SKU prefix is registered and  *)
(* nothing in the program writes a manual accept, so neither is here.      *)
(*                                                                         *)
(* Its names are kept apart from Poller's: PollerResolutionProofs proves   *)
(* about both.                                                             *)
(***************************************************************************)
EXTENDS Naturals, FiniteSets

CONSTANTS
    None,
    Ids,          \* identifiers a title or its structured field may carry
    Kind,         \* of an identifier: "mpn", "oem", "code" or "retail"
    Models, Families, Brands, Attrs, Conds,
    FamilyOf, AttrOf,            \* of a model
    BrandOf, CategoryOf,         \* of a family
    Aliases,      \* reference aliases: [id, model, cond], cond for a variant's
    Decoded,      \* per matcher version and identifier: [family, attr]
    Rules,        \* per registered category
    Texts,        \* what the listing may say
    Seeded,       \* models in the catalog at first
    Deployments,  \* [overlap, failures]: refresh by hand, bound on the failures
    MaxEdits, Versions

Poller == "poller"         \* the resolver of collection runs
Refresher == "refresher"   \* the resolver of the catalog refresh
Resolvers == {Poller, Refresher}

Candidates == SUBSET Ids
Text == [ids: Candidates, brand: Brands \union {None}, attr: Attrs \union {None},
         cond: Conds \union {None}, denied: SUBSET Conds, lot: BOOLEAN, conflict: BOOLEAN,
         category: STRING]

\* Of a registered category: whether a policy limits what is accepted, whether
\* accepts are automatic and for which families, whether variants are made on
\* demand, whether two part numbers bar an accept, whether a grammar decodes.
CategoryRules == [policy: BOOLEAN, auto: BOOLEAN, ratified: SUBSET Families, onDemand: BOOLEAN,
                  mpnGuard: BOOLEAN, decodes: BOOLEAN]

\* The catalog: every alias names a model of a family, and the one category that
\* has a grammar decodes to families of its own (rules.no_decode, _materialize).
Decode == [family: Families \union {None}, attr: Attrs \union {None}]
Target == [family: Families \union {None}, model: Models \union {None}, cond: Conds \union {None}]
\* What a decided accept records: the matcher, identifiers and offer it rests on.
Origin == [version: 1..Versions, ids: Candidates, target: Target, asserted: SUBSET Conds]
ASSUME CatalogAssumption ==
    /\ IsFiniteSet(Ids) /\ IsFiniteSet(Models) /\ IsFiniteSet(Aliases)
    /\ None \notin Models /\ None \notin Families
    /\ None \notin Brands /\ None \notin Attrs /\ None \notin Conds /\ None \notin Origin
    /\ Kind \in [Ids -> {"mpn", "oem", "code", "retail"}]
    /\ FamilyOf \in [Models -> Families] /\ AttrOf \in [Models -> Attrs \union {None}]
    /\ BrandOf \in [Families -> Brands] /\ DOMAIN CategoryOf = Families
    /\ Aliases \subseteq [id: Ids, model: Models, cond: Conds \union {None}]
    /\ Decoded \in [1..Versions -> [Ids -> Decode]]
    /\ \A c \in DOMAIN Rules, v \in 1..Versions, id \in Ids :
          Rules[c].decodes /\ Decoded[v][id].family # None => CategoryOf[Decoded[v][id].family] = c
    /\ Seeded \subseteq Models

\* A condition that is asserted is never denied (vocab._denied_conditions).
ASSUME ResolutionAssumption ==
    /\ Rules \in [DOMAIN Rules -> CategoryRules]
    /\ Texts \subseteq Text /\ \A x \in Texts : x.cond \notin x.denied
    /\ Deployments \subseteq [overlap: BOOLEAN, failures: Nat]
    /\ MaxEdits \in Nat /\ Versions \in Nat \ {0}

VARIABLES
    deployment,
    text,       \* Listing: what the newest observation says
    target,     \* Listing: the denormalised accepted state
    edge,       \* the current ListingResolution
    origin,     \* the newest accept that was decided, not inherited
    basis,      \* what the newest accept rests on
    seeded,     \* models in the catalog
    learned,    \* listing-derived aliases: <<id, model>>
    version,    \* MATCHER_VERSION
    task,        \* the resolvers
    edits, failures

resolutionVars ==
    <<deployment, text, target, edge, origin, basis, seeded, learned, version, task, edits, failures>>
-----------------------------------------------------------------------------
NoTarget == [family |-> None, model |-> None, cond |-> None]
Grain(t) == CASE t.cond # None -> "variant" [] t.cond = None /\ t.model # None -> "model"
              [] t.model = None /\ t.family # None -> "family" [] OTHER -> "none"

NoVerdict == [outcome |-> "none", rung |-> 3, method |-> "", target |-> NoTarget, source |-> None,
              reasons |-> {}, about |-> {}, ids |-> {}, category |-> "", again |-> FALSE, error |-> ""]
NoEdge == [outcome |-> "", error |-> "", target |-> NoTarget, category |-> "", reasons |-> {},
           about |-> {}, serial |-> FALSE]
IdleTask == [pc |-> "idle", reconsider |-> FALSE, fallback |-> FALSE, quiet |-> TRUE, text |-> None,
             prior |-> NoTarget, verdict |-> NoVerdict]

VerdictOutcomes == {"accept", "review", "none"}
Errors == {"ladder", "apply"}
ResolutionTypeOK ==
    /\ deployment \in Deployments /\ text \in Texts /\ target \in Target
    /\ edge = NoEdge \/ (edge.outcome \in VerdictOutcomes /\ edge.error \in Errors \union {""})
    /\ edge.error # "" => edge.outcome = "none"
    /\ seeded \subseteq Models /\ learned \subseteq Ids \X Models
    /\ origin # None => origin \in Origin /\ origin.version <= version
    /\ version \in 1..Versions /\ edits \in 0..MaxEdits /\ failures \in 0..deployment.failures
    /\ \A r \in Resolvers : /\ task[r].pc \in {"idle", "imported", "queued", "read", "decided"}
                            /\ task[r].pc \in {"imported", "queued"} => r = Refresher
                            /\ task[r].verdict.outcome \in VerdictOutcomes

ResolutionInit ==
    /\ deployment \in Deployments
    /\ text \in Texts /\ target = NoTarget /\ edge = NoEdge /\ origin = None /\ basis = None
    /\ seeded = Seeded /\ learned = {} /\ version = 1
    /\ task = [r \in Resolvers |-> IdleTask] /\ edits = 0 /\ failures = 0
-----------------------------------------------------------------------------
(* The catalog as a resolver reads it.                                     *)

\* _alias_hits
Hits(ids) ==
    {[id |-> a.id, learned |-> FALSE,
      target |-> [family |-> FamilyOf[a.model], model |-> a.model, cond |-> a.cond]] :
        a \in {a \in Aliases : a.id \in ids /\ a.model \in seeded}}
    \union
    {[id |-> a[1], learned |-> TRUE,
      target |-> [family |-> FamilyOf[a[2]], model |-> a[2], cond |-> None]] :
        a \in {a \in learned : a[1] \in ids}}
Source(hits) == IF \E h \in hits : ~h.learned THEN "catalog" ELSE "learned"

\* _first_decode.  OEM numbers are never decoded.
Decodable(ids, rules) ==
    {id \in ids : rules.decodes /\ Kind[id] # "oem" /\ Decoded[version][id].family # None}
FirstDecode(ids, rules) == Decoded[version][CHOOSE id \in Decodable(ids, rules) : TRUE]

\* _drive_model_attrs, and the agreement set of a family.
TargetAttr(t) ==
    LET known == {AttrOf[m] : m \in {m \in seeded : FamilyOf[m] = t.family}}
    IN  CASE t.model # None -> AttrOf[t.model]
          [] t.model = None /\ Cardinality(known) = 1 -> CHOOSE a \in known : TRUE
          [] OTHER -> None

\* identity_identifiers
Identifiers(ids, rules) ==
    {id \in ids : Kind[id] = "mpn" \/ Hits({id}) # {} \/ id \in Decodable(ids, rules)}

Differ(a, b) == a # None /\ b # None /\ a # b
VariantContradicted(x, t) ==
    t.cond # None /\ (Differ(x.cond, t.cond) \/ t.cond \in x.denied \/ (x.cond = None /\ x.denied # {}))
Asserted(x) == {x.cond} \ {None}
-----------------------------------------------------------------------------
(* The ladder.                                                             *)

\* Step(v), where v is worth computing once.
Then(v, Step(_)) == CHOOSE w \in {Step(u) : u \in {v}} : TRUE

About(ids) == LET mpns == {id \in ids : Kind[id] = "mpn"} IN IF mpns # {} THEN mpns ELSE ids
Review(v, reasons) ==
    [v EXCEPT !.outcome = "review", !.method = "", !.target = NoTarget, !.source = None,
              !.reasons = reasons]
Accept(v, rung, method, t, source) ==
    [v EXCEPT !.outcome = "accept", !.rung = rung, !.method = method, !.target = t, !.source = source]

\* Rung 0: inherit after running the veto again.
Inherit(v, x, prior) ==
    IF Differ(x.attr, TargetAttr(prior)) THEN Review([v EXCEPT !.rung = 0], {"veto"})
    ELSE Accept(v, 0, "source_alias", prior, None)

\* Rung 1: exact alias.
ExactAlias(v, x, hits) ==
    LET w == [v EXCEPT !.rung = 1]
        viable == {h \in hits : ~Differ(x.brand, BrandOf[h.target.family])}
        clean == {h \in viable : ~Differ(x.attr, TargetAttr(h.target))}
        targets == {h.target : h \in viable}
        only == CHOOSE t \in targets : TRUE
        families == {t.family : t \in targets}
    IN  CASE viable = {} -> Review(w, {"brand_contradicts_exact_alias"})
          [] Cardinality(targets) = 1 /\ clean = {} -> Review(w, {"veto"})
          [] Cardinality(targets) = 1 /\ clean # {} /\ x.brand = None
                /\ \A h \in viable : Kind[h.id] # "mpn" -> Review(w, {"no_brand_evidence"})
          [] Cardinality(targets) = 1 /\ clean # {}
                /\ (x.brand # None \/ \E h \in viable : Kind[h.id] = "mpn")
                -> Accept(w, 1, "exact_alias", only, Source(viable))
          [] Cardinality(targets) > 1 /\ Cardinality(families) = 1 /\ clean # {}
                /\ \A h \in viable : Kind[h.id] = "oem"
                -> Accept(w, 1, "exact_alias", [NoTarget EXCEPT !.family = only.family], Source(clean))
          [] OTHER -> Review(w, {"conflicting_targets"})

\* Rung 2: a grammar decode, to a provisional family.
GrammarDecode(v, x, rules) ==
    LET w == [v EXCEPT !.rung = 2]
        d == FirstDecode(x.ids, rules)
    IN  CASE Differ(x.brand, BrandOf[d.family]) -> Review(w, {"brand_contradicts_decode"})
          [] ~Differ(x.brand, BrandOf[d.family]) /\ Differ(x.attr, d.attr) -> Review(w, {"veto"})
          [] OTHER -> Accept(w, 2, "mpn_decode", [NoTarget EXCEPT !.family = d.family], None)

Rung(v, x, rules, prior) ==
    LET grounding == {h \in Hits(x.ids) : Kind[h.id] # "retail"}
    IN  CASE prior # NoTarget -> Inherit(v, x, prior)
          [] prior = NoTarget /\ grounding # {} -> ExactAlias(v, x, grounding)
          [] prior = NoTarget /\ grounding = {} /\ Decodable(x.ids, rules) # {}
                -> GrammarDecode(v, x, rules)
          [] OTHER -> v

\* What turns an accept at any rung into a review.
ModelsOf(id) == {h.target.model : h \in Hits({id})}
ConflictingAliasModels(ids) ==
    LET naming == {id \in ids : ModelsOf(id) # {}}
    IN  Cardinality(naming) > 1 /\ \A m \in Models : \E id \in naming : m \notin ModelsOf(id)
PriorModelNotNamed(ids, t) ==
    LET named == UNION {ModelsOf(id) : id \in ids}
    IN  t.model # None /\ named # {} /\ t.model \notin named
AcceptedAttr(v, x, rules) ==
    CASE v.rung = 2 -> FirstDecode(x.ids, rules).attr
      [] v.rung = 1 /\ v.target.model = None -> None      \* an OEM fan-out
      [] OTHER -> TargetAttr(v.target)
ReviewOnlyConflict(v, x, rules) ==
    \E h \in Hits(x.ids) :
        /\ Kind[h.id] = "retail" /\ h.target.model # v.target.model
        /\ \/ h.target.family # v.target.family
           \/ Differ(AttrOf[h.target.model], AcceptedAttr(v, x, rules))
DistinctMpns(ids) ==
    LET mpns == {id \in ids : Kind[id] = "mpn"}
    IN  Cardinality(mpns) > 1 /\ ~(/\ \A id \in mpns : ModelsOf(id) # {}
                                   /\ Cardinality(UNION {ModelsOf(id) : id \in mpns}) = 1)

Unambiguous(v, x, rules) ==
    LET ambiguity ==
            {reason \in {"conflicting_alias_models", "prior_model_not_named",
                         "review_only_alias_conflict", "lot", "multiple_mpns"} :
                CASE reason = "conflicting_alias_models" -> ConflictingAliasModels(x.ids)
                  [] reason = "prior_model_not_named" -> v.rung = 0 /\ PriorModelNotNamed(x.ids, v.target)
                  [] reason = "review_only_alias_conflict" -> ReviewOnlyConflict(v, x, rules)
                  [] reason = "lot" -> x.lot
                  [] reason = "multiple_mpns" -> rules.mpnGuard /\ DistinctMpns(x.ids)}
    IN  IF v.outcome = "accept" /\ ambiguity # {} THEN Review(v, ambiguity) ELSE v
Decide(x, rules, prior) ==
    Then(Rung([NoVerdict EXCEPT !.about = About(x.ids)], x, rules, prior),
         LAMBDA v : Unambiguous(v, x, rules))

\* _offer_contradiction_review
OfferConflictReview(v, x) ==
    IF v.outcome = "accept" /\ x.conflict THEN Review(v, {"offer_condition_conflict"}) ELSE v
OfferContradictionReview(v, x) ==
    CASE v.outcome = "accept" /\ x.conflict -> Review(v, {"offer_condition_conflict"})
      [] v.outcome = "accept" /\ ~x.conflict /\ v.rung # 0 /\ VariantContradicted(x, v.target)
            -> Review(v, {"variant_contradicted"})
      [] OTHER -> v

\* _apply_category_gates: foreign category, acceptance policy, auto-accept scope.
Authoritative(method, source, t) ==
    method = "exact_alias" /\ source = "catalog" /\ Grain(t) \in {"model", "variant"}
CategoryGates(v, category, rules) ==
    LET t == v.target
        foreign == v.rung # 2 /\ CategoryOf[t.family] # category
        trusted == IF v.rung = 0 THEN basis # None /\ Authoritative(basis.method, basis.source, t)
                   ELSE v.rung = 1 /\ Authoritative(v.method, v.source, t)
    IN  CASE v.outcome # "accept" -> v
          [] v.outcome = "accept" /\ foreign -> Review(v, {"cross_category"})
          [] v.outcome = "accept" /\ ~foreign /\ ~rules.policy -> [v EXCEPT !.source = None]
          [] v.outcome = "accept" /\ ~foreign /\ rules.policy /\ ~trusted
                -> Review(v, {"acceptance_policy"})
          [] v.outcome = "accept" /\ ~foreign /\ rules.policy /\ trusted /\ v.rung # 0 /\ ~rules.auto
                -> Review(v, {"auto_accept_disabled"})
          [] v.outcome = "accept" /\ ~foreign /\ rules.policy /\ trusted /\ (v.rung = 0 \/ rules.auto)
                /\ t.family \notin rules.ratified
                -> Review(v, {"family_not_ratified"})
          [] OTHER -> [v EXCEPT !.source = "catalog"]
-----------------------------------------------------------------------------
(* When an accepted prior is decided again instead of inherited.           *)

PriorReconsideration(x, rules) ==
    origin.version # version \/ origin.ids # Identifiers(x.ids, rules)
BrandForgiven(x, prior) == FALSE
BrandReconsideration(x, prior) == Differ(x.brand, BrandOf[prior.family])
OfferIgnored(x, rules, prior) == FALSE
OfferReconsideration(x, rules, prior) ==
    IF Grain(prior) = "variant" THEN VariantContradicted(x, prior)
    ELSE /\ Grain(prior) = "model" /\ rules.onDemand /\ x.cond # None
         /\ origin.asserted # Asserted(x)
Reconsidered(x, rules, prior) ==
    /\ prior # NoTarget /\ origin # None
    /\ \/ PriorReconsideration(x, rules)
       \/ BrandReconsideration(x, prior)
       \/ OfferReconsideration(x, rules, prior)

\* _run_ladder, on the listing as read and the category hint, catalog and edges
\* as they are now.
RunLadder(x, category, denorm, reconsider) ==
    IF category \notin DOMAIN Rules
    THEN [NoVerdict EXCEPT !.category = category, !.reasons = {"unsupported_category"}]
    ELSE LET rules == Rules[category]
             first == IF reconsider THEN NoTarget ELSE denorm
             again == Reconsidered(x, rules, first)
             prior == IF again THEN NoTarget ELSE first
             decided == Then(Decide(x, rules, prior), LAMBDA v : OfferContradictionReview(v, x))
         IN  [Then([decided EXCEPT !.ids = Identifiers(x.ids, rules)],
                   LAMBDA v : CategoryGates(v, category, rules))
                 EXCEPT !.category = category, !.again = again]
-----------------------------------------------------------------------------
(* The listing, the catalog and the program around the resolvers.          *)

\* Whether r's process may begin something: the poller's thread is free.
Free(r) ==
    /\ task[r].pc = "idle"
    /\ deployment.overlap \/ \A q \in Resolvers : task[q].pc = "idle"

\* Any change but its own makes a resolver's reading old.
Disturbed(but) ==
    [r \in Resolvers |-> IF r # but /\ task[r].pc \in {"read", "decided"}
                         THEN [task[r] EXCEPT !.quiet = FALSE] ELSE task[r]]

\* Collection persists what the seller now says (Collection).
Edit(t) ==
    /\ edits < MaxEdits /\ Free(Poller)
    /\ t # text
    /\ text' = t
    /\ edits' = edits + 1
    /\ task' = Disturbed(None)
    /\ UNCHANGED <<deployment, target, edge, origin, basis, seeded, learned, version, failures>>

\* A new release restarts every process.
Deploy ==
    /\ version < Versions
    /\ version' = version + 1
    /\ task' = [r \in Resolvers |-> IdleTask]
    /\ UNCHANGED <<deployment, text, target, edge, origin, basis, seeded, learned, edits, failures>>

\* run_refresh: import_documents in one transaction, all of it or, on a
\* conflict, nothing; either way the listings above model grain are looked up,
\* then reconsidered.
ImportDocuments ==
    /\ Free(Refresher)
    /\ \E new \in {{}, Models \ seeded} :
          /\ seeded' = seeded \union new
          /\ task' = [IF new = {} THEN task ELSE Disturbed(Refresher)
                        EXCEPT ![Refresher].pc = "imported"]
    /\ UNCHANGED <<deployment, text, target, edge, origin, basis, learned, version, edits, failures>>
FindPending ==
    /\ task[Refresher].pc = "imported"
    /\ task' = [task EXCEPT ![Refresher] =
                  IF Grain(target) \in {"none", "family"}
                  THEN [IdleTask EXCEPT !.pc = "queued", !.reconsider = TRUE] ELSE IdleTask]
    /\ UNCHANGED <<deployment, text, target, edge, origin, basis, seeded, learned, version, edits, failures>>

\* resolve_listing: the listing row is read first, without a lock.
Read(r) ==
    /\ IF r = Refresher THEN task[r].pc = "queued" ELSE Free(r)
    /\ task' = [task EXCEPT ![r].pc = "read", ![r].text = text, ![r].prior = target, ![r].quiet = TRUE]
    /\ UNCHANGED <<deployment, text, target, edge, origin, basis, seeded, learned, version, edits, failures>>

ErrorVerdict(e) == [NoVerdict EXCEPT !.error = e]
RunsLadder(r) ==
    /\ task[r].pc = "read"
    /\ task' = [task EXCEPT ![r].pc = "decided", ![r].prior = NoTarget,
                  ![r].verdict = RunLadder(task[r].text, text.category, task[r].prior, task[r].reconsider)]
    /\ UNCHANGED <<deployment, text, target, edge, origin, basis, seeded, learned, version, edits, failures>>
LadderCrashes(r) ==
    /\ task[r].pc = "read" /\ failures < deployment.failures
    /\ task' = [task EXCEPT ![r].pc = "decided", ![r].prior = NoTarget, ![r].verdict = ErrorVerdict("ladder")]
    /\ failures' = failures + 1
    /\ UNCHANGED <<deployment, text, target, edge, origin, basis, seeded, learned, version, edits>>

\* A failed apply is rolled back; its error is recorded in a transaction of its
\* own, and when that fails too nothing is.
ApplyFails(r) ==
    /\ task[r].pc = "decided" /\ failures < deployment.failures
    /\ task' = [task EXCEPT ![r] = IF task[r].fallback THEN IdleTask
                                  ELSE [task[r] EXCEPT !.verdict = ErrorVerdict("apply"), !.fallback = TRUE]]
    /\ failures' = failures + 1
    /\ UNCHANGED <<deployment, text, target, edge, origin, basis, seeded, learned, version, edits>>
-----------------------------------------------------------------------------
(* _apply, under the lock of the listing and of its current edge.          *)

Clean == edge # NoEdge /\ edge.error = ""
CategoryChanged(v) == Clean /\ v.error = "" /\ edge.category # v.category
AcceptOverError(v) == v.outcome = "accept" /\ v.rung = 0 /\ edge # NoEdge
UnchangedAccept(v) == v.outcome = "accept" /\ v.rung = 0 /\ Clean
UnchangedMiss(v) ==
    /\ v.outcome # "accept" /\ v.error = ""
    /\ Clean /\ Grain(edge.target) = "none" /\ edge.outcome = v.outcome
    /\ edge.reasons = v.reasons /\ edge.about = v.about
UnchangedError(v) == v.error # "" /\ edge # NoEdge /\ edge.error = v.error

\* _materialize: a model in a known condition becomes a variant.
Materialize(v, x) ==
    IF v.outcome = "accept" /\ Grain(v.target) = "model" /\ Rules[v.category].onDemand
    THEN [v.target EXCEPT !.cond = x.cond] ELSE v.target
SameAccept(v, t) ==
    v.outcome = "accept" /\ Clean /\ ~CategoryChanged(v) /\ ~v.again /\ edge.target = t

LearnedAliases(ids, model) ==
    IF model # None /\ \E id \in ids : Kind[id] = "mpn"
    THEN {id \in ids : Kind[id] = "oem"} \X {model} ELSE {}

WriteEdge(v, x, t) ==
    /\ edge' = [outcome |-> v.outcome, error |-> v.error, target |-> t, category |-> v.category,
                reasons |-> v.reasons, about |-> v.about, serial |-> ~edge.serial]
    /\ target' = IF v.error # "" THEN target ELSE t
    /\ origin' = IF v.outcome = "accept" /\ v.rung # 0
                 THEN [version |-> version, ids |-> v.ids, target |-> t,
                       asserted |-> IF Grain(t) = "family" THEN {} ELSE Asserted(x)]
                 ELSE origin
    /\ basis' = CASE v.outcome # "accept" -> basis
                  [] v.outcome = "accept" /\ v.rung = 0 ->
                        [method |-> IF Rules[v.category].policy THEN basis.method ELSE "source_alias",
                         source |-> v.source]
                  [] OTHER -> [method |-> v.method, source |-> v.source]
    /\ learned' = IF v.outcome = "accept" THEN learned \union LearnedAliases(x.ids, t.model) ELSE learned

Apply(r) ==
    LET v == task[r].verdict
        x == task[r].text
        t == Materialize(v, x)
    IN  /\ task[r].pc = "decided"
        /\ \/ /\ \/ UnchangedAccept(v) /\ ~CategoryChanged(v)
                 \/ UnchangedMiss(v) /\ ~CategoryChanged(v)
                 \/ UnchangedError(v)
                 \/ SameAccept(v, t)
              /\ UNCHANGED <<edge, target, origin, basis, learned>>
              /\ task' = [task EXCEPT ![r] = IdleTask]
           \/ /\ ~(UnchangedAccept(v) /\ ~CategoryChanged(v))
              /\ ~(UnchangedMiss(v) /\ ~CategoryChanged(v))
              /\ ~UnchangedError(v) /\ ~SameAccept(v, t)
              /\ WriteEdge(v, x, t)
              /\ task' = [Disturbed(r) EXCEPT ![r] = IdleTask]
        /\ UNCHANGED <<deployment, text, seeded, version, edits, failures>>

ResolutionNext ==
    \/ \E t \in Texts : Edit(t)
    \/ Deploy \/ ImportDocuments \/ FindPending
    \/ \E r \in Resolvers : Read(r) \/ RunsLadder(r) \/ LadderCrashes(r) \/ ApplyFails(r) \/ Apply(r)

\* Every source is polled again and again and the refresh is a scheduled job; the
\* poller's thread serves its callers in turn.
Resolve(r) == Read(r) \/ RunsLadder(r) \/ Apply(r)
Refresh == ImportDocuments \/ FindPending \/ Resolve(Refresher)
ResolutionFairness == SF_resolutionVars(Refresh) /\ SF_resolutionVars(Resolve(Poller))

ResolutionSpec == ResolutionInit /\ [][ResolutionNext]_resolutionVars /\ ResolutionFairness
-----------------------------------------------------------------------------
(* What makes it correct.                                                  *)

\* An accepted product fits what the listing says: its category, brand, hard
\* attributes and condition and one unit of it; some identifier names it, and
\* some model is named by all that name any.  Of a family the attribute is the
\* one its seeded models agree on, or the part number's own (Inherit and
\* GrammarDecode differ).
Decodes(x, f) == {id \in Decodable(x.ids, Rules[x.category]) : Decoded[version][id].family = f}
Agrees(x, t) ==
    /\ x.category \in DOMAIN Rules /\ CategoryOf[t.family] = x.category
    /\ ~x.lot /\ ~x.conflict
    /\ ~Differ(x.brand, BrandOf[t.family])
    /\ \/ ~Differ(x.attr, TargetAttr(t))
       \/ t.model = None /\ \E id \in Decodes(x, t.family) : ~Differ(x.attr, Decoded[version][id].attr)
    /\ ~VariantContradicted(x, t)
    /\ IF t.model = None
       THEN Decodes(x, t.family) # {} \/ \E id \in x.ids : \E m \in ModelsOf(id) : FamilyOf[m] = t.family
       ELSE /\ \E id \in x.ids : t.model \in ModelsOf(id)
            /\ \E m \in Models : \A id \in x.ids : ModelsOf(id) = {} \/ m \in ModelsOf(id)

\* Where no refresh by hand overlaps, the accepted product is the one the newest
\* decision chose, whichever resolutions fail: no fresh decision sits between the
\* origin and the edges that inherit from it (_automated_origin).
OriginDecidedTarget ==
    ~deployment.overlap /\ target # NoTarget => origin # None /\ origin.target = target

\* A resolution nothing interfered with, polled or reconsidered, inherited or
\* decided afresh, leaves a product that fits the listing, or none; on one thread
\* the history of the listing does not matter (_run_ladder, _apply).
QuietResolveAgrees ==
    [][\A r \in Resolvers :
          (task[r].pc = "decided" /\ task[r].quiet /\ task[r].verdict.error = "" /\ Apply(r))
             => (target' = NoTarget \/ Agrees(text, target'))]_resolutionVars

\* A listing on which the rungs differ for ever: no alias names it, and its
\* attribute fits the part number's decode, which rung 2 asks, but not the one
\* the family's seeded models agree on, which rung 0 asks of the family once it is
\* accepted (_veto_for_decode, _veto).  It alternates between the family and none
\* until such a sibling, or the part number itself, is seeded.
DecodeDividesRungs(x) ==
    /\ x.category \in DOMAIN Rules
    /\ \A h \in Hits(x.ids) : Kind[h.id] = "retail"
    /\ \E id \in Decodable(x.ids, Rules[x.category]) :
          LET d == Decoded[version][id]
          IN  /\ ~Differ(x.attr, d.attr)
              /\ Differ(x.attr, TargetAttr([NoTarget EXCEPT !.family = d.family]))

\* Once edits and failures stop, the listing converges, unless its decode divides
\* the rungs: whatever stale verdict was applied last, its current edge is no
\* error, its product fits, and it is the model a listing first seen now would be
\* given (run_refresh, _apply).
Upgraded(fresh) ==
    fresh.outcome = "accept" => /\ target.family = fresh.target.family
                                /\ fresh.target.model \in {None, target.model}
Settled ==
    /\ Clean
    /\ target # NoTarget => Agrees(text, target)
    /\ Then(RunLadder(text, text.category, NoTarget, FALSE), Upgraded)
Converges == <>[](Settled \/ DecodeDividesRungs(text))

\* Polling an unchanged listing does not go on writing edges (_apply's skips,
\* _prior_reconsideration's record of what was decided), unless its decode divides
\* the rungs: then it does, against the skips' own comment.
NoFlapping ==
    <>[][edge'.serial = edge.serial \/ DecodeDividesRungs(text)]_resolutionVars
=============================================================================
