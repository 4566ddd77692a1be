----------------------------- MODULE Eligibility -----------------------------
(***************************************************************************)
(* Whether one listing meets one saved watch.  Collection runs observe the *)
(* listing, resolve it and evaluate it, a catalog edit changes a spec, the *)
(* owner saves requirements and may evaluate by hand.  An evaluation is    *)
(* stored with the inputs it was made on, and nobody invalidates it: the   *)
(* shortlist compares those inputs with the live ones when it is read.     *)
(*                                                                         *)
(* Every product clause of every category is a comparison of one attribute *)
(* and they are one clause here; the soft price target is never read by an *)
(* evaluation and is left out, and so is the evaluator's own version.      *)
(***************************************************************************)
EXTENDS Integers, FiniteSets, FiniteSetsExt

CONSTANTS
    None, Gone, Absent,   \* no value; no such model; a model without a spec row
    Models, Families, FamilyOf, Attrs,
    Offers,        \* what an observation of the listing may say
    Specs,         \* of a watch: its offer part and its requirement satellite
    WatchCategory,
    Catalog0, Catalogs,   \* spec rows the catalog holds at first, and after an edit
    Scopes, Lanes,
    TTL, MaxTime, MaxEdges, MaxSaves, MaxCatalogEdits

Locks == {"locked", "unlocked"}
Title == [attr: Attrs \union {None}, sure: BOOLEAN, cond: STRING \union {None},
          count: Nat \union {None}, countSure: BOOLEAN, lock: Locks \union {None}]
Offer == [title: Title, intl: BOOLEAN, item: Nat, shipping: Nat \union {None}, fx: BOOLEAN,
          stock: {"in_stock", "out_of_stock", "preorder", "unknown"}, category: STRING]
Watch == [max: Nat \union {None}, conds: SUBSET STRING, inStock: BOOLEAN, intl: BOOLEAN,
          family: Families \union {None}, model: Models \union {None}]
Satellite == [min: Attrs \union {None}, unlocked: BOOLEAN]

\* What the requirement specs refuse to be built with.
WellFormed(s) == /\ s.watch.family = None \/ s.watch.model = None
                 /\ "unknown" \notin s.watch.conds

ASSUME EligibilityAssumption ==
    /\ \A o \in Offers : o \in Offer /\ o.title.count # 0
    /\ \A s \in Specs : s.watch \in Watch /\ s.satellite \in Satellite /\ WellFormed(s)
    /\ Attrs \subseteq Int /\ FamilyOf \in [Models -> Families] /\ IsFiniteSet(Models)
    /\ Catalogs \union {Catalog0} \subseteq [Models -> Attrs \union {None, Gone, Absent}]
    /\ {TTL, MaxTime, MaxEdges, MaxSaves, MaxCatalogEdits} \subseteq Nat
    /\ None \notin [offer : Offers, expires : Int] \union Satellite \union Offer
    /\ None \notin Int \union Models \union Families \union Locks
    /\ {Gone, Absent} \intersect Attrs = {}

VARIABLES
    now,
    listing,    \* Listing: what it says and when it was last seen, absent and kept until
    snaps,      \* OfferSnapshot by time
    swept,      \* newest complete sweep, by scope
    edge,       \* the current ListingResolution, and whether it was decided on this title
    catalog,    \* the typed spec of each model
    watch,      \* Watch and its version
    satellite,  \* the requirement satellite, None before the first save
    row,        \* WatchEvaluation
    stage,      \* what each lane's collection run has done to the listing
    job,        \* the evaluation that holds the listing's lock
    saves, catalogEdits

vars == <<now, listing, snaps, swept, edge, catalog, watch, satellite, row, stage, job, saves, catalogEdits>>
-----------------------------------------------------------------------------
Times == 1..MaxTime
NoEdge == [id |-> 0, grain |-> "none", family |-> None, model |-> None, fresh |-> FALSE]
Targets == {[grain |-> "none", family |-> None, model |-> None]}
           \union {[grain |-> "family", family |-> f, model |-> None] : f \in Families}
           \union {[grain |-> "model", family |-> FamilyOf[m], model |-> m] : m \in Models}
AnyOffer == [max |-> None, conds |-> {}, inStock |-> FALSE, intl |-> TRUE, family |-> None, model |-> None]
IdleJob == [pc |-> "idle"]
Command == "evaluate_watches"
Verdicts == {"match", "no_match", "unknown"}

TypeOK ==
    /\ now \in Times
    /\ listing.at \in 1..now /\ listing.absence \in 0..now /\ listing.scope \in Scopes
    /\ listing.expires <= listing.at + TTL
    /\ \A t \in Times : snaps[t] # None => t <= now /\ snaps[t].expires <= t + TTL
    /\ edge.id \in 0..MaxEdges
    /\ watch.version \in 1..(saves + 1) /\ saves <= MaxSaves
    /\ row # None => /\ row.verdict \in Verdicts /\ row.version <= watch.version
                     /\ row.edge <= edge.id /\ row.inputs.category = WatchCategory
    /\ job.pc \in {"idle", "locked", "watch"}
    /\ \A l \in Lanes : stage[l] \in {"idle", "persisted", "resolved"}

Init ==
    /\ now \in Times
    /\ \E o \in Offers, s \in Scopes :
          /\ listing = [offer |-> o, at |-> now, absence |-> 0, ended |-> FALSE, scope |-> s, expires |-> now + TTL]
          /\ snaps = [t \in Times |-> IF t = now THEN [offer |-> o, expires |-> now + TTL] ELSE None]
    /\ swept = [s \in Scopes |-> 0] /\ edge = NoEdge
    /\ catalog = Catalog0
    /\ watch = [spec |-> AnyOffer, version |-> 1] /\ satellite = None
    /\ row = None /\ job = IdleJob
    /\ stage = [l \in Lanes |-> "idle"] /\ saves = 0 /\ catalogEdits = 0

Free == job.pc = "idle"     \* the listing's row lock
Active == ~listing.ended /\ listing.expires > now
Newest == LET taken == {t \in Times : snaps[t] # None} IN IF taken = {} THEN 0 ELSE Max(taken)
NewestOffer == IF Newest = 0 THEN None ELSE snaps[Newest].offer
-----------------------------------------------------------------------------
(* Collection, as far as an evaluation can tell (Collection, Resolution).  *)

\* observe_listing: an observation from a run that may be late, or one read again.
EligibleNow(at, s) == at >= listing.at /\ at >= listing.absence /\ at >= swept[s]
\* The same batch again: it says the same, and nobody missed it at that instant.
Reread(o, at) == o = snaps[at].offer /\ at # listing.absence
LateExpiry(at) == Min({at + TTL, listing.absence})
Persist(l, o, at, s) ==
    /\ stage[l] = "idle" /\ Free
    /\ at <= now
    /\ snaps[at] # None => Reread(o, at)
    /\ LET late == ~EligibleNow(at, s) /\ listing.absence > at
           expires == IF late THEN LateExpiry(at) ELSE at + TTL
       IN  snaps' = IF snaps[at] # None \/ (late /\ expires <= now) THEN snaps
                    ELSE [snaps EXCEPT ![at] = [offer |-> o, expires |-> expires]]
    /\ listing' = IF EligibleNow(at, s)
                  THEN [listing EXCEPT !.offer = o, !.at = at, !.ended = FALSE, !.scope = s, !.expires = at + TTL]
                  ELSE listing
    /\ edge' = [edge EXCEPT !.fresh = @ /\ listing'.offer.title = listing.offer.title]
    /\ stage' = [stage EXCEPT ![l] = "persisted"]
    /\ UNCHANGED <<now, swept, catalog, watch, satellite, row, job, saves, catalogEdits>>

\* A complete sweep of a scope that did not see the listing (mark_delisted).
RowLeftAlone(t) == row   \* mutant
RowDelisted(t) == IF row # None /\ row.expires > t THEN [row EXCEPT !.expires = t] ELSE row
Sweep(s, t) ==
    /\ Free /\ t <= now /\ t > swept[s]
    /\ swept' = [swept EXCEPT ![s] = t]
    /\ IF listing.scope = s /\ ~listing.ended /\ listing.at <= t
       THEN /\ listing' = [listing EXCEPT !.ended = TRUE, !.absence = Max({@, t}), !.expires = Min({@, t})]
            /\ snaps' = [u \in Times |-> IF snaps[u] # None /\ snaps[u].expires > t
                                         THEN [snaps[u] EXCEPT !.expires = t] ELSE snaps[u]]
            /\ row' = RowDelisted(t)
       ELSE UNCHANGED <<listing, snaps, row>>
    /\ UNCHANGED <<now, edge, catalog, watch, satellite, stage, job, saves, catalogEdits>>

\* resolve_listing keeps its edge or writes the next one.
Resolved ==
    \/ edge.id > 0 /\ edge' = [edge EXCEPT !.fresh = TRUE]
    \/ /\ edge.id < MaxEdges
       /\ \E t \in Targets : edge' = [id |-> edge.id + 1, grain |-> t.grain, family |-> t.family,
                                      model |-> t.model, fresh |-> TRUE]
Resolve(l) ==
    /\ stage[l] = "persisted" /\ Free
    /\ Resolved
    /\ stage' = [stage EXCEPT ![l] = "resolved"]
    /\ UNCHANGED <<now, listing, snaps, swept, catalog, watch, satellite, row, job, saves, catalogEdits>>

\* A run whose resolver raised does not evaluate; so does one that is cut short.
GiveUp(l) ==
    /\ stage[l] # "idle"
    /\ stage' = [stage EXCEPT ![l] = "idle"]
    /\ UNCHANGED <<now, listing, snaps, swept, edge, catalog, watch, satellite, row, job, saves, catalogEdits>>

\* A catalog import or an edit in the admin.
EditCatalog(c) ==
    /\ catalogEdits < MaxCatalogEdits /\ c # catalog
    /\ catalog' = c
    /\ catalogEdits' = catalogEdits + 1
    /\ UNCHANGED <<now, listing, snaps, swept, edge, watch, satellite, row, stage, job, saves>>

\* purge_expired
Purge ==
    /\ snaps' = [t \in Times |-> IF snaps[t] # None /\ snaps[t].expires <= now THEN None ELSE snaps[t]]
    /\ row' = IF row # None /\ row.expires <= now THEN None ELSE row
    /\ <<snaps', row'>> # <<snaps, row>>
    /\ UNCHANGED <<now, listing, swept, edge, catalog, watch, satellite, stage, job, saves, catalogEdits>>

Tick ==
    /\ now < MaxTime
    /\ now' = now + 1
    /\ UNCHANGED <<listing, snaps, swept, edge, catalog, watch, satellite, row, stage, job, saves, catalogEdits>>

\* save_requirement: watch and satellite in one transaction under the watch's
\* lock; a target outside the watch's category is refused.
SaveRequirement(s) ==
    /\ saves < MaxSaves
    /\ s.watch # watch.spec \/ s.satellite # satellite
    /\ watch' = [spec |-> s.watch, version |-> watch.version + 1]
    /\ satellite' = s.satellite
    /\ saves' = saves + 1
    /\ UNCHANGED <<now, listing, snaps, swept, edge, catalog, row, stage, job, catalogEdits>>
-----------------------------------------------------------------------------
(* The clauses.                                                            *)

AllOf(outcomes) ==
    CASE "no_match" \in outcomes -> "no_match"
      [] "no_match" \notin outcomes /\ "unknown" \in outcomes -> "unknown"
      [] OTHER -> "match"
Judged(ok) == IF ok THEN "match" ELSE "no_match"

\* What the catalog says of the product: at family grain, what all members agree on.
Known(inputs) ==
    LET values == {inputs.members[m] : m \in DOMAIN inputs.members}
    IN  IF Cardinality(values) = 1 /\ values # {Absent} THEN CHOOSE v \in values : TRUE ELSE None

\* product_outcome: only the catalog can satisfy, a confident title can refute.
AttributeClause(min, known, title) ==
    CASE min = None -> "match"
      [] min # None /\ known # None /\ known < min -> "no_match"
      [] min # None /\ (known = None \/ known >= min) /\ title.attr # None /\ title.sure
            /\ title.attr < min -> "no_match"
      [] min # None /\ known # None /\ known >= min
            /\ (title.attr = None \/ ~title.sure \/ title.attr >= min) -> "match"
      [] OTHER -> "unknown"
VendorLockClause(unlocked, title) ==
    IF ~unlocked THEN "match"
    ELSE CASE title.lock = "unlocked" -> "match" [] title.lock = "locked" -> "no_match" [] OTHER -> "unknown"
ProductClauses(sat, inputs, title) ==
    IF sat = None THEN {"unknown"}
    ELSE {AttributeClause(sat.min, Known(inputs), title), VendorLockClause(sat.unlocked, title)}

TargetClause(w, inputs) ==
    CASE w.family = None /\ w.model = None -> "match"
      [] inputs.grain = "none" /\ (w.family # None \/ w.model # None) -> "unknown"
      [] inputs.grain # "none" /\ w.model # None ->
            IF inputs.grain = "family" THEN "unknown" ELSE Judged(inputs.model = w.model)
      [] inputs.grain # "none" /\ w.family # None ->
            IF inputs.family = None THEN "unknown" ELSE Judged(inputs.family = w.family)

\* The stated price is a lower bound without shipping, and an upper bound of the
\* unit price while the count is in doubt.
Price(offer) == offer.item + IF offer.shipping = None THEN 0 ELSE offer.shipping
PriceWithin(max, offer, title) ==
    Price(offer) <= max * IF title.count # None /\ title.countSure THEN title.count ELSE 1
\* mutants: what is unknown is taken for the stated value
PriceAsStated(max, offer, title) ==
    CASE max = None -> "match"
      [] max # None /\ (offer = None \/ (offer # None /\ ~offer.fx)) -> "unknown"
      [] OTHER -> Judged(PriceWithin(max, offer, title))
PriceClause(max, offer, title) ==
    CASE max = None -> "match"
      [] max # None /\ (offer = None \/ (offer # None /\ ~offer.fx)) -> "unknown"
      [] max # None /\ offer # None /\ offer.fx /\ PriceWithin(max, offer, title) ->
            IF offer.shipping # None THEN "match" ELSE "unknown"
      [] max # None /\ offer # None /\ offer.fx /\ ~PriceWithin(max, offer, title) ->
            IF title.count # None /\ ~title.countSure THEN "unknown" ELSE "no_match"
ConditionClause(conds, title) ==
    CASE conds = {} -> "match"
      [] conds # {} /\ title.cond \in {None, "unknown"} -> "unknown"
      [] OTHER -> Judged(title.cond \in conds)
StockClause(inStock, offer) ==
    CASE ~inStock -> "match"
      [] inStock /\ (offer = None \/ (offer # None /\ offer.stock = "unknown")) -> "unknown"
      [] OTHER -> Judged(offer.stock = "in_stock")
InternationalClause(allowed, intl) == Judged(allowed \/ ~intl)
OfferClauses(w, offer, said) ==
    {PriceClause(w.max, offer, said.title), ConditionClause(w.conds, said.title),
     StockClause(w.inStock, offer), InternationalClause(w.intl, said.intl)}

\* said: the listing row; offer: its newest snapshot.
Verdict(w, sat, inputs, said, offer) ==
    AllOf({TargetClause(w, inputs)} \union ProductClauses(sat, inputs, said.title)
          \union OfferClauses(w, offer, said))
-----------------------------------------------------------------------------
(* evaluate_listing.                                                       *)

\* _gather, whose members and spec rows are two queries.
Members(e) ==
    CASE e.grain = "family" -> {m \in Models : FamilyOf[m] = e.family /\ catalog[m] # Gone}
      [] e.grain = "model" -> {e.model}
      [] OTHER -> {}
SpecOf(m) == IF catalog[m] = Gone THEN Absent ELSE catalog[m]
CategoryOf(offer) == IF offer = None THEN WatchCategory ELSE offer.category
Inputs(category, e, members) ==
    [category |-> category, grain |-> e.grain, family |-> e.family, model |-> e.model,
     members |-> [m \in members |-> SpecOf(m)]]

\* A run evaluates after it resolved, the command whenever it is started.
Ready(c) == c = Command \/ (c \in Lanes /\ stage[c] = "resolved")
Done(c) == IF c = Command THEN stage ELSE [stage EXCEPT ![c] = "idle"]

\* A delisted or expired listing is skipped; a malformed category hint raises;
\* a category without a watch writes nothing.
Skip(c) ==
    /\ c \in Lanes /\ Ready(c) /\ Free
    /\ ~Active \/ CategoryOf(NewestOffer) # WatchCategory
    /\ stage' = Done(c)
    /\ UNCHANGED <<now, listing, snaps, swept, edge, catalog, watch, satellite, row, job, saves, catalogEdits>>
LockListing(c) ==
    /\ Ready(c) /\ Free
    /\ Active /\ CategoryOf(NewestOffer) = WatchCategory
    /\ job' = [pc |-> "locked", caller |-> c, snap |-> Newest, offer |-> NewestOffer,
               members |-> Members(edge)]
    /\ UNCHANGED <<now, listing, snaps, swept, edge, catalog, watch, satellite, row, stage, saves, catalogEdits>>
\* The spec rows, then the watch: no step of anybody's touches both.
ReadWatch ==
    /\ job.pc = "locked"
    /\ job' = [pc |-> "watch", caller |-> job.caller, snap |-> job.snap, offer |-> job.offer,
               inputs |-> Inputs(WatchCategory, edge, job.members), watch |-> watch]
    /\ UNCHANGED <<now, listing, snaps, swept, edge, catalog, watch, satellite, row, stage, saves, catalogEdits>>
VersionNow == watch.version
VersionRead == job.watch.version
\* The satellite, the verdict and the row.
WriteRow ==
    /\ job.pc = "watch"
    /\ row' = [verdict |-> Verdict(job.watch.spec, satellite, job.inputs, listing.offer, job.offer),
               version |-> VersionRead, edge |-> edge.id, snap |-> job.snap, inputs |-> job.inputs,
               expires |-> listing.expires]
    /\ stage' = Done(job.caller) /\ job' = IdleJob
    /\ UNCHANGED <<now, listing, snaps, swept, edge, catalog, watch, satellite, saves, catalogEdits>>

\* The evaluation's process dies or a query fails: its transaction is rolled back.
Abandon ==
    /\ job.pc # "idle"
    /\ stage' = Done(job.caller) /\ job' = IdleJob
    /\ UNCHANGED <<now, listing, snaps, swept, edge, catalog, watch, satellite, row, saves, catalogEdits>>

Next ==
    \/ \E l \in Lanes : \/ \E o \in Offers, at \in Times, s \in Scopes : Persist(l, o, at, s)
                        \/ Resolve(l) \/ GiveUp(l)
    \/ \E s \in Scopes, t \in Times : Sweep(s, t)
    \/ \E c \in Catalogs : EditCatalog(c)
    \/ \E s \in Specs : SaveRequirement(s)
    \/ \E c \in Lanes \union {Command} : Skip(c) \/ LockListing(c)
    \/ Purge \/ Tick
    \/ ReadWatch \/ WriteRow \/ Abandon

Spec == Init /\ [][Next]_vars
-----------------------------------------------------------------------------
(* The read model.                                                         *)

\* live_inputs, binding_for, row_currency
LiveInputs == Inputs(CategoryOf(NewestOffer), edge, Members(edge))
Current ==
    /\ row # None
    /\ <<row.snap, row.edge, row.version, row.inputs>> = <<Newest, edge.id, watch.version, LiveInputs>>
Shortlisted == Active /\ Current /\ row.verdict = "match"

\* What the unit on offer may really be, as far as the listing and the catalog
\* tell: its model, attribute, shipping cost, count, condition, stock and lock.
Candidate ==
    LET members == DOMAIN LiveInputs.members
        title == listing.offer.title
        models == IF members # {} THEN members
                  ELSE {m \in Models : LiveInputs.family \in {None, FamilyOf[m]}}
        attrs(m) == IF members = {} \/ LiveInputs.members[m] \in {None, Absent} THEN Attrs
                    ELSE {LiveInputs.members[m]}
    IN  UNION {{u \in [model: {m}, attr: attrs(m)] :
                  title.attr # None /\ title.sure => u.attr = title.attr} : m \in models}
MeetsProduct(u) ==
    /\ watch.spec.model \in {None, u.model}
    /\ watch.spec.family \in {None, FamilyOf[u.model]}
    /\ satellite.min = None \/ u.attr >= satellite.min
UnitCost(shipping, count) == <<NewestOffer.item + shipping, count>>
Costs ==
    LET title == listing.offer.title
        shippings == IF NewestOffer.shipping = None THEN 0..(2 * NewestOffer.item) ELSE {NewestOffer.shipping}
        counts == CASE title.count = None -> {1} [] title.count # None /\ title.countSure -> {title.count}
                    [] OTHER -> 1..(2 * title.count)
    IN  {UnitCost(s, n) : s \in shippings, n \in counts}
MeetsPrice(c) == watch.spec.max = None \/ c[1] <= watch.spec.max * c[2]
Among(value, unknown, open, good) == value \in good \/ (open /\ value \in unknown)
MeetsTerms(open) ==    \* open: an unknown term may yet be met
    /\ watch.spec.conds # {} => Among(listing.offer.title.cond, {None, "unknown"}, open, watch.spec.conds)
    /\ watch.spec.inStock => IF NewestOffer = None THEN open
                             ELSE Among(NewestOffer.stock, {"unknown"}, open, {"in_stock"})
    /\ watch.spec.intl \/ ~listing.offer.intl
    /\ satellite.unlocked => Among(listing.offer.title.lock, {None}, open, {"unlocked"})
Priced == NewestOffer # None /\ NewestOffer.fx

\* An evaluation the read model calls current says what an evaluation made now
\* would say: whatever changed since, it changed the binding as well
\* (WatchEvaluation's docstring).  True of a source that searches one scope; with
\* two see the configuration EligibilityScopes.
CurrentIsRight ==
    Active /\ Current
        => row.verdict = Verdict(watch.spec, satellite, LiveInputs, listing.offer, NewestOffer)

\* A shortlisted listing meets the requirement whatever the unknown facts turn
\* out to be: any member of the family, any shipping cost, any count in doubt
\* (aggregate and the clauses: unknown never counts as match).
MatchIsProven ==
    Shortlisted => /\ satellite # None /\ MeetsTerms(FALSE)
                   /\ \A u \in Candidate : MeetsProduct(u)
                   /\ watch.spec.max # None => Priced /\ \A c \in Costs : MeetsPrice(c)

\* A listing is only dismissed when no completion of the unknown facts would
\* meet the requirement; what might still match stays in the review queue.
NoMatchIsProven ==
    Active /\ Current /\ row.verdict = "no_match" /\ satellite # None
        => ~(/\ MeetsTerms(TRUE)
             /\ \E u \in Candidate : MeetsProduct(u)
             /\ ~Priced \/ \E c \in Costs : MeetsPrice(c))

\* A verdict shown to the owner rests on what is known alone, either way (with
\* one scope: what is shown must first be current).
VerdictIsProven == MatchIsProven /\ NoMatchIsProven

\* An evaluation quotes prices, so it is kept no longer than the snapshot it was
\* made from: it goes first or with it, delisted or not (mark_delisted), where
\* the source searches one scope.
KeptNoLonger ==
    row # None /\ row.snap # 0 =>
        IF snaps[row.snap] = None THEN row.expires <= now ELSE row.expires <= snaps[row.snap].expires

\* When no run is at work, a shortlisted product was resolved from what the listing
\* says now: a run whose resolver raised leaves its rows pending (_evaluate_all).
ResolvedFromThis ==
    Shortlisted /\ edge.grain # "none" /\ (\A l \in Lanes : stage[l] = "idle") => edge.fresh
=============================================================================
