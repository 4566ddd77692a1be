---------------------------- MODULE MCEligibility ----------------------------
(* One listing, two models of one family, and what a watch may ask of them.  *)
EXTENDS Eligibility

CONSTANTS A, B, F

MCFamilyOf == [m \in {A, B} |-> F]
MCCatalog(a, b) == [m \in {A, B} |-> IF m = A THEN a ELSE b]
MCCatalog0 == MCCatalog(2, Gone)
MCCatalogs == {MCCatalog(2, 1), MCCatalog(Absent, 2)}

PlainTitle == [attr |-> None, sure |-> FALSE, cond |-> "new", count |-> None, countSure |-> FALSE,
               lock |-> None]
Plain == [title |-> PlainTitle, intl |-> FALSE, item |-> 4, shipping |-> 1, fx |-> TRUE,
          stock |-> "in_stock", category |-> "drive"]
MCOffers == {
    [Plain EXCEPT !.item = 8, !.title.count = 2, !.title.countSure = TRUE, !.title.lock = "unlocked"],
    [Plain EXCEPT !.item = 8, !.title.count = 2, !.title.cond = None, !.stock = "unknown"],
    [Plain EXCEPT !.shipping = None, !.title.lock = "locked"],
    [Plain EXCEPT !.title.attr = 1, !.title.sure = TRUE, !.title.cond = "used", !.fx = FALSE, !.intl = TRUE],
    [Plain EXCEPT !.category = "gpu"]}
MCSpecs == {
    [watch |-> [AnyOffer EXCEPT !.max = 5], satellite |-> [min |-> 2, unlocked |-> FALSE]],
    [watch |-> [AnyOffer EXCEPT !.conds = {"new"}, !.inStock = TRUE, !.model = A],
     satellite |-> [min |-> None, unlocked |-> TRUE]],
    [watch |-> [AnyOffer EXCEPT !.max = 5, !.family = F, !.intl = FALSE],
     satellite |-> [min |-> 1, unlocked |-> FALSE]]}
Few == {Plain, CHOOSE o \in MCOffers : o.title.attr = 1}
OneSpec == {CHOOSE s \in MCSpecs : s.satellite.min = 2}
OneCatalog == {MCCatalog(2, 1)}
=============================================================================
