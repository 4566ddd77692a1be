---------------------------- MODULE MCResolution ----------------------------
(* Resolution of a listing of two drives, a CPU and a category without rules. *)
EXTENDS Resolution

CONSTANTS A, B, G, F, D, H

MCIds == {"mpnA", "mpnB", "newA", "oem", "code", "retailB", "mpnG", "fan"}
MCKind == [id \in MCIds |-> CASE id \in {"mpnA", "mpnB", "newA", "mpnG"} -> "mpn"
                              [] id \in {"oem", "fan"} -> "oem" [] id = "code" -> "code" [] OTHER -> "retail"]
MCFamilyOf == [m \in {A, B, G} |-> IF m = G THEN H ELSE F]
MCAttrOf == [m \in {A, B, G} |-> CASE m = A -> 1 [] m = B -> 2 [] OTHER -> None]
MCBrandOf == [f \in {F, D, H} |-> IF f = H THEN "other" ELSE "maker"]
MCCategoryOf == [f \in {F, D, H} |-> IF f = H THEN "cpu" ELSE "drive"]
Alias(id, m, c) == [id |-> id, model |-> m, cond |-> c]
MCAliases == {Alias("mpnA", A, None), Alias("newA", A, "new"), Alias("code", A, None),
              Alias("mpnB", B, None), Alias("retailB", B, None), Alias("mpnG", G, None),
              Alias("fan", A, None), Alias("fan", B, None)}
\* The first matcher put mpnB in the wrong line; newA is no grammar's.
MCDecoded == [v \in 1..Versions |-> [id \in MCIds |->
    CASE id = "mpnA" -> [family |-> F, attr |-> 1]
      [] id = "mpnB" /\ v = 2 -> [family |-> F, attr |-> 2]
      [] id = "mpnB" /\ v = 1 -> [family |-> D, attr |-> None]
      [] OTHER -> [family |-> None, attr |-> None]]]
MCRules == [c \in {"drive", "cpu"} |->
    IF c = "drive"
    THEN [policy |-> FALSE, auto |-> TRUE, ratified |-> {F, D, H}, onDemand |-> TRUE, mpnGuard |-> TRUE,
          decodes |-> TRUE]
    ELSE [policy |-> TRUE, auto |-> TRUE, ratified |-> {H}, onDemand |-> TRUE, mpnGuard |-> FALSE,
          decodes |-> FALSE]]

Plain == [ids |-> {"mpnA"}, brand |-> "maker", attr |-> None, cond |-> None, denied |-> {},
          lot |-> FALSE, conflict |-> FALSE, category |-> "drive"]
MCTexts == {
    Plain,
    [Plain EXCEPT !.cond = "new"],
    [Plain EXCEPT !.cond = "used", !.brand = None],
    [Plain EXCEPT !.brand = "other"],
    [Plain EXCEPT !.ids = {"mpnB"}, !.brand = None, !.cond = "new"],
    [Plain EXCEPT !.ids = {"mpnA", "oem"}],
    [Plain EXCEPT !.ids = {"oem"}],
    [Plain EXCEPT !.ids = {"newA"}, !.cond = "used"],
    [Plain EXCEPT !.ids = {"mpnA", "retailB"}],
    [Plain EXCEPT !.ids = {"fan", "mpnB"}],
    [Plain EXCEPT !.ids = {"mpnB"}, !.attr = 2],
    [Plain EXCEPT !.denied = {"used"}],
    [Plain EXCEPT !.attr = 2],
    [Plain EXCEPT !.lot = TRUE],
    [Plain EXCEPT !.cond = "new", !.conflict = TRUE],
    [Plain EXCEPT !.category = "book"],
    [Plain EXCEPT !.ids = {"mpnG"}, !.brand = "other", !.category = "cpu", !.cond = "new"]}

Uninterrupted == {[overlap |-> TRUE, failures |-> 0], [overlap |-> FALSE, failures |-> 1]}

\* A refresh by hand at any time, and what fails then: OriginDecidedTarget without
\* its condition on the deployment, and after two edits QuietResolveAgrees.
Overlapping == {[overlap |-> TRUE, failures |-> 1]}
OriginDecidedWhateverOverlaps == target # NoTarget => origin # None /\ origin.target = target

\* A title whose own capacity is the decode's and not the seeded sibling's, and
\* what its polls are said never to do: NoFlapping without its exception.
SiblingText == {[Plain EXCEPT !.ids = {"mpnB"}, !.attr = 2], Plain}
NeverFlaps == <>[][edge'.serial = edge.serial]_resolutionVars
=============================================================================
