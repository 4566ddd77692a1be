----------------------- MODULE ActorCollectionProofs -----------------------
(***************************************************************************)
(* Theorems about ActorCollection for every set of sources, caps and       *)
(* faults: a run called complete holds every listing of a source that      *)
(* tells the truth; the importer never rejects the account an honest Actor *)
(* gives of an honest source; and what exactly fits its caps is complete   *)
(* when nothing interfered.                                                *)
(*                                                                         *)
(* The argument: while nothing is on record against a run (no limit, no    *)
(* error), each page it has passed was fetched and each listing on those   *)
(* pages was emitted once (Whole, Once).  OUTPUT is a picture of the run   *)
(* as it ended, and exists only when the dataset holds all its rows        *)
(* (Reported); the importer reads only what no longer changes (Imported).  *)
(* A source of known extent then leaves no room between what the report    *)
(* claims and what the source holds.  For a source that fits, the counters *)
(* say what the pages passed so far hold (Unharmed), so no cap binds while *)
(* a page is left.                                                         *)
(***************************************************************************)
EXTENDS ActorCollection, FiniteSums

-----------------------------------------------------------------------------
(* Finite sets of numbers in order.                                        *)

Enumerates(s, S) ==
    /\ s \in [1..Cardinality(S) -> S]
    /\ \A j \in S : \E i \in DOMAIN s : s[i] = j
    /\ \A i, j \in DOMAIN s : i < j => s[i] < s[j]

LEMMA Enumeration ==
  ASSUME NEW S, IsFiniteSet(S), S \subseteq Int
  PROVE  \E s : Enumerates(s, S)
<1> DEFINE B == {T \in SUBSET S : ~\E s : Enumerates(s, T)}
<1>1. ASSUME NEW T \in B, \A U \in B : U \subseteq T => U = T  PROVE FALSE
  <2>1. T \subseteq S /\ IsFiniteSet(T) /\ T \subseteq Int /\ Cardinality(T) \in Nat
    BY FS_Subset, FS_CardinalityType
  <2>2. CASE T = {}
    <3>1. Cardinality(T) = 0  BY <2>2, FS_EmptySet
    <3>2. [i \in {} |-> 0] \in [1..Cardinality(T) -> T]  BY <2>2, <3>1
    <3>3. Enumerates([i \in {} |-> 0], T)  BY <2>2, <3>2 DEF Enumerates
    <3> QED  BY <3>3
  <2>3. CASE T # {}
    <3> DEFINE n == Cardinality(T)
    <3>1. PICK m \in T : \A x \in T : x <= m  BY <2>1, <2>3, GreatestOfFinite
    <3>2. T \ {m} \in SUBSET S /\ T \ {m} # T  BY <2>1
    <3>3. T \ {m} \notin B  BY <1>1, <3>2
    <3>4. PICK t : Enumerates(t, T \ {m})  BY <3>2, <3>3
    <3>5. Cardinality(T \ {m}) = n - 1 /\ n \in Nat /\ n # 0
      BY <2>1, <2>3, FS_RemoveElement, FS_EmptySet
    <3> HIDE DEF n
    <3>6. /\ t \in [1..n - 1 -> T \ {m}]
          /\ \A j \in T \ {m} : \E i \in 1..n - 1 : t[i] = j
          /\ \A i, j \in 1..n - 1 : i < j => t[i] < t[j]
      BY <3>4, <3>5 DEF Enumerates
    <3> DEFINE s == [i \in 1..n |-> IF i = n THEN m ELSE t[i]]
    <3>7. s \in [1..n -> T]
      <4> SUFFICES ASSUME NEW i \in 1..n PROVE (IF i = n THEN m ELSE t[i]) \in T
        OBVIOUS
      <4> QED  BY <3>5, <3>6
    <3>8. \A j \in T : \E i \in 1..n : s[i] = j
      <4> SUFFICES ASSUME NEW j \in T PROVE \E i \in 1..n : s[i] = j
        OBVIOUS
      <4>1. CASE j = m  BY <3>5, <4>1
      <4>2. CASE j # m
        <5>1. PICK i \in 1..n - 1 : t[i] = j  BY <3>6, <4>2
        <5>2. i \in 1..n /\ i # n  BY <3>5
        <5> QED  BY <5>1, <5>2
      <4> QED  BY <4>1, <4>2
    <3>9. \A i, j \in 1..n : i < j => s[i] < s[j]
      <4> SUFFICES ASSUME NEW i \in 1..n, NEW j \in 1..n, i < j PROVE s[i] < s[j]
        OBVIOUS
      <4>1. i \in 1..n - 1 /\ i # n /\ t[i] \in T \ {m}  BY <3>5, <3>6
      <4>2. CASE j = n
        <5>1. t[i] \in Int /\ m \in Int /\ t[i] <= m /\ t[i] # m  BY <2>1, <3>1, <4>1
        <5>2. t[i] < m  BY <5>1
        <5> QED  BY <4>1, <4>2, <5>2
      <4>3. CASE j # n  BY <3>5, <3>6, <4>1, <4>3
      <4> QED  BY <4>2, <4>3
    <3>10. Enumerates(s, T)  BY <3>7, <3>8, <3>9 DEF Enumerates, n
    <3> QED  BY <3>10
  <2> QED  BY <2>2, <2>3
<1>2. B = {}
  <2> SUFFICES ASSUME B # {} PROVE FALSE
    OBVIOUS
  <2>1. B \subseteq SUBSET S  OBVIOUS
  <2> HIDE DEF B
  <2>2. HasMinimal(B)  BY <2>1, MinimalSubset
  <2> QED  BY <1>1, <2>2 DEF HasMinimal
<1> QED  BY <1>2

LEMMA AscendingOrders ==
  ASSUME NEW S, IsFiniteSet(S), S \subseteq Int
  PROVE  /\ Ascending(S) \in [1..Cardinality(S) -> S] /\ Cardinality(S) \in Nat
         /\ \A j \in S : \E i \in DOMAIN Ascending(S) : Ascending(S)[i] = j
         /\ \A i, j \in DOMAIN Ascending(S) : Ascending(S)[i] = Ascending(S)[j] => i = j
<1> DEFINE n == Cardinality(S)
           s == Ascending(S)
           Good(t) == /\ \A j \in S : \E i \in DOMAIN t : t[i] = j
                      /\ \A i, j \in DOMAIN t : i < j => t[i] < t[j]
<1>1. n \in Nat  BY FS_CardinalityType
<1>2. \E t \in [1..n -> S] : Good(t)  BY Enumeration DEF Enumerates
<1>3. s = CHOOSE t \in [1..n -> S] : Good(t)  BY DEF Ascending
<1>4. s \in [1..n -> S] /\ Good(s)  BY <1>2, <1>3
<1> HIDE DEF n, s
<1>5. ASSUME NEW i \in DOMAIN s, NEW j \in DOMAIN s, s[i] = s[j] PROVE i = j
  <2>1. i \in 1..n /\ j \in 1..n /\ s[i] \in Int /\ s[j] \in Int  BY <1>4
  <2>2. ~(i < j) /\ ~(j < i)  BY <1>4, <1>5, <2>1
  <2> QED  BY <1>1, <2>1, <2>2
<1> QED  BY <1>1, <1>4, <1>5 DEF n, s
-----------------------------------------------------------------------------
(* What a source holds.                                                    *)

RowLists(s) == Seq(Listings(s))
RunShape(s) ==
    [index : Nat, planned : Nat, rows : RowLists(s), errors : Nat,
     limits : SUBSET LimitNames, requests : Nat, attempted : Nat, fetched : Nat, bytes : Nat,
     pagesDeclared : Nat \cup {Undeclared}, itemsDeclared : Nat \cup {Undeclared},
     byteCap : Nat, exhausted : BOOLEAN, stopped : BOOLEAN]

LEMMA SourceFacts ==
  ASSUME job \in Jobs
  PROVE  /\ job.source \in SourceShape /\ job.caps \in CapShape
         /\ Pages \in Seq(PageShape) /\ Len(Pages) \in Nat /\ DOMAIN Pages = 1..Len(Pages)
         /\ \A p \in DOMAIN Pages :
               /\ Pages[p].listings \in Seq({"good", "free", "bad"}) /\ Pages[p].bytes \in Nat
               /\ DOMAIN Pages[p].listings = 1..Len(Pages[p].listings)
               /\ Len(Pages[p].listings) \in Nat
<1>1. job.source \in SourceShape /\ job.caps \in CapShape  BY ActorAssumption DEF Jobs
<1>2. Pages \in Seq(PageShape)  BY <1>1 DEF SourceShape, Pages
<1>3. \A p \in DOMAIN Pages : Pages[p] \in PageShape  BY <1>2
<1> QED  BY <1>1, <1>2, <1>3 DEF PageShape

LEMMA InListings ==
  ASSUME NEW p, NEW j
  PROVE  <<p, j>> \in Listings(job.source) <=> p \in DOMAIN Pages /\ j \in DOMAIN Pages[p].listings
  BY DEF Listings, Pages

LEMMA ListingIsPair ==
  ASSUME NEW l \in Listings(job.source)
  PROVE  \E p, j : l = <<p, j>>
  BY DEF Listings

LEMMA PlacesFinite ==
  ASSUME job \in Jobs
  PROVE  /\ IsFiniteSet(DOMAIN Pages)
         /\ \A p \in DOMAIN Pages : /\ IsFiniteSet(DOMAIN Pages[p].listings)
                                   /\ DOMAIN Pages[p].listings \subseteq Int
<1>1. \A n \in Nat : IsFiniteSet(1..n) /\ 1..n \subseteq Int
  <2> SUFFICES ASSUME NEW n \in Nat PROVE IsFiniteSet(1..n)
    OBVIOUS
  <2>1. 1 \in Int /\ n \in Int  OBVIOUS
  <2> QED  BY <2>1, FS_Interval
<1> QED  BY <1>1, SourceFacts

LEMMA ListingsFinite == ASSUME job \in Jobs PROVE IsFiniteSet(Listings(job.source))
<1> DEFINE D == DOMAIN Pages
           E(p) == DOMAIN Pages[p].listings
           L(p) == {<<p, j>> : j \in E(p)}
           S == {L(p) : p \in D}
<1>1. IsFiniteSet(D) /\ \A p \in D : IsFiniteSet(E(p))  BY PlacesFinite
<1>2. ASSUME NEW p \in D  PROVE IsFiniteSet(L(p))
  <2>1. [j \in E(p) |-> <<p, j>>] \in Surjection(E(p), L(p))  BY DEF Surjection
  <2> QED  BY <1>1, <2>1, FS_Surjection
<1>3. IsFiniteSet(S)
  <2>1. [p \in D |-> L(p)] \in Surjection(D, S)  BY DEF Surjection
  <2> QED  BY <1>1, <2>1, FS_Surjection
<1>4. \A T \in S : IsFiniteSet(T)  BY <1>2
<1>5. Listings(job.source) = UNION S  BY DEF Listings, Pages
<1> HIDE DEF S
<1> QED  BY <1>3, <1>4, <1>5, FS_UNION

\* The rows a page adds to a run: its own, each once, and all of them unless a
\* limit or an error is put on record.
LEMMA PageEmitted ==
  ASSUME job \in Jobs, NEW r \in RunShape(job.source), r.index + 1 \in DOMAIN Pages
  PROVE  LET e == Emitted(r) IN
         /\ e \in RunShape(job.source) /\ r.limits \subseteq e.limits /\ r.errors <= e.errors
         /\ \A f \in {"index", "planned", "fetched", "pagesDeclared", "itemsDeclared", "stopped",
                      "bytes", "byteCap", "exhausted"} : e[f] = r[f]
         /\ \E add \in Seq(Listings(job.source)) :
               /\ e.rows = r.rows \o add
               /\ \A i, j \in DOMAIN add : add[i] = add[j] => i = j
               /\ \A i \in DOMAIN add : add[i][1] = r.index + 1
               /\ e.limits = {} /\ e.errors = 0 =>
                     \A j \in DOMAIN Pages[r.index + 1].listings :
                         \E i \in DOMAIN add : add[i] = <<r.index + 1, j>>
<1> DEFINE p == r.index + 1
           D == DOMAIN Pages[p].listings
           reached == {j \in D : Len(r.rows) + EmittedBefore(p, j) < ItemCap}
           kept == {j \in reached : Kind(<<p, j>>) # "bad"}
           bad == {j \in reached : Kind(<<p, j>>) = "bad"}
           order == Ascending(kept)
           add == [i \in DOMAIN order |-> <<p, order[i]>>]
           full == IF Leaves(r, reached) THEN r.limits \cup {"items"} ELSE r.limits
           e == [r EXCEPT !.rows = @ \o add, !.errors = @ + Cardinality(bad), !.limits = full]
<1>1. Emitted(r) = e  BY Zenon DEF Emitted
<1>2. IsFiniteSet(D) /\ D \subseteq Int  BY PlacesFinite
<1>3. /\ kept \in SUBSET D /\ bad \in SUBSET D /\ kept \subseteq Int
      /\ IsFiniteSet(kept) /\ IsFiniteSet(bad)
  <2>1. kept \in SUBSET D /\ bad \in SUBSET D  OBVIOUS
  <2> QED  BY <1>2, <2>1, FS_Subset
<1>4. Cardinality(bad) \in Nat /\ (Cardinality(bad) = 0 => bad = {})
  BY <1>3, FS_CardinalityType, FS_EmptySet
<1>5. /\ order \in [1..Cardinality(kept) -> kept] /\ Cardinality(kept) \in Nat
      /\ \A j \in kept : \E i \in DOMAIN order : order[i] = j
      /\ \A i, j \in DOMAIN order : order[i] = order[j] => i = j
  BY <1>3, AscendingOrders
<1>6. full \in SUBSET LimitNames /\ r.limits \subseteq full
      /\ (full = {} => reached = D /\ r.limits = {})
  BY DEF RunShape, LimitNames, Leaves
<1> HIDE DEF order, full
<1>7. add \in Seq(Listings(job.source))
  <2>1. \A i \in 1..Cardinality(kept) : <<p, order[i]>> \in Listings(job.source)
    BY <1>3, <1>5, InListings
  <2> QED  BY <1>5, <2>1
<1>8. \A i, j \in DOMAIN add : add[i] = add[j] => i = j  BY <1>5
<1>9. \A i \in DOMAIN add : add[i][1] = p  OBVIOUS
<1>10. ASSUME full = {}, r.errors + Cardinality(bad) = 0, NEW j \in D
       PROVE  \E i \in DOMAIN add : add[i] = <<p, j>>
  <2>1. bad = {}  BY <1>4, <1>10 DEF RunShape
  <2>2. j \in kept  BY <1>6, <1>10, <2>1
  <2>3. PICK i \in DOMAIN order : order[i] = j  BY <1>5, <2>2
  <2> QED  BY <2>3
<1>11. r.rows \o add \in RowLists(job.source)  BY <1>7 DEF RunShape, RowLists
<1>12. r.errors + Cardinality(bad) \in Nat /\ r.errors <= r.errors + Cardinality(bad)
  BY <1>4 DEF RunShape
<1> HIDE DEF add, bad
<1>13. /\ e \in RunShape(job.source) /\ e.rows = r.rows \o add /\ e.limits = full
       /\ e.errors = r.errors + Cardinality(bad)
       /\ \A f \in {"index", "planned", "fetched", "pagesDeclared", "itemsDeclared", "stopped",
                    "bytes", "byteCap", "exhausted"} : e[f] = r[f]
  BY <1>6, <1>11, <1>12 DEF RunShape
<1> HIDE DEF e
<1> QED  BY <1>1, <1>6, <1>7, <1>8, <1>9, <1>10, <1>12, <1>13
-----------------------------------------------------------------------------
(* A collecting run.                                                       *)

\* Nothing is on record against the run.
Clean(r) == r.limits = {} /\ r.errors = 0

\* What the pages a run has passed have left in it.
Once(r) ==
    /\ \A i, j \in DOMAIN r.rows : r.rows[i] = r.rows[j] => i = j
    /\ \A i \in DOMAIN r.rows : r.rows[i][1] <= r.index
Whole(s, r) ==
    Clean(r) => /\ ~r.stopped /\ r.fetched = r.index
                /\ \A p \in 1..r.index : p \in DOMAIN s.pages =>
                      \A j \in DOMAIN s.pages[p].listings : \E i \in DOMAIN r.rows : r.rows[i] = <<p, j>>
Told(s, r) ==
    /\ r.fetched = 0 =>
          /\ r.rows = <<>> /\ r.planned = s.listed
          /\ r.pagesDeclared = Undeclared /\ r.itemsDeclared = Undeclared
    /\ r.fetched > 0 =>
          /\ r.pagesDeclared = s.pagesDeclared
          /\ r.itemsDeclared = s.itemsDeclared
          /\ r.planned = IF s.pagesDeclared = Undeclared THEN s.listed
                         ELSE Smaller(s.listed, s.pagesDeclared)
Collected(s, r) ==
    /\ r \in RunShape(s) /\ r.fetched <= r.index /\ r.fetched <= Len(s.pages)
    /\ Once(r) /\ Whole(s, r) /\ Told(s, r)

\* A step that emits nothing and moves on only with something on record.
LEMMA PassedOn ==
  ASSUME job \in Jobs, NEW r, Collected(job.source, r), NEW w \in RunShape(job.source),
         r.index <= w.index, w.rows = r.rows, w.fetched = r.fetched, w.planned = r.planned,
         w.pagesDeclared = r.pagesDeclared, w.itemsDeclared = r.itemsDeclared,
         Clean(w) => Clean(r) /\ ~w.stopped /\ w.index = r.index
  PROVE  Collected(job.source, w)
<1>1. r.index \in Nat /\ w.index \in Nat /\ r.fetched \in Nat
  BY DEF Collected, RunShape
<1>2. Whole(job.source, w)  BY DEF Collected, Whole
<1>3. Told(job.source, w)  BY DEF Collected, Told
<1>4. Once(w)
  <2>1. \A i \in DOMAIN r.rows : r.rows[i] \in Listings(job.source) /\ r.rows[i][1] <= r.index
    BY DEF Collected, RunShape, RowLists, Once
  <2>2. ASSUME NEW i \in DOMAIN r.rows  PROVE r.rows[i][1] <= w.index
    <3>1. PICK p, j : r.rows[i] = <<p, j>>  BY <2>1, ListingIsPair
    <3>2. p \in DOMAIN Pages  BY <2>1, <3>1, InListings
    <3>3. p \in Nat  BY <3>2, SourceFacts
    <3> QED  BY <1>1, <2>1, <3>1, <3>3
  <2> QED  BY <2>2 DEF Collected, Once
<1> QED  BY <1>1, <1>2, <1>3, <1>4 DEF Collected

\* What collect counts before it emits a page's rows: what the first page
\* declares, and the page itself.
Counted == [Declared(run) EXCEPT !.fetched = @ + 1]
Untouched == {"index", "rows", "limits", "errors", "stopped", "requests", "attempted", "bytes",
              "byteCap", "exhausted"}
LEMMA PageCounted ==
  ASSUME job \in Jobs, Collected(job.source, run)
  PROVE  /\ Counted \in RunShape(job.source) /\ Counted.fetched = run.fetched + 1
         /\ \A f \in Untouched : Counted[f] = run[f]
         /\ Counted.pagesDeclared = job.source.pagesDeclared
         /\ Counted.itemsDeclared = job.source.itemsDeclared
         /\ Counted.planned = IF job.source.pagesDeclared = Undeclared THEN job.source.listed
                              ELSE Smaller(job.source.listed, job.source.pagesDeclared)
<1> DEFINE d == Counted
<1>1. run \in RunShape(job.source) /\ run.fetched \in Nat  BY DEF Collected, RunShape
<1>2. /\ job.source.pagesDeclared \in Nat \cup {Undeclared}
      /\ job.source.itemsDeclared \in Nat \cup {Undeclared} /\ job.source.listed \in Nat
  BY SourceFacts DEF SourceShape
<1>3. CASE run.fetched > 0
  <2>1. Declared(run) = run  BY <1>3 DEF Declared
  <2>2. d = [run EXCEPT !.fetched = @ + 1]  BY <2>1 DEF Counted
  <2> HIDE DEF d
  <2>3. d \in RunShape(job.source) /\ d.fetched = run.fetched + 1
    BY <1>1, <2>2 DEF RunShape
  <2>4. \A f \in Untouched : d[f] = run[f]  BY <1>1, <2>2 DEF RunShape, Untouched
  <2>5. /\ d.planned = run.planned /\ d.pagesDeclared = run.pagesDeclared
        /\ d.itemsDeclared = run.itemsDeclared
    BY <1>1, <2>2 DEF RunShape
  <2>6. Told(job.source, run)  BY DEF Collected
  <2> QED  BY <1>3, <2>3, <2>4, <2>5, <2>6 DEF Told, d
<1>4. CASE run.fetched = 0
  <2> DEFINE plan == IF job.source.pagesDeclared = Undeclared THEN run.planned
                     ELSE Smaller(run.planned, job.source.pagesDeclared)
             declared == [run EXCEPT !.pagesDeclared = job.source.pagesDeclared,
                                     !.itemsDeclared = job.source.itemsDeclared]
  <2>1. Declared(run) = [run EXCEPT !.pagesDeclared = job.source.pagesDeclared,
                                    !.itemsDeclared = job.source.itemsDeclared,
                                    !.planned = plan]
    BY <1>4 DEF Declared
  <2>2. run.planned = job.source.listed  BY <1>4 DEF Collected, Told
  <2>3. plan \in Nat  BY <1>2, <2>2 DEF Smaller
  <2> HIDE DEF plan
  <2>4. d = [run EXCEPT !.pagesDeclared = job.source.pagesDeclared,
                        !.itemsDeclared = job.source.itemsDeclared,
                        !.planned = plan, !.fetched = @ + 1]
    BY <1>1, <2>1 DEF RunShape, Counted
  <2> HIDE DEF d
  <2>5. d \in RunShape(job.source)
    <3>1. declared \in RunShape(job.source)  BY <1>1, <1>2 DEF RunShape
    <3>2. d = [declared EXCEPT !.planned = plan, !.fetched = run.fetched + 1]
      BY <1>1, <2>4 DEF RunShape
    <3>3. run.fetched + 1 \in Nat  BY <1>1
    <3> HIDE DEF declared
    <3> QED  BY <2>3, <3>1, <3>2, <3>3 DEF RunShape
  <2>6. d.fetched = run.fetched + 1  BY <1>1, <2>4 DEF RunShape
  <2>7. \A f \in Untouched : d[f] = run[f]  BY <1>1, <2>4 DEF RunShape, Untouched
  <2>8. /\ d.planned = plan /\ d.pagesDeclared = job.source.pagesDeclared
        /\ d.itemsDeclared = job.source.itemsDeclared
    BY <1>1, <2>4 DEF RunShape
  <2> QED  BY <2>2, <2>5, <2>6, <2>7, <2>8 DEF plan, d
<1> QED  BY <1>1, <1>3, <1>4

\* collect's use of a page: the declared counts, its rows, faultMode.
LEMMA PageCollected ==
  ASSUME job \in Jobs, Collected(job.source, run), Exists,
         NEW w, w = [AfterPage(Emitted(Counted)) EXCEPT !.index = @ + 1], ~run.stopped
  PROVE  Collected(job.source, w)
<1> DEFINE d == Counted
           e == Emitted(d)
           p == run.index + 1
<1>1. run \in RunShape(job.source) /\ run.fetched \in Nat /\ run.index \in Nat /\ p \in DOMAIN Pages
  BY DEF Collected, Exists, RunShape
<1>2. /\ d \in RunShape(job.source) /\ d.fetched = run.fetched + 1 /\ d.index = run.index
      /\ d.rows = run.rows /\ d.limits = run.limits /\ d.errors = run.errors
      /\ d.stopped = run.stopped
      /\ d.pagesDeclared = job.source.pagesDeclared /\ d.itemsDeclared = job.source.itemsDeclared
      /\ d.planned = IF job.source.pagesDeclared = Undeclared THEN job.source.listed
                     ELSE Smaller(job.source.listed, job.source.pagesDeclared)
  BY PageCounted DEF Untouched
<1> HIDE DEF d
<1>3. d.index + 1 \in DOMAIN Pages  BY <1>1, <1>2
<1>4. /\ e \in RunShape(job.source) /\ d.limits \subseteq e.limits /\ d.errors <= e.errors
      /\ e.index = d.index /\ e.planned = d.planned /\ e.fetched = d.fetched
      /\ e.pagesDeclared = d.pagesDeclared /\ e.itemsDeclared = d.itemsDeclared
      /\ e.stopped = d.stopped
  BY <1>2, <1>3, PageEmitted
<1>5. PICK add \in Seq(Listings(job.source)) :
        /\ e.rows = d.rows \o add
        /\ \A i, j \in DOMAIN add : add[i] = add[j] => i = j
        /\ \A i \in DOMAIN add : add[i][1] = d.index + 1
        /\ Clean(e) => \A j \in DOMAIN Pages[d.index + 1].listings :
                           \E i \in DOMAIN add : add[i] = <<d.index + 1, j>>
  BY <1>2, <1>3, PageEmitted, Zenon DEF Clean
<1> HIDE DEF e
<1>6. /\ w \in RunShape(job.source) /\ w.index = p /\ w.fetched = run.fetched + 1 /\ w.rows = e.rows
      /\ w.limits = e.limits /\ (w.errors = e.errors \/ w.errors = e.errors + 1)
      /\ w.planned = e.planned /\ w.pagesDeclared = e.pagesDeclared
      /\ w.itemsDeclared = e.itemsDeclared /\ (w.errors = e.errors => w.stopped = e.stopped)
  <2> DEFINE first == e.fetched = 1
             cap == ByteCap(e)
             spent == e.exhausted \/ (first /\ job.fault = "truncate_time")
             halted == e.stopped \/ (first /\ job.fault = "fail")
             wrong == IF first /\ job.fault = "fail" THEN e.errors + 1 ELSE e.errors
  <2>1. AfterPage(e) = [e EXCEPT !.byteCap = cap, !.exhausted = spent, !.stopped = halted,
                                 !.errors = wrong]
    BY DEF AfterPage
  <2>2. /\ cap \in Nat /\ spent \in BOOLEAN /\ halted \in BOOLEAN /\ wrong \in Nat
        /\ wrong \in {e.errors, e.errors + 1} /\ (wrong = e.errors => halted = e.stopped)
    BY <1>4 DEF RunShape, ByteCap, Smaller
  <2> HIDE DEF cap, spent, halted, wrong
  <2>3. w = [e EXCEPT !.byteCap = cap, !.exhausted = spent, !.stopped = halted,
                      !.errors = wrong, !.index = @ + 1]
    BY <1>4, <2>1 DEF RunShape, d, e
  <2>4. e \in RunShape(job.source) /\ e.index + 1 \in Nat /\ e.index + 1 = p /\ e.fetched = run.fetched + 1
    BY <1>1, <1>2, <1>4
  <2>5. w \in RunShape(job.source)
    <3> DEFINE capped == [e EXCEPT !.byteCap = cap, !.exhausted = spent]
    <3>1. capped \in RunShape(job.source)  BY <2>2, <2>4 DEF RunShape
    <3>2. w = [capped EXCEPT !.stopped = halted, !.errors = wrong, !.index = e.index + 1]
      BY <2>3, <2>4 DEF RunShape
    <3> HIDE DEF capped
    <3> QED  BY <2>2, <2>4, <3>1, <3>2 DEF RunShape
  <2>6. w.index = e.index + 1 /\ w.fetched = e.fetched /\ w.rows = e.rows /\ w.limits = e.limits
    BY <2>3, <2>4 DEF RunShape
  <2>7. /\ w.planned = e.planned /\ w.pagesDeclared = e.pagesDeclared
        /\ w.itemsDeclared = e.itemsDeclared
    BY <2>3, <2>4 DEF RunShape
  <2>8. w.errors = wrong /\ w.stopped = halted  BY <2>3, <2>4 DEF RunShape
  <2> QED  BY <2>2, <2>4, <2>5, <2>6, <2>7, <2>8
<1>7. Clean(w) => Clean(e) /\ Clean(run) /\ ~w.stopped
  <2>1. run.errors \in Nat /\ e.errors \in Nat /\ run.errors <= e.errors
        /\ run.limits \subseteq e.limits /\ e.stopped = run.stopped
    BY <1>1, <1>2, <1>4 DEF RunShape
  <2>2. w.errors = 0 => e.errors = 0 /\ run.errors = 0  BY <1>6, <2>1
  <2> QED  BY <1>6, <2>1, <2>2 DEF Clean
<1>8. /\ DOMAIN run.rows = 1..Len(run.rows) /\ Len(run.rows) \in Nat
      /\ DOMAIN add = 1..Len(add) /\ Len(add) \in Nat
      /\ DOMAIN w.rows = 1..(Len(run.rows) + Len(add))
      /\ \A i \in DOMAIN run.rows : w.rows[i] = run.rows[i]
      /\ \A i \in DOMAIN add : w.rows[Len(run.rows) + i] = add[i]
  <2>1. run.rows \in Seq(Listings(job.source))  BY <1>1 DEF RunShape, RowLists
  <2>2. w.rows = run.rows \o add  BY <1>2, <1>5, <1>6
  <2>3. /\ DOMAIN run.rows = 1..Len(run.rows) /\ Len(run.rows) \in Nat
        /\ DOMAIN add = 1..Len(add) /\ Len(add) \in Nat
    BY <2>1
  <2>4. Len(run.rows \o add) = Len(run.rows) + Len(add)  BY <2>1
  <2>5. run.rows \o add \in Seq(Listings(job.source))  BY <2>1
  <2>6. DOMAIN (run.rows \o add) = 1..(Len(run.rows) + Len(add))  BY <2>4, <2>5
  <2>7. \A i \in 1..Len(run.rows) : (run.rows \o add)[i] = run.rows[i]  BY <2>1
  <2>8. \A i \in 1..Len(add) : (run.rows \o add)[Len(run.rows) + i] = add[i]  BY <2>1
  <2> QED  BY <2>2, <2>3, <2>6, <2>7, <2>8
<1>9. \A i \in DOMAIN run.rows : run.rows[i][1] <= run.index /\ run.rows[i][1] \in Nat
  <2> SUFFICES ASSUME NEW i \in DOMAIN run.rows
               PROVE  run.rows[i][1] <= run.index /\ run.rows[i][1] \in Nat
    OBVIOUS
  <2>1. run.rows[i] \in Listings(job.source)  BY <1>1 DEF RunShape, RowLists
  <2>2. PICK q, j : run.rows[i] = <<q, j>>  BY <2>1, ListingIsPair
  <2>3. q \in Nat  BY <2>1, <2>2, InListings, SourceFacts
  <2> QED  BY <2>2, <2>3 DEF Collected, Once
<1>10. \A i \in DOMAIN w.rows : \/ i \in DOMAIN run.rows
                               \/ \E k \in DOMAIN add : i = Len(run.rows) + k
  <2> SUFFICES ASSUME NEW i \in DOMAIN w.rows, i \notin DOMAIN run.rows
               PROVE  \E k \in DOMAIN add : i = Len(run.rows) + k
    OBVIOUS
  <2> DEFINE n == Len(run.rows)
             k == i - n
  <2>1. n \in Nat /\ Len(add) \in Nat /\ i \in 1..(n + Len(add)) /\ i \notin 1..n  BY <1>8
  <2> HIDE DEF n
  <2>2. k \in 1..Len(add) /\ i = n + k  BY <2>1
  <2> QED  BY <1>8, <2>2 DEF n
<1>11. Once(w)
  <2>1. ASSUME NEW i \in DOMAIN w.rows  PROVE w.rows[i][1] <= w.index
    <3>1. CASE i \in DOMAIN run.rows
      <4>1. /\ w.rows[i] = run.rows[i] /\ run.rows[i][1] <= run.index /\ run.rows[i][1] \in Nat
            /\ w.index = run.index + 1
        BY <1>6, <1>8, <1>9, <3>1
      <4> QED  BY <1>1, <4>1
    <3>2. CASE i \notin DOMAIN run.rows
      <4>1. PICK k \in DOMAIN add : i = Len(run.rows) + k  BY <1>10, <2>1, <3>2
      <4>2. w.rows[i] = add[k]  BY <1>8, <4>1
      <4>3. add[k][1] = run.index + 1 /\ w.index = run.index + 1  BY <1>2, <1>5, <1>6
      <4>4. w.rows[i][1] = w.index /\ w.index \in Nat  BY <1>1, <4>2, <4>3
      <4> QED  BY <4>4
    <3> QED  BY <3>1, <3>2
  <2>2. ASSUME NEW i \in DOMAIN w.rows, NEW j \in DOMAIN w.rows, w.rows[i] = w.rows[j]
        PROVE  i = j
    <3>1. \A m \in DOMAIN run.rows, k \in DOMAIN add : run.rows[m] # add[k]
      <4> SUFFICES ASSUME NEW m \in DOMAIN run.rows, NEW k \in DOMAIN add, run.rows[m] = add[k]
                   PROVE  FALSE
        OBVIOUS
      <4>1. add[k][1] = run.index + 1  BY <1>2, <1>5
      <4> QED  BY <1>1, <1>9, <4>1
    <3>2. CASE i \in DOMAIN run.rows /\ j \in DOMAIN run.rows
      <4>1. run.rows[i] = run.rows[j]  BY <1>8, <2>2, <3>2
      <4> QED  BY <3>2, <4>1 DEF Collected, Once
    <3>3. CASE i \in DOMAIN run.rows /\ j \notin DOMAIN run.rows
      <4>1. PICK k \in DOMAIN add : j = Len(run.rows) + k  BY <1>10, <2>2, <3>3
      <4>2. w.rows[i] = run.rows[i] /\ w.rows[j] = add[k]  BY <1>8, <3>3, <4>1
      <4> QED  BY <2>2, <3>1, <3>3, <4>1, <4>2
    <3>4. CASE i \notin DOMAIN run.rows /\ j \in DOMAIN run.rows
      <4>1. PICK k \in DOMAIN add : i = Len(run.rows) + k  BY <1>10, <2>2, <3>4
      <4>2. w.rows[j] = run.rows[j] /\ w.rows[i] = add[k]  BY <1>8, <3>4, <4>1
      <4> QED  BY <2>2, <3>1, <3>4, <4>1, <4>2
    <3>5. CASE i \notin DOMAIN run.rows /\ j \notin DOMAIN run.rows
      <4>1. PICK k \in DOMAIN add : i = Len(run.rows) + k  BY <1>10, <2>2, <3>5
      <4>2. PICK m \in DOMAIN add : j = Len(run.rows) + m  BY <1>10, <2>2, <3>5
      <4>3. add[k] = add[m]  BY <1>8, <2>2, <4>1, <4>2
      <4> QED  BY <1>5, <4>1, <4>2, <4>3
    <3> QED  BY <3>2, <3>3, <3>4, <3>5
  <2> QED  BY <2>1, <2>2 DEF Once
<1>12. Whole(job.source, w)
  <2> SUFFICES ASSUME Clean(w)
               PROVE  /\ ~w.stopped /\ w.fetched = w.index
                      /\ \A q \in 1..w.index : q \in DOMAIN Pages =>
                            \A j \in DOMAIN Pages[q].listings :
                                \E i \in DOMAIN w.rows : w.rows[i] = <<q, j>>
    BY DEF Whole, Pages
  <2>1. Whole(job.source, run) /\ Clean(run) /\ Clean(e) /\ ~w.stopped  BY <1>7 DEF Collected
  <2>2. w.fetched = w.index  BY <1>6, <2>1 DEF Whole
  <2>3. ASSUME NEW q \in 1..w.index, q \in DOMAIN Pages, NEW j \in DOMAIN Pages[q].listings
        PROVE  \E i \in DOMAIN w.rows : w.rows[i] = <<q, j>>
    <3>1. CASE q = p
      <4>1. PICK i \in DOMAIN add : add[i] = <<q, j>>  BY <1>2, <1>5, <2>1, <2>3, <3>1
      <4>2. Len(run.rows) + i \in DOMAIN w.rows  BY <1>8
      <4> QED  BY <1>8, <4>1, <4>2
    <3>2. CASE q # p
      <4>1. q \in 1..run.index  BY <1>1, <1>6, <3>2
      <4>2. PICK i \in DOMAIN run.rows : run.rows[i] = <<q, j>>  BY <2>1, <2>3, <4>1 DEF Whole, Pages
      <4>3. i \in DOMAIN w.rows  BY <1>8
      <4> QED  BY <1>8, <4>2, <4>3
    <3> QED  BY <3>1, <3>2
  <2> QED  BY <2>1, <2>2, <2>3
<1>13. Told(job.source, w)  BY <1>1, <1>2, <1>4, <1>6 DEF Told
<1>14. w.fetched <= w.index /\ w.fetched <= Len(Pages)
  BY <1>1, <1>6, SourceFacts DEF Collected, Pages
<1> QED  BY <1>6, <1>11, <1>12, <1>13, <1>14 DEF Collected, Pages
-----------------------------------------------------------------------------
(* The invariant.                                                          *)

\* The account of a run that ended: with nothing on record it covers its plan,
\* and a careful Actor's matches what the source declared.
Ended == Clean(run) => run.index >= run.planned /\ (Careful => ~Unaccounted)

\* OUTPUT is the account of the ended run, and its rows are all stored.
Reported ==
    /\ pc \in {"push", "output", "exit"} => Ended
    /\ pc \in {"loop", "reading", "push", "output"} => output = None
    /\ pc \in {"output", "exit"} => dataset = run.rows
    /\ output # None => Ended /\ output = Report /\ dataset = run.rows

\* The importer reads only what no longer changes, and all of it.
Imported ==
    /\ read # None =>
          /\ remote # "RUNNING" /\ read.rows \in 0..Len(dataset)
          /\ read.done => read.rows = Len(dataset)
    /\ verdict # None =>
          /\ read # None /\ read.done
          /\ verdict = Classification(read.rows, Cardinality(Usable(RowsRead)))

AccountInv ==
    /\ job \in Jobs /\ pc \in {"loop", "reading", "push", "output", "exit", "ended"}
    /\ Collected(job.source, run) /\ (pc = "reading" => ~run.stopped)
    /\ dataset \in RowLists(job.source) /\ Reported /\ Imported

LEMMA AccountStart == Init => AccountInv
<1> SUFFICES ASSUME Init PROVE AccountInv
  OBVIOUS
<1>1. job \in Jobs /\ job.source \in SourceShape /\ job.caps \in CapShape
  BY SourceFacts DEF Init
<1>2. /\ run.index = 0 /\ run.fetched = 0 /\ run.rows = <<>> /\ run.stopped = FALSE
      /\ run.planned = job.source.listed /\ run.pagesDeclared = Undeclared
      /\ run.itemsDeclared = Undeclared
  BY DEF Init
<1>3. run \in RunShape(job.source)
  <2>1. job.source.listed \in Nat /\ job.caps.bytes \in Nat  BY <1>1 DEF SourceShape, CapShape
  <2>2. <<>> \in RowLists(job.source)  BY DEF RowLists
  <2> QED  BY <2>1, <2>2 DEF Init, RunShape
<1>4. Collected(job.source, run)
  <2>1. Len(job.source.pages) \in Nat  BY <1>1, SourceFacts DEF Pages
  <2>2. Once(run) /\ Whole(job.source, run) /\ Told(job.source, run)
    BY <1>2 DEF Once, Whole, Told
  <2> QED  BY <1>2, <1>3, <2>1, <2>2 DEF Collected
<1>5. dataset \in RowLists(job.source)  BY DEF Init, RowLists
<1>6. Reported /\ Imported  BY DEF Init, Reported, Imported
<1> QED  BY <1>1, <1>2, <1>4, <1>5, <1>6 DEF AccountInv, Init

\* A step of the Actor before its account is written, or of the clock.
LEMMA StillRunning ==
  ASSUME AccountInv, remote = "RUNNING", UNCHANGED <<job, imported>>
  PROVE  read = None /\ verdict = None /\ Imported'
  BY DEF AccountInv, Imported, imported

\* A step of collect's loop that passes a page on, or stays on it.
LEMMA LoopKept ==
  ASSUME AccountInv, remote = "RUNNING", pc \in {"loop", "reading"},
         UNCHANGED <<job, remote, stored, imported>>, pc' \in {"loop", "reading"},
         Collected(job.source, run'), pc' = "reading" => ~run'.stopped
  PROVE  AccountInv'
<1>1. Imported'  BY StillRunning
<1>2. output = None /\ output' = None  BY DEF AccountInv, Reported, stored
<1>3. Reported'  BY <1>2 DEF Reported
<1> QED  BY <1>1, <1>3 DEF AccountInv, stored

\* What PassedOn asks of run'.
Passed ==
    /\ run' \in RunShape(job.source) /\ run.index <= run'.index /\ run'.rows = run.rows
    /\ run'.fetched = run.fetched /\ run'.planned = run.planned
    /\ run'.pagesDeclared = run.pagesDeclared /\ run'.itemsDeclared = run.itemsDeclared
    /\ Clean(run') => Clean(run) /\ ~run'.stopped /\ run'.index = run.index

LEMMA PassedKept == ASSUME AccountInv, Passed PROVE Collected(job.source, run')
<1> DEFINE w == run'
<1>1. job \in Jobs /\ Collected(job.source, run)  BY DEF AccountInv
<1>2. /\ w \in RunShape(job.source) /\ run.index <= w.index /\ w.rows = run.rows
      /\ w.fetched = run.fetched /\ w.planned = run.planned
      /\ w.pagesDeclared = run.pagesDeclared /\ w.itemsDeclared = run.itemsDeclared
      /\ Clean(w) => Clean(run) /\ ~w.stopped /\ w.index = run.index
  BY DEF Passed
<1> HIDE DEF w
<1>3. Collected(job.source, w)  BY <1>1, <1>2, PassedOn
<1> QED  BY <1>3 DEF w

LEMMA PageSkipped == ASSUME AccountInv, SkipPage PROVE AccountInv'
<1>1. run \in RunShape(job.source)  BY DEF AccountInv, Collected
<1>2. run' = [run EXCEPT !.attempted = @ + 1, !.errors = @ + 1, !.index = @ + 1]
  BY DEF SkipPage
<1>3. /\ run.attempted + 1 \in Nat /\ run.errors + 1 \in Nat /\ run.errors + 1 # 0
      /\ run.index + 1 \in Nat /\ run.index <= run.index + 1
  BY <1>1 DEF RunShape
<1>4. run' \in RunShape(job.source)  BY <1>1, <1>2, <1>3 DEF RunShape
<1>5. /\ run'.index = run.index + 1 /\ run'.errors = run.errors + 1
      /\ run'.rows = run.rows /\ run'.fetched = run.fetched
  BY <1>1, <1>2 DEF RunShape
<1>6. /\ run'.planned = run.planned /\ run'.pagesDeclared = run.pagesDeclared
      /\ run'.itemsDeclared = run.itemsDeclared
  BY <1>1, <1>2 DEF RunShape
<1>7. Passed  BY <1>3, <1>4, <1>5, <1>6 DEF Passed, Clean
<1> QED  BY <1>7, PassedKept, LoopKept DEF SkipPage, Collecting, At, stored, imported

LEMMA LimitsStop == ASSUME AccountInv, StopForLimits PROVE AccountInv'
<1>1. run \in RunShape(job.source)  BY DEF AccountInv, Collected
<1>2. Binding # {} /\ run.limits \cup Binding \in SUBSET LimitNames
  BY <1>1 DEF StopForLimits, Binding, RunShape
<1>3. run' = [run EXCEPT !.limits = @ \cup Binding, !.stopped = TRUE]  BY DEF StopForLimits
<1>4. run' \in RunShape(job.source)  BY <1>1, <1>2, <1>3 DEF RunShape
<1>5. /\ run'.index = run.index /\ run'.limits = run.limits \cup Binding
      /\ run'.rows = run.rows /\ run'.fetched = run.fetched
  BY <1>1, <1>3 DEF RunShape
<1>6. /\ run'.planned = run.planned /\ run'.pagesDeclared = run.pagesDeclared
      /\ run'.itemsDeclared = run.itemsDeclared
  BY <1>1, <1>3 DEF RunShape
<1>7. run.index <= run.index  BY <1>1 DEF RunShape
<1>8. Passed  BY <1>2, <1>4, <1>5, <1>6, <1>7 DEF Passed, Clean
<1> QED  BY <1>8, PassedKept, LoopKept DEF StopForLimits, Collecting, At, stored, imported

LEMMA RequestSent == ASSUME AccountInv, SendRequest PROVE AccountInv'
<1>1. run \in RunShape(job.source) /\ ~run.stopped
  BY DEF AccountInv, Collected, SendRequest, Collecting
<1>2. run' = [run EXCEPT !.requests = @ + 1, !.attempted = @ + 1]  BY DEF SendRequest
<1>3. run.requests + 1 \in Nat /\ run.attempted + 1 \in Nat /\ run.index <= run.index
  BY <1>1 DEF RunShape
<1>4. run' \in RunShape(job.source)  BY <1>1, <1>2, <1>3 DEF RunShape
<1>5. /\ run'.index = run.index /\ run'.limits = run.limits /\ run'.errors = run.errors
      /\ run'.rows = run.rows /\ run'.fetched = run.fetched /\ run'.stopped = run.stopped
  BY <1>1, <1>2 DEF RunShape
<1>6. /\ run'.planned = run.planned /\ run'.pagesDeclared = run.pagesDeclared
      /\ run'.itemsDeclared = run.itemsDeclared
  BY <1>1, <1>2 DEF RunShape
<1>7. Passed  BY <1>1, <1>3, <1>4, <1>5, <1>6 DEF Passed, Clean
<1> QED  BY <1>1, <1>5, <1>7, PassedKept, LoopKept
         DEF SendRequest, Collecting, At, stored, imported

LEMMA BytesReceived == ASSUME AccountInv, Receive PROVE AccountInv'
<1>1. run \in RunShape(job.source) /\ ~run.stopped /\ job \in Jobs
  BY DEF AccountInv, Collected, Receive, At
<1>4. PICK n \in 1..Smaller(ReadSize, Page.bytes - got) :
        LET counted == [run EXCEPT !.bytes = @ + n]
            hit == (IF counted.bytes > run.byteCap THEN {"bytes"} ELSE {})
                    \cup (IF late THEN {"time"} ELSE {})
        IN  /\ run' = IF hit = {} THEN counted
                      ELSE [counted EXCEPT !.limits = @ \cup hit, !.stopped = TRUE,
                                           !.index = @ + 1]
            /\ pc' = IF hit = {} THEN "reading" ELSE "loop"
  BY DEF Receive
<1> DEFINE counted == [run EXCEPT !.bytes = @ + n]
           hit == (IF counted.bytes > run.byteCap THEN {"bytes"} ELSE {})
                    \cup (IF late THEN {"time"} ELSE {})
<1>5. n \in Nat  OBVIOUS
<1>6. hit \in SUBSET LimitNames  BY DEF LimitNames
<1>7. counted \in RunShape(job.source) /\ run.index <= run.index
  <2>1. run.bytes + n \in Nat  BY <1>1, <1>5 DEF RunShape
  <2> QED  BY <1>1, <2>1 DEF RunShape
<1>8. /\ counted.index = run.index /\ counted.limits = run.limits /\ counted.errors = run.errors
      /\ counted.rows = run.rows /\ counted.fetched = run.fetched
      /\ counted.stopped = run.stopped
  BY <1>1 DEF RunShape
<1>9. /\ counted.planned = run.planned /\ counted.pagesDeclared = run.pagesDeclared
      /\ counted.itemsDeclared = run.itemsDeclared
  BY <1>1 DEF RunShape
<1>10. /\ run' = IF hit = {} THEN counted
                 ELSE [counted EXCEPT !.limits = @ \cup hit, !.stopped = TRUE, !.index = @ + 1]
       /\ pc' = IF hit = {} THEN "reading" ELSE "loop"
  BY <1>4, Zenon
<1> HIDE DEF counted, hit
<1>11. CASE hit = {}
  <2>1. run' = counted /\ pc' = "reading"  BY <1>10, <1>11
  <2>2. Passed  BY <1>1, <1>7, <1>8, <1>9, <2>1 DEF Passed, Clean
  <2>3. ~run'.stopped  BY <1>1, <1>8, <2>1
  <2> QED  BY <2>1, <2>2, <2>3, PassedKept, LoopKept DEF Receive, At, stored, imported
<1>12. CASE hit # {}
  <2>1. /\ run' = [counted EXCEPT !.limits = @ \cup hit, !.stopped = TRUE, !.index = @ + 1]
        /\ pc' = "loop"
    BY <1>10, <1>12
  <2>2. /\ counted.index + 1 \in Nat /\ run.index <= counted.index + 1
        /\ counted.limits \cup hit \in SUBSET LimitNames
    BY <1>6, <1>7, <1>8 DEF RunShape
  <2>3. run' \in RunShape(job.source)  BY <1>7, <2>1, <2>2 DEF RunShape
  <2>4. /\ run'.index = counted.index + 1 /\ run'.limits = counted.limits \cup hit
        /\ run'.rows = counted.rows /\ run'.fetched = counted.fetched
    BY <1>7, <2>1 DEF RunShape
  <2>5. /\ run'.planned = counted.planned /\ run'.pagesDeclared = counted.pagesDeclared
        /\ run'.itemsDeclared = counted.itemsDeclared
    BY <1>7, <2>1 DEF RunShape
  <2>6. Passed  BY <1>8, <1>9, <1>12, <2>2, <2>3, <2>4, <2>5 DEF Passed, Clean
  <2> QED  BY <2>1, <2>6, PassedKept, LoopKept DEF Receive, At, stored, imported
<1> QED  BY <1>11, <1>12

LEMMA ResponseLost ==
  ASSUME AccountInv, At("reading"), NEW limits \in SUBSET LimitNames, NEW errors \in Nat,
         limits # {} \/ errors > 0, Lost(limits, errors),
         UNCHANGED <<job, remote, stored, imported>>
  PROVE  AccountInv'
<1>1. run.stopped \in BOOLEAN /\ run \in RunShape(job.source)
  BY DEF AccountInv, Collected, RunShape
<1> DEFINE halt == run.stopped \/ limits # {}
<1>2. run' = [run EXCEPT !.index = @ + 1, !.limits = @ \cup limits, !.errors = @ + errors,
                         !.stopped = halt]
  BY DEF Lost
<1>3. /\ run.index + 1 \in Nat /\ run.index <= run.index + 1 /\ run.errors + errors \in Nat
      /\ (errors > 0 => run.errors + errors # 0) /\ run.limits \cup limits \in SUBSET LimitNames
      /\ halt \in BOOLEAN
  BY <1>1 DEF RunShape
<1> HIDE DEF halt
<1>4. run' \in RunShape(job.source)
  <2> DEFINE far == [run EXCEPT !.index = run.index + 1, !.limits = run.limits \cup limits]
  <2>1. far \in RunShape(job.source)  BY <1>1, <1>3 DEF RunShape
  <2>2. run' = [far EXCEPT !.errors = run.errors + errors, !.stopped = halt]
    BY <1>1, <1>2 DEF RunShape
  <2> HIDE DEF far
  <2> QED  BY <1>3, <2>1, <2>2 DEF RunShape
<1>5. /\ run'.index = run.index + 1 /\ run'.limits = run.limits \cup limits
      /\ run'.errors = run.errors + errors
      /\ run'.rows = run.rows /\ run'.fetched = run.fetched
  BY <1>1, <1>2 DEF RunShape
<1>6. /\ run'.planned = run.planned /\ run'.pagesDeclared = run.pagesDeclared
      /\ run'.itemsDeclared = run.itemsDeclared
  BY <1>1, <1>2 DEF RunShape
<1>7. Passed  BY <1>3, <1>4, <1>5, <1>6 DEF Passed, Clean
<1>8. pc = "reading" /\ remote = "RUNNING" /\ pc' = "loop"  BY DEF At, Lost
<1> QED  BY <1>7, <1>8, PassedKept, LoopKept

LEMMA PageUsed == ASSUME AccountInv, UsePage PROVE AccountInv'
<1>1. job \in Jobs /\ Collected(job.source, run) /\ ~run.stopped /\ Exists /\ remote = "RUNNING"
      /\ pc = "reading" /\ pc' = "loop"
  BY DEF AccountInv, UsePage, At
<1> DEFINE w == run'
<1>3. w = [AfterPage(Emitted(Counted)) EXCEPT !.index = @ + 1]  BY Zenon DEF UsePage, Counted
<1> HIDE DEF w
<1>4. Collected(job.source, w)  BY <1>1, <1>3, PageCollected, Zenon
<1>5. UNCHANGED <<job, remote, stored, imported>>  BY DEF UsePage
<1>6. Collected(job.source, run')  BY <1>4 DEF w
<1> QED  BY <1>1, <1>5, <1>6, LoopKept

LEMMA RunFinished == ASSUME AccountInv, Finish PROVE AccountInv'
<1> DEFINE short == Careful /\ run.limits = {} /\ run.errors = 0 /\ Unaccounted
<1>1. /\ run \in RunShape(job.source) /\ pc = "loop" /\ pc' = "push" /\ remote = "RUNNING"
      /\ run' = IF short THEN [run EXCEPT !.errors = 1] ELSE run
      /\ UNCHANGED <<job, remote, stored, imported>>
  BY DEF AccountInv, Collected, Finish, At, After
<1>2. /\ run'.index = run.index /\ run'.limits = run.limits /\ run'.stopped = run.stopped
      /\ run'.rows = run.rows /\ run'.fetched = run.fetched /\ run'.planned = run.planned
      /\ run'.pagesDeclared = run.pagesDeclared /\ run'.itemsDeclared = run.itemsDeclared
      /\ run' \in RunShape(job.source) /\ run'.errors = IF short THEN 1 ELSE run.errors
  BY <1>1 DEF RunShape
<1> HIDE DEF short
<1>3. Clean(run') => Clean(run) /\ ~short  BY <1>2 DEF Clean
<1>4. Clean(run) => ~run.stopped  BY DEF AccountInv, Collected, Whole
<1>5. Passed
  <2>1. run.index <= run.index  BY <1>1 DEF RunShape
  <2> QED  BY <1>2, <1>3, <1>4, <2>1 DEF Passed
<1>6. Collected(job.source, run')  BY <1>5, PassedKept
<1>7. ASSUME Clean(run')  PROVE run'.index >= run'.planned /\ (Careful => ~Unaccounted)'
  <2>1. Clean(run) /\ ~short /\ ~run.stopped  BY <1>3, <1>4, <1>7
  <2>2. ~(run.index < run.planned)
    BY <2>1 DEF Finish, Collecting, At, Clean
  <2>3. run.index >= run.planned  BY <1>1, <2>2 DEF RunShape
  <2>4. Careful => ~Unaccounted  BY <2>1 DEF short, Clean
  <2>5. Unaccounted' <=> Unaccounted  BY <1>2 DEF Unaccounted
  <2>6. Careful' <=> Careful  BY <1>1 DEF Careful
  <2> QED  BY <1>2, <2>3, <2>4, <2>5, <2>6
<1>8. Ended'  BY <1>7 DEF Ended
<1>9. output = None /\ output' = None  BY <1>1 DEF AccountInv, Reported, stored
<1>10. Reported'  BY <1>1, <1>8, <1>9 DEF Reported
<1>11. Imported'  BY <1>1, StillRunning
<1> QED  BY <1>1, <1>6, <1>10, <1>11 DEF AccountInv, stored

\* Steps that leave the run's counters alone leave its account alone.
LEMMA AccountKept ==
  ASSUME UNCHANGED <<job, run>>
  PROVE  /\ Ended' = Ended /\ Report' = Report
         /\ RowLists(job.source)' = RowLists(job.source)
         /\ Collected(job.source, run)' = Collected(job.source, run)
<1>1. Unaccounted' = Unaccounted /\ Careful' = Careful
  BY DEF Unaccounted, Careful
<1>2. Ended' = Ended  BY <1>1 DEF Ended
<1>3. Report' = Report  BY DEF Report, Echoes, Doctored, ErrorsReported
<1> QED  BY <1>2, <1>3

LEMMA RowsPushed == ASSUME AccountInv, Push PROVE AccountInv'
<1>1. /\ UNCHANGED <<job, run, output, imported>> /\ dataset' = run.rows /\ remote = "RUNNING"
      /\ pc = "push" /\ pc' = "output"
  BY DEF Push, At, After
<1>2. Ended' /\ Collected(job.source, run)'  BY <1>1, AccountKept DEF AccountInv, Reported
<1>3. dataset' \in RowLists(job.source)'
  BY <1>1, AccountKept DEF AccountInv, Collected, RunShape
<1>4. output = None /\ output' = None  BY <1>1 DEF AccountInv, Reported
<1>5. Reported'  BY <1>1, <1>2, <1>4 DEF Reported
<1>6. Imported'  BY <1>1, StillRunning
<1> QED  BY <1>1, <1>2, <1>3, <1>5, <1>6 DEF AccountInv

LEMMA OutputWritten == ASSUME AccountInv, WriteOutput PROVE AccountInv'
<1>1. /\ UNCHANGED <<job, run, dataset, imported>> /\ output' = Report /\ remote = "RUNNING"
      /\ pc = "output" /\ pc' = "exit"
  BY DEF WriteOutput, At, After
<1>2. Ended' /\ Collected(job.source, run)' /\ dataset = run.rows /\ output' = Report'
  BY <1>1, AccountKept DEF AccountInv, Reported
<1>3. dataset' \in RowLists(job.source)'  BY <1>1, AccountKept DEF AccountInv
<1>4. Reported'  BY <1>1, <1>2 DEF Reported
<1>5. Imported'  BY <1>1, StillRunning
<1> QED  BY <1>1, <1>2, <1>3, <1>4, <1>5 DEF AccountInv

LEMMA ActorExited == ASSUME AccountInv, Exit PROVE AccountInv'
<1>1. UNCHANGED <<job, run, dataset, output, imported>> /\ remote = "RUNNING" /\ pc' = "ended"
  BY DEF Exit, At, stored
<1>2. Collected(job.source, run)' /\ dataset' \in RowLists(job.source)'
  BY <1>1, AccountKept DEF AccountInv
<1>3. Reported'  BY <1>1, AccountKept DEF AccountInv, Reported
<1>4. Imported'  BY <1>1, StillRunning
<1> QED  BY <1>1, <1>2, <1>3, <1>4 DEF AccountInv

LEMMA RunKilled == ASSUME AccountInv, NEW status, Kill(status) PROVE AccountInv'
<1>1. UNCHANGED <<job, run, output, imported>> /\ remote = "RUNNING" /\ pc' = "ended"
  BY DEF Kill
<1>2. Collected(job.source, run)'  BY <1>1, AccountKept DEF AccountInv
<1>3. CASE pc = "push"
  <2>1. PICK n \in 0..Len(run.rows) : dataset' = SubSeq(run.rows, 1, n)  BY <1>3 DEF Kill
  <2>2. run.rows \in Seq(Listings(job.source))
    BY DEF AccountInv, Collected, RunShape, RowLists
  <2>3. dataset' \in RowLists(job.source)
    <3>1. Len(run.rows) \in Nat /\ 1 \in Int /\ n \in Int /\ 1 >= 1 /\ n <= Len(run.rows)
      BY <2>2
    <3>2. \A i \in 1..n : run.rows[i] \in Listings(job.source)  BY <2>2, <3>1
    <3>3. SubSeq(run.rows, 1, n) \in Seq(Listings(job.source))  BY <2>2, <3>1, <3>2
    <3> QED  BY <2>1, <3>3 DEF RowLists
  <2>4. output = None /\ output' = None  BY <1>1, <1>3 DEF AccountInv, Reported
  <2>5. Reported'  BY <1>1, <2>4 DEF Reported
  <2>6. Imported'
    <3>1. read = None /\ verdict = None  BY <1>1 DEF AccountInv, Imported
    <3> QED  BY <1>1, <3>1 DEF Imported, imported
  <2> QED  BY <1>1, <1>2, <2>3, <2>5, <2>6, AccountKept DEF AccountInv
<1>4. CASE pc # "push"
  <2>1. dataset' = dataset  BY <1>4 DEF Kill
  <2>2. dataset' \in RowLists(job.source)'  BY <1>1, <2>1, AccountKept DEF AccountInv
  <2>3. Reported'  BY <1>1, <2>1, AccountKept DEF AccountInv, Reported
  <2>4. Imported'
    <3>1. read = None /\ verdict = None  BY <1>1 DEF AccountInv, Imported
    <3> QED  BY <1>1, <3>1 DEF Imported, imported
  <2> QED  BY <1>1, <1>2, <2>2, <2>3, <2>4 DEF AccountInv
<1> QED  BY <1>3, <1>4

\* The verdict the stored run deserves.
Deserved == Classification(read.rows, Cardinality(Usable(RowsRead)))

LEMMA StoredIsFinal ==
  ASSUME UNCHANGED <<job, remote, stored, read>>
  PROVE  Deserved' = Deserved
<1>1. RowsRead' = RowsRead  BY DEF RowsRead, stored
<1>2. Usable(RowsRead)' = Usable(RowsRead)  BY <1>1 DEF Usable, Kind, Pages, Echoes
<1> DEFINE c == read.rows
           u == Cardinality(Usable(RowsRead))
<1>3. c' = c /\ u' = u  BY <1>2
<1>4. Contradicts(c)' = Contradicts(c)  BY <1>3 DEF Contradicts, stored
<1>5. ProvenEmpty' = ProvenEmpty  BY DEF ProvenEmpty, stored
<1>6. Deserved = Classification(c, u) /\ Deserved' = Classification(c, u)'  BY DEF Deserved
<1> HIDE DEF c, u
<1>7. Classification(c, u)' = Classification(c, u)
  BY <1>3, <1>4, <1>5, Zenon DEF Classification, stored
<1> QED  BY <1>6, <1>7

LEMMA DatasetRead == ASSUME AccountInv, ReadPage PROVE AccountInv'
<1>1. /\ UNCHANGED <<job, run, pc, remote, dataset, output, verdict>>
      /\ remote # "RUNNING" /\ verdict = None
  BY DEF ReadPage, Terminal, stored
<1>2. Collected(job.source, run)' /\ dataset' \in RowLists(job.source)'
  BY <1>1, AccountKept DEF AccountInv
<1>3. Reported'  BY <1>1, AccountKept DEF AccountInv, Reported
<1> DEFINE offset == IF read = None THEN 0 ELSE read.rows
           n == Len(dataset)
           count == Smaller(PageLimit, n - offset)
<1>4. n \in Nat /\ PageLimit \in Nat /\ PageLimit # 0
  BY ActorAssumption DEF AccountInv, RowLists
<1>5. offset \in 0..n  BY <1>4 DEF AccountInv, Imported
<1>6. PICK total \in {None, n} :
        read' = [rows |-> offset + count,
                 done |-> \/ Beyond(offset, count)
                          \/ total # None /\ offset + count >= n]
  BY Zenon DEF ReadPage
<1>7. /\ read'.rows = offset + count
      /\ read'.done => Beyond(offset, count) \/ offset + count >= n
  BY <1>6
<1> HIDE DEF n, offset
<1>8. count = (IF PageLimit <= n - offset THEN PageLimit ELSE n - offset)  BY DEF Smaller
<1> HIDE DEF count
<1>9. offset + count \in 0..n  BY <1>4, <1>5, <1>8
<1>10. Beyond(offset, count) => offset + count = n  BY <1>4, <1>5, <1>8 DEF Beyond
<1>11. offset + count >= n => offset + count = n  BY <1>4, <1>9
<1>12. read'.rows \in 0..n /\ (read'.done => read'.rows = n)  BY <1>7, <1>9, <1>10, <1>11
<1>13. Imported'  BY <1>1, <1>12 DEF Imported, n
<1> QED  BY <1>1, <1>2, <1>3, <1>13 DEF AccountInv

LEMMA RunClassified == ASSUME AccountInv, Classify PROVE AccountInv'
<1>1. /\ UNCHANGED <<job, run, pc, remote, dataset, output, read>>
      /\ read # None /\ read.done /\ verdict' = Deserved
  BY DEF Classify, stored, Deserved
<1>2. Collected(job.source, run)' /\ dataset' \in RowLists(job.source)'
  BY <1>1, AccountKept DEF AccountInv
<1>3. Reported'  BY <1>1, AccountKept DEF AccountInv, Reported
<1>4. verdict' = Deserved'  BY <1>1, StoredIsFinal DEF stored
<1>5. Imported'  BY <1>1, <1>4 DEF AccountInv, Imported, Deserved
<1> QED  BY <1>1, <1>2, <1>3, <1>5 DEF AccountInv

\* The clock, and a verdict that stands, change nothing the account is about.
LEMMA NothingMoves ==
  ASSUME AccountInv, UNCHANGED <<job, run, pc, remote, stored, imported>>
  PROVE  AccountInv'
<1>1. UNCHANGED <<job, run, pc, remote, dataset, output, read, verdict>>
  BY DEF stored, imported
<1>2. Collected(job.source, run)' /\ dataset' \in RowLists(job.source)'
  BY <1>1, AccountKept DEF AccountInv
<1>3. Reported'  BY <1>1, AccountKept DEF AccountInv, Reported
<1>4. Deserved' = Deserved  BY <1>1, StoredIsFinal DEF stored
<1>5. Imported'  BY <1>1, <1>4 DEF AccountInv, Imported, Deserved
<1> QED  BY <1>1, <1>2, <1>3, <1>5 DEF AccountInv

LEMMA AccountStep == AccountInv /\ [Next]_vars => AccountInv'
<1> SUFFICES ASSUME AccountInv, [Next]_vars PROVE AccountInv'
  OBVIOUS
<1>1. CASE Deadline  BY <1>1, NothingMoves DEF Deadline
<1>2. CASE SkipPage  BY <1>2, PageSkipped
<1>3. CASE StopForLimits  BY <1>3, LimitsStop
<1>4. CASE SendRequest  BY <1>4, RequestSent
<1>5. CASE Receive  BY <1>5, BytesReceived
<1>6. CASE TimeOut
  <2>1. {"time"} \in SUBSET LimitNames /\ {"time"} # {} /\ 0 \in Nat  BY DEF LimitNames
  <2> QED  BY <1>6, <2>1, ResponseLost DEF TimeOut
<1>7. CASE Unusable
  <2>1. {} \in SUBSET LimitNames /\ 1 \in Nat /\ 1 > 0  OBVIOUS
  <2> QED  BY <1>7, <2>1, ResponseLost DEF Unusable
<1>8. CASE UsePage  BY <1>8, PageUsed
<1>9. CASE Finish  BY <1>9, RunFinished
<1>10. CASE Push  BY <1>10, RowsPushed
<1>11. CASE WriteOutput  BY <1>11, OutputWritten
<1>12. CASE Exit  BY <1>12, ActorExited
<1>13. ASSUME NEW status, Kill(status)  PROVE AccountInv'  BY <1>13, RunKilled
<1>14. CASE ReadPage  BY <1>14, DatasetRead
<1>15. CASE Classify  BY <1>15, RunClassified
<1>16. CASE Judged \/ UNCHANGED vars
  BY <1>16, NothingMoves DEF Judged, vars, stored, imported
<1> QED
  BY <1>1, <1>2, <1>3, <1>4, <1>5, <1>6, <1>7, <1>8, <1>9, <1>10, <1>11, <1>12, <1>13,
     <1>14, <1>15, <1>16 DEF Next

LEMMA AccountAlways == Spec => []AccountInv
  BY AccountStart, AccountStep, PTL DEF Spec
-----------------------------------------------------------------------------
(* What the importer concludes.                                            *)

\* Only the last two cases of classify_run find nothing wrong.
LEMMA OnlyComplete ==
  ASSUME NEW count, NEW usable, Classification(count, usable).completeness = "complete"
  PROVE  /\ output # None /\ output.scope = "admitted" /\ output.version = "v1"
         /\ ~Contradicts(count) /\ ~(output.errors > 0)
         /\ output.limits = {} /\ output.complete /\ ~(count > 0 /\ usable = 0)
         /\ (count = 0 => ProvenEmpty) /\ (count # 0 => ~(usable < count))
  BY DEF Classification, Failed, PartialFailure, Truncated, ProvenEmpty

\* What the report of an unblemished run is, and what its counts say.
LEMMA CleanReport ==
  ASSUME AccountInv, output # None, ~(output.errors > 0), output.limits = {}
  PROVE  /\ Clean(run) /\ ~Doctored /\ output.pagesFetched = run.fetched
         /\ output.pagesDeclared = run.pagesDeclared /\ output.itemsDeclared = run.itemsDeclared
         /\ output.itemsEmitted = Len(run.rows) + (IF job.fault = "count_mismatch" THEN 1 ELSE 0)
<1>1. output = Report /\ run \in RunShape(job.source)
  BY DEF AccountInv, Reported, Collected
<1>2. /\ output.errors = ErrorsReported
      /\ output.limits = run.limits \cup (IF Doctored THEN {"pages"} ELSE {})
      /\ output.pagesFetched = run.fetched /\ output.pagesDeclared = run.pagesDeclared
      /\ output.itemsDeclared = run.itemsDeclared
      /\ output.itemsEmitted = Len(run.rows) + (IF job.fault = "count_mismatch" THEN 1 ELSE 0)
  BY <1>1 DEF Report
<1>3. run.limits = {} /\ ~Doctored  BY <1>2
<1>4. run.errors \in Nat /\ MaxErrors \in Nat /\ MaxErrors # 0
  BY <1>1, ActorAssumption DEF RunShape
<1>5. run.errors = 0  BY <1>2, <1>4 DEF ErrorsReported, Smaller
<1> QED  BY <1>2, <1>3, <1>5 DEF Clean

\* Pages passed unblemished hold every listing when they are all the pages.
LEMMA EveryPagePassed ==
  ASSUME AccountInv, Clean(run), run.fetched >= Len(Pages), NEW l \in Listings(job.source)
  PROVE  \E i \in DOMAIN run.rows : run.rows[i] = l
<1>1. PICK p, j : l = <<p, j>>  BY ListingIsPair
<1>2. p \in DOMAIN Pages /\ j \in DOMAIN Pages[p].listings  BY <1>1, InListings
<1>3. job \in Jobs /\ Whole(job.source, run) /\ run.index \in Nat
  BY DEF AccountInv, Collected, RunShape
<1>4. p \in 1..Len(Pages) /\ Len(Pages) \in Nat  BY <1>2, <1>3, SourceFacts
<1>5. run.fetched = run.index  BY <1>3 DEF Whole
<1>6. p \in 1..run.index  BY <1>3, <1>4, <1>5
<1> QED  BY <1>1, <1>2, <1>3, <1>6 DEF Whole, Pages

\* A run's rows are as many different listings.
RowSet == {run.rows[i] : i \in 1..Len(run.rows)}
LEMMA RowsCounted ==
  ASSUME AccountInv
  PROVE  IsFiniteSet(RowSet) /\ Cardinality(RowSet) = Len(run.rows)
<1> DEFINE n == Len(run.rows)
           f == [i \in 1..n |-> run.rows[i]]
<1>1. /\ run.rows \in Seq(Listings(job.source))
      /\ \A i, j \in DOMAIN run.rows : run.rows[i] = run.rows[j] => i = j
  BY DEF AccountInv, Collected, RunShape, RowLists, Once
<1>2. n \in Nat /\ DOMAIN run.rows = 1..n  BY <1>1
<1>3. RowSet = {run.rows[i] : i \in 1..n}  BY DEF RowSet
<1> HIDE DEF n
<1>4. \A i, j \in 1..n : f[i] = f[j] => i = j  BY <1>1, <1>2
<1>5. f \in [1..n -> RowSet] /\ \A t \in RowSet : \E i \in 1..n : f[i] = t  BY <1>3
<1> HIDE DEF f
<1>6. f \in Surjection(1..n, RowSet) /\ f \in Injection(1..n, RowSet)
  BY <1>4, <1>5 DEF Injection, Surjection, IsInjective
<1>7. IsFiniteSet(1..n) /\ Cardinality(1..n) = n
  <2>1. 1 \in Int /\ n \in Int  BY <1>2
  <2>2. IsFiniteSet(1..n) /\ Cardinality(1..n) = IF 1 > n THEN 0 ELSE n - 1 + 1
    BY <2>1, FS_Interval
  <2> QED  BY <1>2, <2>2
<1> QED  BY <1>6, <1>7, FS_Surjection DEF n

\* As many different listings as the source holds are all of them.
LEMMA AllOfThem ==
  ASSUME AccountInv, Len(run.rows) = Cardinality(Listings(job.source)),
         NEW l \in Listings(job.source)
  PROVE  \E i \in DOMAIN run.rows : run.rows[i] = l
<1>1. /\ run.rows \in Seq(Listings(job.source)) /\ IsFiniteSet(Listings(job.source))
  BY ListingsFinite DEF AccountInv, Collected, RunShape, RowLists
<1>2. RowSet \subseteq Listings(job.source) /\ DOMAIN run.rows = 1..Len(run.rows)
  BY <1>1 DEF RowSet
<1>3. RowSet = Listings(job.source)  BY <1>1, <1>2, RowsCounted, FS_Subset
<1> QED  BY <1>2, <1>3 DEF RowSet

LEMMA CompleteIsWhole == AccountInv => CompleteMeansWhole
<1> SUFFICES ASSUME AccountInv, verdict # None, verdict.completeness = "complete",
                    Honest(job.source), Coverable(job.source)
             PROVE  Usable(RowsRead) = Listings(job.source)
  BY DEF CompleteMeansWhole
<1> DEFINE n == Len(run.rows)
           usable == Cardinality(Usable(RowsRead))
<1>1. /\ read # None /\ read.rows \in 0..Len(dataset)
      /\ Classification(read.rows, usable).completeness = "complete"
  BY DEF AccountInv, Imported
<1>2. /\ output # None /\ ~Contradicts(read.rows) /\ ~(output.errors > 0) /\ output.limits = {}
      /\ output.complete /\ (read.rows = 0 => ProvenEmpty)
      /\ (read.rows # 0 => ~(usable < read.rows))
  BY <1>1, OnlyComplete
<1>3. /\ Clean(run) /\ output.pagesFetched = run.fetched
      /\ output.pagesDeclared = run.pagesDeclared /\ output.itemsDeclared = run.itemsDeclared
      /\ output.itemsEmitted = n + (IF job.fault = "count_mismatch" THEN 1 ELSE 0)
  BY <1>2, CleanReport
<1>4. /\ dataset = run.rows /\ run.index >= run.planned /\ job \in Jobs
      /\ run \in RunShape(job.source) /\ run.fetched = run.index
      /\ Told(job.source, run) /\ run.fetched \in Nat /\ run.planned \in Nat
  BY <1>2, <1>3 DEF AccountInv, Reported, Ended, Collected, Whole, RunShape
<1>5. run.rows \in Seq(Listings(job.source)) /\ n \in Nat /\ DOMAIN run.rows = 1..n
  BY <1>4 DEF RunShape, RowLists
<1>6. read.rows = n /\ output.itemsEmitted = n
  <2>1. output.itemsEmitted = read.rows /\ read.rows \in 0..n
    BY <1>1, <1>2, <1>4 DEF Contradicts
  <2> HIDE DEF n
  <2> QED  BY <1>3, <1>5, <2>1
<1>7. run.fetched > 0
  <2>1. CASE n = 0
    <3>1. output.pagesFetched >= 1  BY <1>2, <1>6, <2>1 DEF ProvenEmpty
    <3> QED  BY <1>3, <1>4, <3>1
  <2>2. CASE n # 0
    <3>1. run.rows # <<>>  BY <2>2
    <3>2. run.fetched # 0  BY <1>4, <3>1 DEF Told
    <3> QED  BY <1>4, <3>2
  <2> QED  BY <2>1, <2>2
<1>8. /\ run.pagesDeclared = job.source.pagesDeclared
      /\ run.itemsDeclared = job.source.itemsDeclared
      /\ run.planned = IF job.source.pagesDeclared = Undeclared THEN job.source.listed
                       ELSE Smaller(job.source.listed, job.source.pagesDeclared)
  BY <1>4, <1>7 DEF Told
<1>9. /\ job.source \in SourceShape /\ Len(Pages) \in Nat /\ job.source.listed \in Nat
      /\ Undeclared \notin Nat
  BY <1>4, SourceFacts, ActorAssumption DEF SourceShape
<1>10. \A l \in Listings(job.source) : \E i \in 1..n : run.rows[i] = l
  <2>1. CASE job.source.pagesDeclared # Undeclared
    <3>1. run.pagesDeclared = Len(Pages) /\ run.pagesDeclared # Undeclared
      BY <1>8, <2>1 DEF Honest, Pages
    <3>2. ~(run.fetched < run.pagesDeclared)  BY <1>2, <1>3, <3>1 DEF Contradicts
    <3>3. run.fetched >= Len(Pages)  BY <1>4, <1>9, <3>1, <3>2
    <3> QED  BY <1>3, <1>5, <3>3, EveryPagePassed
  <2>2. CASE job.source.pagesDeclared = Undeclared /\ job.source.listed >= Len(job.source.pages)
    <3>1. run.planned = job.source.listed /\ Len(job.source.pages) = Len(Pages)
      BY <1>8, <2>2 DEF Pages
    <3>2. run.fetched >= Len(Pages)  BY <1>4, <1>9, <2>2, <3>1
    <3> QED  BY <1>3, <1>5, <3>2, EveryPagePassed
  <2>3. CASE job.source.itemsDeclared # Undeclared
    <3>1. run.itemsDeclared = Cardinality(Listings(job.source)) /\ run.itemsDeclared # Undeclared
      BY <1>8, <2>3 DEF Honest
    <3>2. output.itemsEmitted = run.itemsDeclared  BY <1>2, <1>3, <3>1 DEF Contradicts
    <3>3. Len(run.rows) = Cardinality(Listings(job.source))  BY <1>6, <3>1, <3>2
    <3> QED  BY <1>5, <3>3, AllOfThem
  <2> QED  BY <2>1, <2>2, <2>3 DEF Coverable
<1>11. RowsRead = Listings(job.source)
  <2>1. RowsRead = {run.rows[i] : i \in 1..n}  BY <1>4, <1>6 DEF RowsRead
  <2>2. \A i \in 1..n : run.rows[i] \in Listings(job.source)  BY <1>5
  <2> HIDE DEF n
  <2> QED  BY <1>10, <2>1, <2>2
<1>12. Usable(RowsRead) = RowsRead
  <2>1. Usable(RowsRead) \in SUBSET RowsRead  BY DEF Usable
  <2>2. IsFiniteSet(RowsRead) /\ Cardinality(RowsRead) = n
    BY <1>4, <1>6, RowsCounted DEF RowsRead, RowSet
  <2>3. /\ usable \in Nat /\ usable <= Cardinality(RowsRead)
        /\ (Cardinality(RowsRead) = usable => RowsRead = Usable(RowsRead))
    BY <2>1, <2>2, FS_Subset, FS_CardinalityType
  <2>4. n # 0 => ~(usable < n)  BY <1>2, <1>6
  <2> HIDE DEF n, usable
  <2>5. Cardinality(RowsRead) = usable  BY <1>5, <2>2, <2>3, <2>4
  <2> QED  BY <2>3, <2>5
<1> QED  BY <1>11, <1>12

\* classify_run's complete verdict (the only one that lets delist_scope take an
\* unseen listing for absent) is earned: whatever was lost, cut short or killed
\* on the way, the run holds every listing of its source, if the source is
\* truthful and its extent is known.
THEOREM CompleteAlwaysWhole == Spec => []CompleteMeansWhole
  BY AccountAlways, CompleteIsWhole, PTL

\* What each rejecting case of classify_run needs to see.
LEMMA RejectedFor ==
  ASSUME NEW count, NEW usable, Classification(count, usable).reason \in Rejected, output # None
  PROVE  \/ output.version # "v1" \/ output.errors > MaxErrors \/ output.scope # "admitted"
         \/ Contradicts(count)
         \/ ~output.complete /\ ~(output.errors > 0) /\ output.limits = {}
  BY DEF Classification, Failed, PartialFailure, Complete, Truncated, Rejected

\* The account an honest Actor gives of an honest source passes every check.
LEMMA AccountAccepted == AccountInv => ReportAccepted
<1> SUFFICES ASSUME AccountInv, verdict # None, HonestJob, output # None,
                    verdict.reason \in Rejected
             PROVE  FALSE
  BY DEF ReportAccepted
<1> DEFINE n == Len(run.rows)
<1>1. /\ read.rows = n /\ output = Report /\ Ended
      /\ verdict = Classification(read.rows, Cardinality(Usable(RowsRead)))
  BY DEF AccountInv, Imported, Reported
<1>2. /\ job.fault = "none" /\ job.conduct = "synthetic" /\ Careful /\ Echoes /\ ~Doctored
      /\ Honest(job.source)
  BY DEF HonestJob, Careful, Echoes, Doctored
<1>3. /\ output.version = "v1" /\ output.scope = "admitted" /\ output.status = "succeeded"
      /\ output.complete = Clean(run) /\ output.truncated = (run.limits # {})
      /\ output.limits = run.limits /\ output.errors = ErrorsReported
  BY <1>1, <1>2 DEF Report, Clean
<1>4. /\ output.pagesDeclared = run.pagesDeclared /\ output.pagesFetched = run.fetched
      /\ output.itemsDeclared = run.itemsDeclared /\ output.itemsEmitted = n + 0
  BY <1>1, <1>2 DEF Report
<1>5. /\ run \in RunShape(job.source) /\ run.errors \in Nat /\ run.fetched \in Nat
      /\ run.fetched <= Len(job.source.pages) /\ Told(job.source, run) /\ n \in Nat
      /\ MaxErrors \in Nat /\ MaxErrors # 0 /\ Len(job.source.pages) \in Nat
  <2>1. run.rows \in Seq(Listings(job.source))
    BY DEF AccountInv, Collected, RunShape, RowLists
  <2>2. Len(job.source.pages) \in Nat  BY SourceFacts DEF AccountInv, Pages
  <2> QED  BY <2>1, <2>2, ActorAssumption DEF AccountInv, Collected, RunShape
<1> HIDE DEF n
<1>6. ~(output.errors > MaxErrors) /\ (output.errors > 0 <=> run.errors # 0)
  BY <1>3, <1>5 DEF ErrorsReported, Smaller
<1>7. ~(~output.complete /\ ~(output.errors > 0) /\ output.limits = {})
  BY <1>3, <1>6 DEF Clean
<1>8. output.complete => ~Unaccounted  BY <1>1, <1>2, <1>3 DEF Ended
<1>9. /\ run.pagesDeclared \in {Undeclared, Len(job.source.pages)}
      /\ output.itemsEmitted = n
  BY <1>2, <1>4, <1>5 DEF Told, Honest
<1>10. ~Contradicts(n)
  <2>1. ~(output.complete /\ output.limits # {}) /\ ~(output.complete /\ output.truncated)
    BY <1>3 DEF Clean
  <2>2. ~(output.truncated /\ output.limits = {})  BY <1>3
  <2>3. output.complete /\ output.itemsDeclared # Undeclared => n = output.itemsDeclared
    BY <1>4, <1>8 DEF Unaccounted, n
  <2>4. output.pagesDeclared # Undeclared => ~(output.pagesFetched > output.pagesDeclared)
    BY <1>4, <1>5, <1>9
  <2>5. output.complete /\ output.pagesDeclared # Undeclared =>
           ~(output.pagesFetched < output.pagesDeclared)
    BY <1>4, <1>8 DEF Unaccounted
  <2> QED  BY <1>3, <1>9, <2>1, <2>2, <2>3, <2>4, <2>5 DEF Contradicts
<1> QED  BY <1>1, <1>3, <1>6, <1>7, <1>10, RejectedFor
-----------------------------------------------------------------------------
(* A source that fits its caps, left alone.                                *)

Fits == HonestJob /\ Sound(job.source) /\ Capacious(job.caps, job.source)

\* The bytes of the first k pages.
FirstBytes(s, k) == [p \in DOMAIN s.pages |-> IF p <= k THEN s.pages[p].bytes ELSE 0]
BytesTo(s, k) == SumFunction(FirstBytes(s, k))

\* Nothing has stopped the run: it has asked for each page once, and what it has
\* received is what those pages hold.
Unharmed ==
    /\ ~late /\ remote = (IF pc = "ended" THEN "SUCCEEDED" ELSE "RUNNING")
    /\ Clean(run) /\ ~run.exhausted /\ ~run.stopped /\ run.byteCap = job.caps.bytes
    /\ run.attempted = run.index + (IF pc = "reading" THEN 1 ELSE 0)
    /\ run.requests = run.attempted
    /\ run.bytes = BytesTo(job.source, run.index) + (IF pc = "reading" THEN got ELSE 0)
    /\ pc = "reading" => Exists /\ got \in 0..Page.bytes
    /\ pc \notin {"loop", "reading"} => run.index = Len(Pages)
    /\ pc \in {"exit", "ended"} => output # None
FitInv == Fits /\ ~disturbed => Unharmed

LEMMA BytesAdd ==
  ASSUME job \in Jobs
  PROVE  LET s == job.source  n == Len(Pages) IN
         /\ \A k \in 0..n : BytesTo(s, k) \in Nat /\ BytesTo(s, k) <= BytesTo(s, n)
         /\ BytesTo(s, 0) = 0
         /\ \A k \in 0..(n - 1) : BytesTo(s, k + 1) = BytesTo(s, k) + Pages[k + 1].bytes
         /\ BytesTo(s, n) = SumFunction([p \in DOMAIN s.pages |-> s.pages[p].bytes])
<1> DEFINE s == job.source
           n == Len(Pages)
           D == 1..n
           f(k) == [p \in D |-> IF p <= k THEN Pages[p].bytes ELSE 0]
<1>1. /\ n \in Nat /\ DOMAIN Pages = D /\ \A p \in D : Pages[p].bytes \in Nat
      /\ IsFiniteSet(D) /\ s.pages = Pages
  BY SourceFacts, PlacesFinite DEF Pages
<1>2. \A k : BytesTo(s, k) = SumFunction(f(k))  BY <1>1 DEF BytesTo, FirstBytes
<1> HIDE DEF n
<1>3. \A k \in 0..n : f(k) \in [D -> Nat] /\ f(k) \in [D -> Int]  BY <1>1
<1>4. \A k \in 0..n : BytesTo(s, k) \in Nat  BY <1>1, <1>2, <1>3, SumNat
<1>5. ASSUME NEW k \in 0..n  PROVE BytesTo(s, k) <= BytesTo(s, n)
  <2> DEFINE a == f(k)
             b == f(n)
  <2>1. \A p \in D : a[p] <= b[p]  BY <1>1
  <2>2. a \in [D -> Int] /\ b \in [D -> Int]  BY <1>1, <1>3
  <2>3. BytesTo(s, k) = SumFunction(a) /\ BytesTo(s, n) = SumFunction(b)  BY <1>2
  <2> HIDE DEF a, b, D, f
  <2> QED  BY <1>1, <2>1, <2>2, <2>3, SumMonotone
<1>6. BytesTo(s, 0) = 0
  <2> DEFINE a == f(0)
  <2>1. \A p \in D : a[p] = 0  BY <1>1
  <2>2. a \in [D -> Int]  BY <1>1, <1>3
  <2>3. BytesTo(s, 0) = SumFunction(a)  BY <1>2
  <2> HIDE DEF a, D, f
  <2> QED  BY <1>1, <2>1, <2>2, <2>3, SumZero
<1>7. ASSUME NEW k \in 0..(n - 1)  PROVE BytesTo(s, k + 1) = BytesTo(s, k) + Pages[k + 1].bytes
  <2> DEFINE a == f(k)
             b == f(k + 1)
             x == k + 1
  <2>1. x \in D /\ k \in 0..n /\ x \in 0..n  BY <1>1
  <2>2. a[x] = 0 /\ b[x] = Pages[x].bytes /\ \A p \in D \ {x} : b[p] = a[p]  BY <1>1, <2>1
  <2>3. a \in [D -> Int] /\ b \in [D -> Int]  BY <1>3, <2>1
  <2>4. BytesTo(s, k) = SumFunction(a) /\ BytesTo(s, x) = SumFunction(b)  BY <1>2
  <2>0. IsFiniteSet(D) /\ x \in D /\ \A p \in D \ {x} : b[p] = a[p]  BY <1>1, <2>1, <2>2
  <2> HIDE DEF a, b, D, f, x
  <2>5. SumFunction(b) = SumFunction(a) + b[x] - a[x]  BY <2>0, <2>3, SumChanged, Zenon
  <2>6. SumFunction(a) \in Nat /\ Pages[x].bytes \in Nat  BY <1>1, <1>4, <2>1, <2>4
  <2>7. BytesTo(s, x) = BytesTo(s, k) + Pages[x].bytes  BY <2>2, <2>4, <2>5, <2>6
  <2> QED  BY <2>7 DEF x
<1>8. BytesTo(s, n) = SumFunction([p \in DOMAIN s.pages |-> s.pages[p].bytes])
  <2>1. f(n) = [p \in DOMAIN s.pages |-> s.pages[p].bytes]  BY <1>1
  <2> QED  BY <1>2, <2>1
<1> QED  BY <1>4, <1>5, <1>6, <1>7, <1>8 DEF n

\* An unblemished run's plan is the source's pages.
LEMMA FitPlan ==
  ASSUME AccountInv, Fits, Clean(run)
  PROVE  /\ run.fetched = run.index /\ run.index \in 0..Len(Pages) /\ Len(Pages) \in Nat
         /\ Len(Pages) > 0 /\ run.planned \in Nat
         /\ (run.index < run.planned => run.index < Len(Pages))
         /\ (run.index >= run.planned => run.index = Len(Pages) /\ run.planned = Len(Pages))
<1>1. /\ job \in Jobs /\ run.fetched = run.index /\ run.index \in Nat /\ run.planned \in Nat
      /\ run.fetched <= Len(Pages) /\ Told(job.source, run)
  BY DEF AccountInv, Collected, Whole, RunShape, Pages
<1>2. Len(Pages) \in Nat /\ job.source.listed \in Nat /\ Undeclared \notin Nat
  BY <1>1, SourceFacts, ActorAssumption DEF SourceShape
<1>3. /\ Pages # <<>> /\ job.source.listed >= Len(Pages)
      /\ (job.source.listed > Len(Pages) => job.source.pagesDeclared # Undeclared)
      /\ job.source.pagesDeclared \in {Undeclared, Len(Pages)}
  BY DEF Fits, Sound, Honest, Pages
<1>4. Len(Pages) > 0  BY <1>1, <1>2, <1>3, SourceFacts
<1>5. run.fetched = 0 => run.planned = job.source.listed  BY <1>1 DEF Told
<1>6. run.fetched > 0 => run.planned = Len(Pages)
  <2> SUFFICES ASSUME run.fetched > 0 PROVE run.planned = Len(Pages)
    OBVIOUS
  <2>1. run.planned = IF job.source.pagesDeclared = Undeclared THEN job.source.listed
                      ELSE Smaller(job.source.listed, job.source.pagesDeclared)
    BY <1>1 DEF Told
  <2>2. CASE job.source.pagesDeclared = Undeclared  BY <1>2, <1>3, <2>1, <2>2
  <2>3. CASE job.source.pagesDeclared # Undeclared
    <3>1. run.planned = Smaller(job.source.listed, Len(Pages))  BY <1>3, <2>1, <2>3
    <3> QED  BY <1>2, <1>3, <3>1 DEF Smaller
  <2> QED  BY <2>2, <2>3
<1> QED  BY <1>1, <1>2, <1>3, <1>4, <1>5, <1>6

\* While a page is left, the rows so far and what the page emits before one of
\* its listings leave room for that listing.
LEMMA RoomLeft ==
  ASSUME AccountInv, Fits, Clean(run), Exists, NEW j \in DOMAIN Page.listings
  PROVE  Len(run.rows) + EmittedBefore(run.index + 1, j) < ItemCap
<1> DEFINE p == run.index + 1
           n == Len(run.rows)
           L == Listings(job.source)
           R == {run.rows[i] : i \in 1..n}
           E == {i \in 1..(j - 1) : Pages[p].listings[i] # "bad"}
           B == {<<p, i>> : i \in E}
<1>1. /\ job \in Jobs /\ run.index \in Nat /\ p \in DOMAIN Pages /\ run.rows \in Seq(L)
      /\ Once(run)
  BY DEF AccountInv, Collected, RunShape, RowLists, Exists
<1>2. n \in Nat /\ DOMAIN run.rows = 1..n /\ \A i \in 1..n : run.rows[i] \in L  BY <1>1
<1>3. j \in Nat /\ j >= 1 /\ \A i \in 1..(j - 1) : i \in DOMAIN Pages[p].listings /\ i # j
  BY <1>1, SourceFacts DEF Page
<1>4. IsFiniteSet(L) /\ Cardinality(L) \in Nat /\ <<p, j>> \in L
  BY <1>1, ListingsFinite, FS_CardinalityType, InListings DEF Page
<1>5. IsFiniteSet(E) /\ Cardinality(E) \in Nat
  <2>1. 1 \in Int /\ j - 1 \in Int  BY <1>3
  <2>2. IsFiniteSet(1..(j - 1)) /\ E \in SUBSET (1..(j - 1))  BY <2>1, FS_Interval
  <2> QED  BY <2>2, FS_Subset, FS_CardinalityType
<1>6. B \subseteq L /\ <<p, j>> \notin B  BY <1>1, <1>3, InListings
<1>7. \A i \in 1..n : run.rows[i][1] # p
  <2> SUFFICES ASSUME NEW i \in 1..n, run.rows[i][1] = p PROVE FALSE
    OBVIOUS
  <2>1. run.rows[i][1] <= run.index  BY <1>1, <1>2 DEF Once
  <2> QED  BY <1>1, <2>1
<1>8. R \cap B = {} /\ <<p, j>> \notin R /\ R \subseteq L
  <2>1. \A i \in E : <<p, i>>[1] = p  OBVIOUS
  <2>2. <<p, j>>[1] = p  OBVIOUS
  <2> QED  BY <1>2, <1>7, <2>1, <2>2
<1>9. IsFiniteSet(R) /\ Cardinality(R) = n  BY RowsCounted DEF RowSet
<1>10. IsFiniteSet(B) /\ Cardinality(B) = Cardinality(E)
  <2> DEFINE f == [i \in E |-> <<p, i>>]
  <2>1. f \in Surjection(E, B) /\ f \in Injection(E, B)
    <3>1. \A i, k \in E : f[i] = f[k] => i = k
      <4> SUFFICES ASSUME NEW i \in E, NEW k \in E, f[i] = f[k] PROVE i = k
        OBVIOUS
      <4>1. <<p, i>> = <<p, k>>  OBVIOUS
      <4> QED  BY <4>1
    <3>2. f \in [E -> B] /\ \A t \in B : \E i \in E : f[i] = t  OBVIOUS
    <3> HIDE DEF f, B, E
    <3> QED  BY <3>1, <3>2 DEF Injection, Surjection, IsInjective
  <2> HIDE DEF f, B, E
  <2> QED  BY <1>5, <2>1, FS_Surjection
<1> HIDE DEF R, B, E, L, n
<1>11. IsFiniteSet(R \cup B) /\ Cardinality(R \cup B) = n + Cardinality(E)
  <2>1. Cardinality(R \cap B) = 0  BY <1>8, FS_EmptySet
  <2>2. Cardinality(R \cup B) = Cardinality(R) + Cardinality(B) - Cardinality(R \cap B)
    BY <1>9, <1>10, FS_Union
  <2> QED  BY <1>2, <1>5, <1>9, <1>10, <2>1, <2>2, FS_Union
<1>12. n + Cardinality(E) < Cardinality(L)
  <2>1. R \cup B \in SUBSET (L \ {<<p, j>>})  BY <1>6, <1>8
  <2>2. IsFiniteSet(L \ {<<p, j>>}) /\ Cardinality(L \ {<<p, j>>}) = Cardinality(L) - 1
    BY <1>4, FS_RemoveElement
  <2>3. Cardinality(R \cup B) <= Cardinality(L) - 1  BY <2>1, <2>2, FS_Subset
  <2> QED  BY <1>2, <1>4, <1>5, <1>11, <2>3
<1>13. /\ job.caps.items >= Cardinality(L) /\ ItemCap = job.caps.items /\ job.caps.items \in Nat
  BY <1>1, SourceFacts DEF Fits, HonestJob, Capacious, ItemCap, L, CapShape
<1>14. EmittedBefore(p, j) = Cardinality(E)  BY DEF EmittedBefore, E
<1>15. n + EmittedBefore(p, j) < ItemCap  BY <1>2, <1>4, <1>5, <1>12, <1>13, <1>14
<1> QED  BY <1>15 DEF n

\* A page with room for all of its listings, each of them good, leaves nothing
\* on record.
LEMMA PageFits ==
  ASSUME job \in Jobs, NEW r \in RunShape(job.source), r.index + 1 \in DOMAIN Pages,
         \A j \in DOMAIN Pages[r.index + 1].listings :
             /\ Kind(<<r.index + 1, j>>) = "good"
             /\ Len(r.rows) + EmittedBefore(r.index + 1, j) < ItemCap
  PROVE  LET e == Emitted(r) IN
         \A f \in {"index", "fetched", "limits", "errors", "requests", "attempted", "bytes",
                   "byteCap", "exhausted", "stopped"} : e[f] = r[f]
<1> DEFINE p == r.index + 1
           D == DOMAIN Pages[p].listings
           reached == {j \in D : Len(r.rows) + EmittedBefore(p, j) < ItemCap}
           order == Ascending({j \in reached : Kind(<<p, j>>) # "bad"})
           add == [i \in DOMAIN order |-> <<p, order[i]>>]
           bad == {j \in reached : Kind(<<p, j>>) = "bad"}
           full == IF Leaves(r, reached) THEN r.limits \cup {"items"} ELSE r.limits
           e == [r EXCEPT !.rows = @ \o add, !.errors = @ + Cardinality(bad), !.limits = full]
<1>1. Emitted(r) = e  BY Zenon DEF Emitted
<1>2. reached = D /\ bad = {}  OBVIOUS
<1>3. full = r.limits  BY <1>2 DEF Leaves
<1>4. Cardinality(bad) = 0  BY <1>2, FS_EmptySet
<1>5. r.errors + Cardinality(bad) = r.errors  BY <1>4 DEF RunShape
<1> HIDE DEF add, bad, full
<1>6. \A f \in {"index", "fetched", "limits", "errors", "requests", "attempted", "bytes",
                "byteCap", "exhausted", "stopped"} : e[f] = r[f]
  BY <1>3, <1>5 DEF RunShape
<1> QED  BY <1>1, <1>6

\* What is not the fault mode's doing, AfterPage leaves alone.
LEMMA NoFaultAfter ==
  ASSUME NEW r \in RunShape(job.source), job.fault = "none"
  PROVE  /\ AfterPage(r).byteCap = r.byteCap /\ AfterPage(r).exhausted = r.exhausted
         /\ AfterPage(r).stopped = r.stopped /\ AfterPage(r).errors = r.errors
         /\ \A f \in {"index", "limits", "requests", "attempted", "bytes", "rows"} :
               AfterPage(r)[f] = r[f]
         /\ AfterPage(r) \in [DOMAIN r -> {AfterPage(r)[f] : f \in DOMAIN r}]
         /\ DOMAIN AfterPage(r) = DOMAIN r
<1> DEFINE first == r.fetched = 1
           spent == r.exhausted \/ (first /\ job.fault = "truncate_time")
           halted == r.stopped \/ (first /\ job.fault = "fail")
           wrong == IF first /\ job.fault = "fail" THEN r.errors + 1 ELSE r.errors
           a == [r EXCEPT !.byteCap = ByteCap(r), !.exhausted = spent, !.stopped = halted,
                          !.errors = wrong]
<1>1. AfterPage(r) = a  BY DEF AfterPage
<1>2. ByteCap(r) = r.byteCap /\ wrong = r.errors  BY DEF ByteCap
<1>3. spent = r.exhausted /\ halted = r.stopped  BY DEF RunShape
<1> HIDE DEF spent, halted, wrong
<1>4. a.byteCap = r.byteCap /\ a.exhausted = r.exhausted /\ a.stopped = r.stopped
      /\ a.errors = r.errors
  BY <1>2, <1>3 DEF RunShape
<1>5. \A f \in {"index", "limits", "requests", "attempted", "bytes", "rows"} : a[f] = r[f]
  BY DEF RunShape
<1>6. a \in [DOMAIN r -> {a[f] : f \in DOMAIN r}] /\ DOMAIN a = DOMAIN r  OBVIOUS
<1> HIDE DEF a
<1> QED  BY <1>1, <1>4, <1>5, <1>6

\* What a page that is left still needs, its caps allow.
LEMMA CapsAllow ==
  ASSUME AccountInv, Fits, Clean(run), Exists
  PROVE  /\ BytesTo(job.source, run.index) \in Nat /\ Page.bytes \in Nat /\ Page.bytes > 0
         /\ BytesTo(job.source, run.index + 1) = BytesTo(job.source, run.index) + Page.bytes
         /\ BytesTo(job.source, run.index) + Page.bytes <= job.caps.bytes
         /\ run.index \in Nat /\ run.index < job.caps.requests /\ run.index < PageCap
         /\ Len(run.rows) < ItemCap
         /\ \A f \in {"bytes", "requests", "pages", "items"} : job.caps[f] \in Nat
<1> DEFINE k == run.index
           n == Len(Pages)
<1>1. /\ job \in Jobs /\ k \in Nat /\ n \in Nat /\ k + 1 \in 1..n /\ k + 1 \in DOMAIN Pages
      /\ k \in 0..n /\ k \in 0..(n - 1)
  <2>1. job \in Jobs /\ k \in Nat /\ k + 1 \in DOMAIN Pages
    BY DEF AccountInv, Collected, RunShape, Exists
  <2>2. n \in Nat /\ k + 1 \in 1..n  BY <2>1, SourceFacts
  <2> QED  BY <2>1, <2>2
<1>2. /\ Pages[k + 1].listings # <<>> /\ Pages[k + 1] \in PageShape /\ Pages \in Seq(PageShape)
  BY <1>1, SourceFacts DEF Fits, Sound, Pages
<1>3. /\ Page.bytes \in Nat /\ Page.bytes > 0 /\ 1 \in DOMAIN Page.listings
      /\ Page = Pages[k + 1]
  <2>1. Page = Pages[k + 1]  BY DEF Page
  <2>2. Page.bytes \in Nat /\ Page.bytes > 0  BY <1>2, <2>1 DEF PageShape
  <2>3. Page.listings \in Seq({"good", "free", "bad"})  BY <1>2, <2>1 DEF PageShape
  <2>4. Page.listings # <<>>  BY <1>2, <2>1
  <2> QED  BY <2>1, <2>2, <2>3, <2>4
<1>4. \A f \in {"bytes", "requests", "pages", "items"} : job.caps[f] \in Nat
  BY <1>1, SourceFacts DEF CapShape
<1>5. job.source.pages = Pages /\ job.fault = "none"  BY DEF Pages, Fits, HonestJob
<1>6. /\ job.caps.pages >= n /\ job.caps.requests >= n
      /\ job.caps.bytes >= SumFunction([p \in DOMAIN job.source.pages |-> job.source.pages[p].bytes])
  BY <1>5 DEF Fits, Capacious
<1>7. /\ \A i \in 0..n : BytesTo(job.source, i) \in Nat /\ BytesTo(job.source, i) <= BytesTo(job.source, n)
      /\ \A i \in 0..(n - 1) :
            BytesTo(job.source, i + 1) = BytesTo(job.source, i) + Pages[i + 1].bytes
      /\ BytesTo(job.source, n) <= job.caps.bytes
  BY <1>1, <1>4, <1>6, BytesAdd
<1>8. /\ BytesTo(job.source, k) \in Nat /\ BytesTo(job.source, n) \in Nat
      /\ BytesTo(job.source, k + 1) = BytesTo(job.source, k) + Page.bytes
      /\ BytesTo(job.source, k + 1) <= BytesTo(job.source, n)
  <2>1. n \in 0..n /\ k + 1 \in 0..n  BY <1>1
  <2> QED  BY <1>1, <1>3, <1>7, <2>1
<1>9. BytesTo(job.source, k) + Page.bytes <= job.caps.bytes
  <2>1. job.caps.bytes \in Nat  BY <1>4
  <2> QED  BY <1>3, <1>7, <1>8, <2>1
<1>10. PageCap = job.caps.pages /\ ItemCap = job.caps.items  BY <1>5 DEF PageCap, ItemCap
<1>11. Len(run.rows) < ItemCap
  <2>1. Len(run.rows) + EmittedBefore(k + 1, 1) < ItemCap  BY <1>3, RoomLeft
  <2>2. {i \in 1..(1 - 1) : Pages[k + 1].listings[i] # "bad"} = {}  OBVIOUS
  <2>3. EmittedBefore(k + 1, 1) = 0  BY <2>2, FS_EmptySet DEF EmittedBefore
  <2>4. run.rows \in Seq(Listings(job.source))
    BY DEF AccountInv, Collected, RunShape, RowLists
  <2>5. Len(run.rows) \in Nat  BY <2>4
  <2> QED  BY <2>1, <2>3, <2>5
<1>12. k < job.caps.requests /\ k < PageCap
  <2>1. job.caps.requests \in Nat /\ job.caps.pages \in Nat  BY <1>4
  <2> HIDE DEF k, n
  <2> QED  BY <1>1, <1>6, <1>10, <2>1
<1> QED  BY <1>1, <1>3, <1>4, <1>8, <1>9, <1>11, <1>12

LEMMA NothingBinds ==
  ASSUME AccountInv, Fits, Unharmed, At("loop"), run.index < run.planned
  PROVE  Exists /\ Binding = {} /\ ~SkipsPage
<1>1. /\ Clean(run) /\ job.fault = "none" /\ pc = "loop" /\ ~late /\ ~run.exhausted
      /\ run.byteCap = job.caps.bytes /\ run.attempted = run.index + 0
      /\ run.requests = run.attempted /\ run.bytes = BytesTo(job.source, run.index) + 0
  BY DEF Unharmed, Fits, HonestJob, At
<1>2. run.index \in Nat /\ Len(Pages) \in Nat /\ run.index < Len(Pages)  BY <1>1, FitPlan
<1>3. Exists
  <2>1. DOMAIN Pages = 1..Len(Pages)  BY SourceFacts DEF AccountInv
  <2> QED  BY <1>2, <2>1 DEF Exists
<1>4. /\ BytesTo(job.source, run.index) \in Nat /\ Page.bytes \in Nat /\ Page.bytes > 0
      /\ BytesTo(job.source, run.index) + Page.bytes <= job.caps.bytes
      /\ run.index < job.caps.requests /\ run.index < PageCap /\ Len(run.rows) < ItemCap
      /\ job.caps.bytes \in Nat /\ job.caps.requests \in Nat /\ job.caps.pages \in Nat
      /\ job.caps.items \in Nat
  BY <1>1, <1>3, CapsAllow
<1>5. PageCap = job.caps.pages /\ ItemCap = job.caps.items  BY <1>1 DEF PageCap, ItemCap
<1>6. Len(run.rows) \in Nat
  <2>1. run.rows \in Seq(Listings(job.source))
    BY DEF AccountInv, Collected, RunShape, RowLists
  <2> QED  BY <2>1
<1>7. /\ ~(late \/ run.exhausted) /\ ~(run.bytes >= run.byteCap)
      /\ ~(run.requests >= job.caps.requests) /\ ~(run.attempted >= PageCap)
      /\ ~(Len(run.rows) >= ItemCap)
  <2> DEFINE b == BytesTo(job.source, run.index)
  <2>1. b \in Nat /\ run.bytes = b + 0 /\ b < job.caps.bytes /\ run.byteCap = job.caps.bytes
    <3>1. b \in Nat /\ Page.bytes \in Nat /\ Page.bytes > 0 /\ b + Page.bytes <= job.caps.bytes
          /\ job.caps.bytes \in Nat
      BY <1>4
    <3> QED  BY <1>1, <3>1
  <2> HIDE DEF b
  <2>2. run.bytes < run.byteCap /\ run.bytes \in Int /\ run.byteCap \in Int  BY <1>4, <2>1
  <2>3. run.attempted = run.index /\ run.requests = run.index  BY <1>1, <1>2
  <2> QED  BY <1>1, <1>2, <1>4, <1>5, <1>6, <2>2, <2>3
<1>8. Binding = {}
  <2> DEFINE binds == [time     |-> late \/ run.exhausted,
                       bytes    |-> run.bytes >= run.byteCap,
                       requests |-> run.requests >= job.caps.requests,
                       pages    |-> run.attempted >= PageCap,
                       items    |-> Len(run.rows) >= ItemCap]
  <2>1. Binding = {l \in LimitNames : binds[l]}  BY Zenon DEF Binding
  <2>2. /\ ~binds.time /\ ~binds.bytes /\ ~binds.requests /\ ~binds.pages /\ ~binds.items
    BY <1>7
  <2> HIDE DEF binds
  <2> QED  BY <2>1, <2>2 DEF LimitNames
<1>9. ~SkipsPage  BY <1>1 DEF SkipsPage
<1> QED  BY <1>3, <1>8, <1>9

\* What Unharmed says of the counters, for the next ones.
LEMMA UsedUnharmed ==
  ASSUME AccountInv, Fits, Unharmed, UsePage
  PROVE  Unharmed'
<1> DEFINE d == Counted
           e == Emitted(d)
           a == AfterPage(e)
           k == run.index
<1>1. /\ Clean(run) /\ pc = "reading" /\ pc' = "loop" /\ Exists /\ got = Page.bytes /\ ~late
      /\ remote = "RUNNING" /\ ~run.exhausted /\ ~run.stopped /\ run.byteCap = job.caps.bytes
      /\ run.attempted = k + 1 /\ run.requests = run.attempted
      /\ run.bytes = BytesTo(job.source, k) + got /\ job.fault = "none"
      /\ UNCHANGED <<job, late, remote>>
  BY DEF Unharmed, UsePage, At, Fits, HonestJob
<1>2. job \in Jobs /\ Collected(job.source, run) /\ run \in RunShape(job.source) /\ k \in Nat
      /\ k + 1 \in DOMAIN Pages
  BY <1>1 DEF AccountInv, Collected, RunShape, Exists
<1>3. /\ BytesTo(job.source, k + 1) = BytesTo(job.source, k) + Page.bytes
  BY <1>1, CapsAllow
<1>4. d \in RunShape(job.source) /\ \A f \in Untouched : d[f] = run[f]
  BY <1>2, PageCounted
<1>5. d.index = k /\ d.rows = run.rows  BY <1>4 DEF Untouched
<1> HIDE DEF d
<1>6. \A j \in DOMAIN Pages[d.index + 1].listings :
         /\ Kind(<<d.index + 1, j>>) = "good"
         /\ Len(d.rows) + EmittedBefore(d.index + 1, j) < ItemCap
  <2> SUFFICES ASSUME NEW j \in DOMAIN Pages[k + 1].listings
               PROVE  /\ Kind(<<k + 1, j>>) = "good"
                      /\ Len(run.rows) + EmittedBefore(k + 1, j) < ItemCap
    BY <1>5
  <2>1. <<k + 1, j>> \in Listings(job.source)  BY <1>2, InListings
  <2>2. Kind(<<k + 1, j>>) = "good"  BY <2>1 DEF Fits, Sound, Kind, Pages
  <2>3. j \in DOMAIN Page.listings  BY DEF Page
  <2> QED  BY <1>1, <2>2, <2>3, RoomLeft
<1>7. d.index + 1 \in DOMAIN Pages  BY <1>2, <1>5
<1>8. e \in RunShape(job.source)  BY <1>2, <1>4, <1>7, PageEmitted
<1>9. \A f \in {"index", "fetched", "limits", "errors", "requests", "attempted", "bytes",
                "byteCap", "exhausted", "stopped"} : e[f] = d[f]
  BY <1>2, <1>4, <1>6, <1>7, PageFits, Zenon
<1> HIDE DEF e
<1>10. /\ a.byteCap = e.byteCap /\ a.exhausted = e.exhausted /\ a.stopped = e.stopped
       /\ a.errors = e.errors /\ a.index = e.index /\ a.limits = e.limits
       /\ a.requests = e.requests /\ a.attempted = e.attempted /\ a.bytes = e.bytes
       /\ DOMAIN a = DOMAIN e
  BY <1>1, <1>8, NoFaultAfter
<1>11. run' = [a EXCEPT !.index = @ + 1]  BY Zenon DEF UsePage, a, e, d, Counted
<1> HIDE DEF a
<1>12. DOMAIN a = {"index", "planned", "rows", "errors", "limits", "requests", "attempted",
                   "fetched", "bytes", "pagesDeclared", "itemsDeclared", "byteCap",
                   "exhausted", "stopped"}
  BY <1>8, <1>10 DEF RunShape
<1>13. /\ run'.index = a.index + 1 /\ run'.byteCap = a.byteCap /\ run'.exhausted = a.exhausted
       /\ run'.stopped = a.stopped /\ run'.errors = a.errors /\ run'.limits = a.limits
       /\ run'.requests = a.requests /\ run'.attempted = a.attempted /\ run'.bytes = a.bytes
  BY <1>11, <1>12
<1>14. /\ run'.index = k + 1 /\ run'.byteCap = run.byteCap /\ run'.exhausted = run.exhausted
       /\ run'.stopped = run.stopped /\ run'.errors = run.errors /\ run'.limits = run.limits
       /\ run'.requests = run.requests /\ run'.attempted = run.attempted
       /\ run'.bytes = run.bytes
  BY <1>4, <1>5, <1>9, <1>10, <1>13 DEF Untouched
<1>15. Clean(run') /\ job'.source = job.source /\ job'.caps = job.caps  BY <1>1, <1>14 DEF Clean
<1>16. /\ run'.bytes = BytesTo(job.source, run'.index) + 0 /\ run'.attempted = run'.index + 0
  <2>1. BytesTo(job.source, k) \in Nat /\ Page.bytes \in Nat  BY <1>1, CapsAllow
  <2> QED  BY <1>1, <1>2, <1>3, <1>14, <2>1
<1> QED  BY <1>1, <1>14, <1>15, <1>16 DEF Unharmed

LEMMA SentUnharmed == ASSUME AccountInv, Fits, Unharmed, SendRequest PROVE Unharmed'
<1>1. /\ pc = "loop" /\ pc' = "reading" /\ got' = 0 /\ run \in RunShape(job.source)
      /\ UNCHANGED <<job, late, remote>> /\ run.index < run.planned /\ At("loop")
      /\ run' = [run EXCEPT !.requests = @ + 1, !.attempted = @ + 1]
  BY DEF SendRequest, Collecting, At, AccountInv, Collected
<1>2. Exists /\ Clean(run)  BY <1>1, NothingBinds DEF Unharmed
<1>3. Page.bytes \in Nat /\ BytesTo(job.source, run.index) \in Nat  BY <1>2, CapsAllow
<1>4. /\ run'.index = run.index /\ run'.limits = run.limits /\ run'.errors = run.errors
      /\ run'.exhausted = run.exhausted /\ run'.stopped = run.stopped
      /\ run'.byteCap = run.byteCap /\ run'.bytes = run.bytes
      /\ run'.requests = run.requests + 1 /\ run'.attempted = run.attempted + 1
  BY <1>1 DEF RunShape
<1>5. run.index \in Nat /\ run.requests = run.attempted /\ run.attempted = run.index + 0
      /\ run.bytes = BytesTo(job.source, run.index) + 0 /\ ~late /\ remote = "RUNNING"
      /\ Clean(run) /\ ~run.exhausted /\ ~run.stopped /\ run.byteCap = job.caps.bytes
  BY <1>1 DEF Unharmed, RunShape
<1>6. run'.requests = run'.attempted /\ run'.attempted = run'.index + 1
      /\ run'.bytes = BytesTo(job.source, run'.index) + got'
  BY <1>1, <1>3, <1>4, <1>5
<1>7. Exists' /\ Page' = Page  BY <1>1, <1>2, <1>4 DEF Exists, Page, Pages
<1>8. Clean(run')  BY <1>4, <1>5 DEF Clean
<1>9. got' \in 0..Page'.bytes  BY <1>1, <1>3, <1>7
<1> QED  BY <1>1, <1>4, <1>5, <1>6, <1>7, <1>8, <1>9 DEF Unharmed

LEMMA ReceivedUnharmed == ASSUME AccountInv, Fits, Unharmed, Receive PROVE Unharmed'
<1>1. /\ pc = "reading" /\ UNCHANGED <<job, late, remote>> /\ run \in RunShape(job.source)
      /\ Exists /\ got < Page.bytes /\ Clean(run) /\ ~late /\ remote = "RUNNING"
      /\ ~run.exhausted /\ ~run.stopped /\ run.byteCap = job.caps.bytes
      /\ run.attempted = run.index + 1 /\ run.requests = run.attempted
      /\ run.bytes = BytesTo(job.source, run.index) + got /\ got \in 0..Page.bytes
  BY DEF Receive, At, Unharmed, AccountInv, Collected
<1>2. /\ BytesTo(job.source, run.index) \in Nat /\ Page.bytes \in Nat
      /\ BytesTo(job.source, run.index) + Page.bytes <= job.caps.bytes /\ job.caps.bytes \in Nat
  BY <1>1, CapsAllow
<1>3. PICK n \in 1..Smaller(ReadSize, Page.bytes - got) :
        LET counted == [run EXCEPT !.bytes = @ + n]
            hit == (IF counted.bytes > run.byteCap THEN {"bytes"} ELSE {})
                    \cup (IF late THEN {"time"} ELSE {})
        IN  /\ got' = got + n
            /\ run' = IF hit = {} THEN counted
                      ELSE [counted EXCEPT !.limits = @ \cup hit, !.stopped = TRUE,
                                           !.index = @ + 1]
            /\ pc' = IF hit = {} THEN "reading" ELSE "loop"
  BY DEF Receive
<1> DEFINE counted == [run EXCEPT !.bytes = @ + n]
           hit == (IF counted.bytes > run.byteCap THEN {"bytes"} ELSE {})
                    \cup (IF late THEN {"time"} ELSE {})
<1>4. n \in Nat /\ n <= Page.bytes - got
  <2>1. ReadSize \in Nat  BY ActorAssumption
  <2> QED  BY <1>1, <1>2, <2>1 DEF Smaller
<1>5. /\ counted.bytes = run.bytes + n /\ counted.index = run.index
      /\ counted.limits = run.limits /\ counted.errors = run.errors
      /\ counted.exhausted = run.exhausted /\ counted.stopped = run.stopped
      /\ counted.byteCap = run.byteCap /\ counted.requests = run.requests
      /\ counted.attempted = run.attempted
  BY <1>1 DEF RunShape
<1>6. /\ got' = got + n
      /\ run' = IF hit = {} THEN counted
                ELSE [counted EXCEPT !.limits = @ \cup hit, !.stopped = TRUE, !.index = @ + 1]
      /\ pc' = IF hit = {} THEN "reading" ELSE "loop"
  BY <1>3, Zenon
<1> HIDE DEF counted
<1>7. ~(counted.bytes > run.byteCap)  BY <1>1, <1>2, <1>4, <1>5
<1>8. hit = {}  BY <1>1, <1>7
<1>9. run' = counted /\ pc' = "reading" /\ got' = got + n  BY <1>6, <1>8
<1>10. /\ run'.bytes = BytesTo(job.source, run'.index) + got' /\ got' \in 0..Page.bytes
  BY <1>1, <1>2, <1>4, <1>5, <1>9
<1>11. Exists' /\ Page' = Page  BY <1>1, <1>5, <1>9 DEF Exists, Page, Pages
<1>12. Clean(run')  BY <1>1, <1>5, <1>9 DEF Clean
<1> HIDE DEF hit
<1> QED  BY <1>1, <1>5, <1>9, <1>10, <1>11, <1>12 DEF Unharmed

\* With its plan covered, the run's account is what the source declared.
LEMMA NothingUnaccounted ==
  ASSUME AccountInv, Fits, Clean(run), run.index >= run.planned
  PROVE  ~Unaccounted /\ run.index = Len(Pages)
<1>1. /\ run.fetched = Len(Pages) /\ run.planned = Len(Pages) /\ run.index = Len(Pages)
      /\ Len(Pages) \in Nat /\ Len(Pages) > 0
  BY FitPlan
<1>2. /\ run.pagesDeclared = job.source.pagesDeclared
      /\ run.itemsDeclared = job.source.itemsDeclared
  BY <1>1 DEF AccountInv, Collected, Told
<1>3. Len(run.rows) = Cardinality(Listings(job.source))
  <2>1. run.rows \in Seq(Listings(job.source))
    BY DEF AccountInv, Collected, RunShape, RowLists
  <2>2. \A l \in Listings(job.source) : \E i \in DOMAIN run.rows : run.rows[i] = l
    BY <1>1, EveryPagePassed
  <2>3. RowSet = Listings(job.source)  BY <2>1, <2>2 DEF RowSet
  <2> QED  BY <2>3, RowsCounted
<1>4. /\ job.source.pagesDeclared \in {Undeclared, Len(Pages)}
      /\ job.source.itemsDeclared \in {Undeclared, Cardinality(Listings(job.source))}
  BY DEF Fits, HonestJob, Honest, Pages
<1> QED  BY <1>1, <1>2, <1>3, <1>4 DEF Unaccounted

LEMMA FinishedUnharmed == ASSUME AccountInv, Fits, Unharmed, Finish PROVE Unharmed'
<1>1. /\ pc = "loop" /\ pc' = "push" /\ UNCHANGED <<job, late, remote>> /\ ~Collecting
      /\ At("loop") /\ Clean(run) /\ ~run.stopped /\ run \in RunShape(job.source)
  BY DEF Finish, At, After, Unharmed, AccountInv, Collected
<1>2. run.index >= run.planned
  <2>1. ~(run.index < run.planned)  BY <1>1 DEF Collecting, Clean
  <2> QED  BY <1>1, <2>1 DEF RunShape
<1>3. ~Unaccounted /\ run.index = Len(Pages)  BY <1>1, <1>2, NothingUnaccounted
<1>4. run' = run  BY <1>3 DEF Finish
<1>5. Len(Pages)' = Len(Pages)  BY <1>1 DEF Pages
<1> QED  BY <1>1, <1>3, <1>4, <1>5 DEF Unharmed

LEMMA ReportIsRecord ==
  ASSUME AccountInv
  PROVE  Report # None
<1>1. run \in RunShape(job.source) /\ MaxErrors \in Nat
  BY ActorAssumption DEF AccountInv, Collected
<1>2. Len(run.rows) \in Nat
  <2>1. run.rows \in Seq(Listings(job.source))  BY <1>1 DEF RunShape, RowLists
  <2> QED  BY <2>1
<1>3. ErrorsReported \in Nat  BY <1>1 DEF ErrorsReported, Smaller, RunShape
<1> DEFINE more == IF job.fault = "count_mismatch" THEN 1 ELSE 0
<1>4. Len(run.rows) + more \in Nat
  <2>1. more \in Nat  OBVIOUS
  <2> HIDE DEF more
  <2> QED  BY <1>2, <2>1
<1>5. run.limits \cup (IF Doctored THEN {"pages"} ELSE {}) \in SUBSET LimitNames
  BY <1>1 DEF RunShape, LimitNames
<1>6. run.fetched \in Nat /\ run.pagesDeclared \in Nat \cup {Undeclared}
      /\ run.itemsDeclared \in Nat \cup {Undeclared}
  BY <1>1 DEF RunShape
<1>7. Report \in ReportShape  BY <1>3, <1>4, <1>5, <1>6 DEF Report, ReportShape
<1> QED  BY <1>7, ActorAssumption

LEMMA FitStart == AccountInv /\ Init => FitInv
<1> SUFFICES ASSUME AccountInv, Init, Fits PROVE Unharmed
  BY DEF FitInv
<1>1. /\ pc = "loop" /\ ~late /\ remote = "RUNNING" /\ Clean(run) /\ ~run.exhausted
      /\ ~run.stopped /\ run.byteCap = job.caps.bytes /\ run.attempted = 0 /\ run.requests = 0
      /\ run.index = 0 /\ run.bytes = 0
  BY DEF Init, Clean
<1>2. BytesTo(job.source, 0) = 0  BY BytesAdd DEF AccountInv
<1> QED  BY <1>1, <1>2 DEF Unharmed

LEMMA FitStep == AccountInv /\ FitInv /\ [Next]_vars => FitInv'
<1> SUFFICES ASSUME AccountInv, FitInv, [Next]_vars, Fits', ~disturbed' PROVE Unharmed'
  BY DEF FitInv
<1>1. job' = job
  BY DEF Next, vars, Deadline, SkipPage, StopForLimits, SendRequest, Receive, TimeOut, Unusable,
         UsePage, Finish, Push, WriteOutput, Exit, Kill, ReadPage, Classify, Judged
<1>2. Fits  BY <1>1 DEF Fits, HonestJob, Careful
<1>3. CASE Deadline  BY <1>3 DEF Deadline
<1>4. ASSUME NEW status, Kill(status)  PROVE FALSE  BY <1>4 DEF Kill
<1>5. CASE Unusable
  <2>1. ~Exists /\ ~disturbed  BY <1>5 DEF Unusable
  <2>2. Unharmed  BY <1>2, <2>1 DEF FitInv
  <2> QED  BY <1>5, <2>1, <2>2 DEF Unusable, At, Unharmed
<1>6. CASE /\ disturbed' = disturbed
           /\ \/ SkipPage \/ StopForLimits \/ SendRequest \/ Receive \/ TimeOut \/ UsePage
              \/ Finish \/ Push \/ WriteOutput \/ Exit \/ ReadPage \/ Classify
              \/ Judged \/ UNCHANGED vars
  <2>1. Unharmed  BY <1>2, <1>6 DEF FitInv
  <2>2. CASE SkipPage
    BY <1>2, <2>1, <2>2, NothingBinds DEF SkipPage, Collecting
  <2>3. CASE StopForLimits
    BY <1>2, <2>1, <2>3, NothingBinds DEF StopForLimits, Collecting
  <2>4. CASE SendRequest  BY <1>2, <2>1, <2>4, SentUnharmed
  <2>5. CASE Receive  BY <1>2, <2>1, <2>5, ReceivedUnharmed
  <2>6. CASE TimeOut  BY <2>1, <2>6 DEF TimeOut, Unharmed
  <2>7. CASE UsePage  BY <1>2, <2>1, <2>7, UsedUnharmed
  <2>8. CASE Finish  BY <1>2, <2>1, <2>8, FinishedUnharmed
  <2>9. CASE Push
    <3>1. /\ UNCHANGED <<job, run, got, late, remote, output>> /\ pc = "push" /\ pc' = "output"
      BY <2>9 DEF Push, At, After
    <3>2. Len(Pages)' = Len(Pages)  BY <1>1 DEF Pages
    <3> QED  BY <2>1, <3>1, <3>2 DEF Unharmed
  <2>10. CASE WriteOutput
    <3>1. /\ UNCHANGED <<job, run, got, late, remote>> /\ pc = "output" /\ pc' = "exit"
          /\ output' = Report
      BY <2>10 DEF WriteOutput, At, After
    <3>2. Len(Pages)' = Len(Pages)  BY <1>1 DEF Pages
    <3> QED  BY <2>1, <3>1, <3>2, ReportIsRecord DEF Unharmed
  <2>11. CASE Exit
    <3>1. /\ UNCHANGED <<job, run, got, late, output>> /\ pc = "exit" /\ pc' = "ended"
          /\ remote' = "SUCCEEDED"
      BY <1>2, <2>11 DEF Exit, At, stored, Fits, HonestJob
    <3>2. Len(Pages)' = Len(Pages)  BY <1>1 DEF Pages
    <3> QED  BY <2>1, <3>1, <3>2 DEF Unharmed
  <2>12. CASE ReadPage \/ Classify \/ Judged \/ UNCHANGED vars
    <3>1. UNCHANGED <<job, run, pc, got, late, remote, output>>
      BY <2>12 DEF ReadPage, Classify, Judged, vars, stored
    <3>2. Len(Pages)' = Len(Pages) /\ Exists' = Exists /\ Page' = Page
      BY <3>1 DEF Pages, Exists, Page
    <3> QED  BY <2>1, <3>1, <3>2 DEF Unharmed
  <2> QED
    BY <1>6, <2>2, <2>3, <2>4, <2>5, <2>6, <2>7, <2>8, <2>9, <2>10, <2>11, <2>12
<1>7. \/ Deadline \/ Unusable \/ \E status : Kill(status)
      \/ /\ disturbed' = disturbed
         /\ \/ SkipPage \/ StopForLimits \/ SendRequest \/ Receive \/ TimeOut \/ UsePage
            \/ Finish \/ Push \/ WriteOutput \/ Exit \/ ReadPage \/ Classify
            \/ Judged \/ UNCHANGED vars
  BY DEF Next, vars, SkipPage, StopForLimits, SendRequest, Receive, TimeOut,
         UsePage, Finish, Push, WriteOutput, Exit, ReadPage, Classify, Judged
<1> QED  BY <1>3, <1>4, <1>5, <1>6, <1>7

\* The verdict on a run whose account is clean, honest and whole.
LEMMA FitVerdict == AccountInv /\ FitInv => FitIsComplete
<1> SUFFICES ASSUME AccountInv, FitInv, verdict # None, HonestJob, ~disturbed,
                    Sound(job.source), Capacious(job.caps, job.source)
             PROVE  verdict.completeness = "complete"
  BY DEF FitIsComplete
<1> DEFINE n == Len(run.rows)
           usable == Cardinality(Usable(RowsRead))
<1>1. Fits /\ Unharmed  BY DEF Fits, FitInv
<1>2. /\ read.rows = Len(dataset) /\ remote # "RUNNING"
      /\ verdict = Classification(read.rows, usable)
  BY DEF AccountInv, Imported
<1>3. pc = "ended" /\ remote = "SUCCEEDED" /\ output # None /\ Clean(run)
      /\ run.index = Len(Pages)
  BY <1>1, <1>2 DEF Unharmed
<1>4. output = Report /\ dataset = run.rows /\ run \in RunShape(job.source) /\ Ended
  BY <1>3 DEF AccountInv, Reported, Collected
<1>5. /\ job.fault = "none" /\ Echoes /\ ~Doctored /\ Honest(job.source) /\ Careful
  BY DEF HonestJob, Careful, Echoes, Doctored
<1>6. run.rows \in Seq(Listings(job.source)) /\ n \in Nat /\ DOMAIN run.rows = 1..n
  BY <1>4 DEF RunShape, RowLists
<1>7. Usable(RowsRead) = RowSet /\ usable = n
  <2>1. RowsRead = RowSet  BY <1>2, <1>4 DEF RowsRead, RowSet
  <2>2. \A l \in RowSet : l \in Listings(job.source)  BY <1>6 DEF RowSet
  <2>3. \A l \in RowSet : Kind(l) = "good"  BY <2>2 DEF Sound, Kind, Pages
  <2>4. Usable(RowsRead) = RowSet  BY <1>5, <2>1, <2>3 DEF Usable
  <2> QED  BY <2>4, RowsCounted
<1>8. n # 0
  <2>1. Len(Pages) > 0 /\ Len(Pages) \in Nat /\ run.fetched = run.index  BY <1>1, <1>3, FitPlan
  <2>2. 1 \in DOMAIN Pages /\ Pages[1].listings # <<>>
    BY <2>1, SourceFacts DEF AccountInv, Sound, Pages
  <2>3. Pages[1].listings \in Seq({"good", "free", "bad"})
    BY <2>2, SourceFacts DEF AccountInv
  <2>4. 1 \in DOMAIN Pages[1].listings  BY <2>2, <2>3
  <2>5. <<1, 1>> \in Listings(job.source)  BY <2>2, <2>4, InListings
  <2>6. \E i \in DOMAIN run.rows : run.rows[i] = <<1, 1>>
    BY <1>3, <2>1, <2>5, EveryPagePassed
  <2> HIDE DEF n
  <2> QED  BY <1>6, <2>6
<1>9. /\ output.version = "v1" /\ output.scope = "admitted" /\ output.complete
      /\ output.limits = {} /\ output.errors = 0
  <2>1. /\ output.version = "v1" /\ output.scope = "admitted"
        /\ output.complete = (run.limits = {} /\ run.errors = 0) /\ output.limits = run.limits
        /\ output.errors = ErrorsReported
    BY <1>4, <1>5 DEF Report
  <2>2. ErrorsReported = 0
    BY <1>3, ActorAssumption DEF ErrorsReported, Smaller, Clean
  <2> QED  BY <1>3, <2>1, <2>2 DEF Clean
<1>10. ~Contradicts(n)
  <2>1. Classification(n, usable).reason \notin Rejected
    BY <1>2, <1>3, <1>4, AccountAccepted DEF ReportAccepted
  <2> HIDE DEF n, usable
  <2> QED
    BY <1>3, <1>9, <2>1, ActorAssumption DEF Classification, Failed, Rejected
<1>11. /\ ~(output.errors > MaxErrors) /\ ~(output.errors > 0) /\ n > 0 /\ ~(usable = 0)
       /\ ~(usable < n)
  <2> HIDE DEF n, usable
  <2> QED  BY <1>6, <1>7, <1>8, <1>9, ActorAssumption
<1> HIDE DEF n, usable
<1>12. Classification(n, usable).completeness = "complete"
  BY <1>3, <1>8, <1>9, <1>10, <1>11 DEF Classification, Complete
<1> QED  BY <1>2, <1>4, <1>12 DEF n

\* The Actor's report, classify_run's checks and the five caps agree with each
\* other: an honest account is never rejected, and "a source that exactly fits
\* its caps is complete, not truncated" (core.py) whenever nothing interfered.
THEOREM HonestReportAlwaysStands == Spec => []HonestReportStands
<1>1. Init => AccountInv /\ FitInv  BY AccountStart, FitStart
<1>2. (AccountInv /\ FitInv) /\ [Next]_vars => (AccountInv /\ FitInv)'
  BY AccountStep, FitStep
<1>3. AccountInv /\ FitInv => HonestReportStands
  BY AccountAccepted, FitVerdict DEF HonestReportStands
<1> QED  BY <1>1, <1>2, <1>3, PTL DEF Spec
=============================================================================
