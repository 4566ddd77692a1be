-------------------------- MODULE EligibilityProofs --------------------------
(***************************************************************************)
(* Theorems about Eligibility for every set of offers, requirements,       *)
(* catalogs and lanes, and any interleaving of collection, edits, purges   *)
(* and evaluations, for a source all of whose runs search one scope, as    *)
(* those of every source but eBay and the ones an Actor collects beside a  *)
(* local adapter.  With two scopes each of the three fails                 *)
(* (EligibilityScopes): an observation that a scope's newer sweep makes    *)
(* too late for the listing still becomes its newest snapshot.             *)
(*                                                                         *)
(* The argument: while the listing is not delisted, no snapshot is newer   *)
(* than what the listing says (Anchored), so the time an evaluation stores *)
(* stands for the whole of what it read; a stored verdict is then a        *)
(* function of that snapshot and of the requirement version (Faithful).    *)
(***************************************************************************)
EXTENDS Eligibility, FiniteSums, TLAPS

OneScope == \A s, o \in Scopes : s = o

Snapshot == [offer : Offers, expires : Int]
Shape ==
    /\ now \in Times
    /\ listing \in [offer : Offers, at : Times, absence : Int, ended : BOOLEAN,
                    scope : Scopes, expires : Int]
    /\ listing.at <= now /\ listing.absence <= now
    /\ snaps \in [Times -> Snapshot \union {None}]
    /\ swept \in [Scopes -> Int]
    /\ watch.version \in Int

\* What the row's fields are, and the rows a step updates in place.
RowShape ==
    row # None => /\ row = [verdict |-> row.verdict, version |-> row.version, edge |-> row.edge,
                            snap |-> row.snap, inputs |-> row.inputs, expires |-> row.expires]
                  /\ row.snap \in Times /\ row.expires \in Int
                  /\ row.version \in Int /\ row.version <= watch.version

Sweeps == swept[listing.scope]

\* The listing, the sweeps and the snapshots: what is not delisted was seen
\* since the last absence and the last sweep, nothing newer was observed, and
\* it says and keeps what its own snapshot says and keeps.
Anchored ==
    /\ listing.absence <= Sweeps
    /\ ~listing.ended => Sweeps <= listing.at /\ listing.expires = listing.at + TTL
    /\ \A t \in Times : snaps[t] # None => t <= listing.at \/ t <= Sweeps
    /\ \A t \in Times : snaps[t] # None /\ t >= Sweeps /\ t # listing.absence
                          => snaps[t].expires = t + TTL
    /\ ~listing.ended =>
          IF snaps[listing.at] = None THEN listing.expires <= now
          ELSE snaps[listing.at] = [offer |-> listing.offer, expires |-> listing.expires]

\* An evaluation that holds the lock has read the listing as it is.
Holding ==
    job.pc # "idle" => ~listing.ended /\ job.snap = listing.at /\ job.offer = listing.offer
Reading ==
    job.pc = "watch" => /\ job.watch.version \in Int /\ job.watch.version <= watch.version
                        /\ job.watch.version = watch.version => job.watch.spec = watch.spec

\* A stored evaluation goes first, and says what its snapshot says.
Outlived ==
    row # None =>
        /\ row.expires <= row.snap + TTL
        /\ IF snaps[row.snap] = None THEN row.expires <= now /\ row.snap + TTL <= now
           ELSE row.expires <= snaps[row.snap].expires
VerdictOn(offer) == Verdict(watch.spec, satellite, row.inputs, offer, offer)
Faithful ==
    row # None /\ row.version = watch.version /\ snaps[row.snap] # None =>
        \/ snaps[row.snap].expires <= now
        \/ row.verdict = VerdictOn(snaps[row.snap].offer)

EvalInv == Shape /\ RowShape /\ Anchored /\ Holding /\ Reading /\ Outlived /\ Faithful
-----------------------------------------------------------------------------
\* An active listing's newest snapshot is the one it was last seen with.
LEMMA NewestIsSeen ==
  ASSUME Shape, Anchored, Active
  PROVE  Newest = listing.at /\ NewestOffer = listing.offer /\ listing.at # 0
<1> DEFINE taken == {t \in Times : snaps[t] # None}
<1>1. ~listing.ended /\ listing.expires > now  BY DEF Active
<1>2. /\ listing.at \in Times /\ now \in Int /\ listing.expires \in Int
      /\ \A t \in Times : t \in Int /\ t # 0
  BY EligibilityAssumption DEF Shape, Times
<1>3. snaps[listing.at] # None /\ snaps[listing.at].offer = listing.offer
  BY <1>1, <1>2 DEF Anchored
<1>4. listing.at \in taken /\ \A y \in taken : listing.at >= y
  <2>1. Sweeps \in Int  BY DEF Shape, Sweeps
  <2> QED  BY <1>1, <1>2, <1>3, <2>1 DEF Anchored
<1>5. Max(taken) \in taken /\ \A y \in taken : Max(taken) >= y
  BY <1>4, Zenon DEF Max
<1>6. Max(taken) = listing.at  BY <1>2, <1>4, <1>5
<1>7. Newest = Max(taken)  BY <1>4 DEF Newest
<1> QED  BY <1>2, <1>3, <1>6, <1>7 DEF NewestOffer

\* Presence: what it writes to the listing and to the snapshots.
LEMMA PersistWrites ==
  ASSUME OneScope, EvalInv, NEW l \in Lanes, NEW o \in Offers, NEW at \in Times, NEW s \in Scopes,
         Persist(l, o, at, s)
  PROVE  /\ \/ snaps' = snaps
            \/ /\ snaps[at] = None /\ at >= listing.absence
               /\ snaps' = [snaps EXCEPT ![at] = [offer |-> o, expires |-> at + TTL]]
         /\ \/ listing' = listing /\ (at < listing.at \/ at < Sweeps)
            \/ /\ at >= listing.at /\ at >= Sweeps
               /\ listing' = [listing EXCEPT !.offer = o, !.at = at, !.ended = FALSE, !.scope = s,
                                             !.expires = at + TTL]
               /\ snaps'[at] = [offer |-> o, expires |-> at + TTL]
         /\ s = listing.scope /\ at <= now /\ job.pc = "idle" /\ job' = job
         /\ UNCHANGED <<now, swept, watch, satellite, row>>
<1>1. /\ s = listing.scope /\ at <= now /\ job.pc = "idle" /\ job' = job
      /\ UNCHANGED <<now, swept, watch, satellite, row>>
  BY DEF Persist, Free, OneScope, EvalInv, Shape
<1>2. /\ now \in Int /\ at \in Int /\ TTL \in Int /\ listing.absence \in Int /\ listing.at \in Int
      /\ Sweeps \in Int /\ swept[s] = Sweeps /\ listing.absence <= now /\ listing.absence <= Sweeps
  BY <1>1, EligibilityAssumption DEF EvalInv, Shape, Times, Sweeps, Anchored
<1>3. LateExpiry(at) <= now
  <2>1. at + TTL \in Int  BY <1>2
  <2> HIDE DEF Times
  <2>2. Min({at + TTL, listing.absence}) \in Int /\ Min({at + TTL, listing.absence}) <= listing.absence
    BY <1>2, <2>1, MinOfTwo
  <2> QED  BY <1>2, <2>2 DEF LateExpiry
<1> DEFINE late == ~EligibleNow(at, s) /\ listing.absence > at
           expires == IF late THEN LateExpiry(at) ELSE at + TTL
<1>4. snaps' = IF snaps[at] # None \/ (late /\ expires <= now) THEN snaps
               ELSE [snaps EXCEPT ![at] = [offer |-> o, expires |-> expires]]
  BY DEF Persist
<1>5. EligibleNow(at, s) => at >= listing.at /\ at >= listing.absence /\ at >= Sweeps
  BY <1>2 DEF EligibleNow
<1>6. ~EligibleNow(at, s) => at < listing.at \/ at < Sweeps
  BY <1>2 DEF EligibleNow
<1>7. \/ snaps' = snaps
      \/ /\ snaps[at] = None /\ at >= listing.absence
         /\ snaps' = [snaps EXCEPT ![at] = [offer |-> o, expires |-> at + TTL]]
  <2>1. CASE late
    BY <1>3, <1>4, <2>1
  <2>2. CASE ~late
    <3>1. at >= listing.absence  BY <1>2, <1>5, <2>2
    <3> QED  BY <1>4, <2>2, <3>1
  <2> QED  BY <2>1, <2>2
<1>8. ASSUME EligibleNow(at, s) PROVE snaps'[at] = [offer |-> o, expires |-> at + TTL]
  <2>1. CASE snaps[at] = None
    <3>1. snaps' = [snaps EXCEPT ![at] = [offer |-> o, expires |-> at + TTL]]  BY <1>4, <1>8, <2>1
    <3> QED  BY <3>1 DEF EvalInv, Shape
  <2>2. CASE snaps[at] # None
    <3>1. o = snaps[at].offer /\ at # listing.absence  BY <2>2 DEF Persist, Reread
    <3>2. snaps[at].expires = at + TTL  BY <1>5, <1>8, <2>2, <3>1 DEF EvalInv, Anchored
    <3>3. snaps[at] \in Snapshot  BY <2>2 DEF EvalInv, Shape
    <3>4. snaps' = snaps  BY <1>4, <2>2
    <3> QED  BY <3>1, <3>2, <3>3, <3>4 DEF Snapshot
  <2> QED  BY <2>1, <2>2
<1>9. listing' = IF EligibleNow(at, s)
                 THEN [listing EXCEPT !.offer = o, !.at = at, !.ended = FALSE, !.scope = s,
                                      !.expires = at + TTL]
                 ELSE listing
  BY DEF Persist
<1> QED  BY <1>1, <1>5, <1>6, <1>7, <1>8, <1>9

LEMMA SnapFields ==
  ASSUME Shape, NEW t \in Times, snaps[t] # None
  PROVE  snaps[t] = [offer |-> snaps[t].offer, expires |-> snaps[t].expires] /\ snaps[t].expires \in Int
         /\ snaps[t].offer \in Offers
  BY DEF Shape, Snapshot

LEMMA RecordIsSnapshot ==
  ASSUME NEW o \in Offers, NEW e \in Int
  PROVE  [offer |-> o, expires |-> e] \in Snapshot /\ [offer |-> o, expires |-> e] # None
  BY EligibilityAssumption DEF Snapshot

LEMMA TimesInt == /\ TTL \in Nat /\ 0 \notin Times /\ \A t \in Times : t \in Int
  BY EligibilityAssumption DEF Times

LEMMA PersistStep ==
  ASSUME OneScope, EvalInv, NEW l \in Lanes, NEW o \in Offers, NEW at \in Times, NEW s \in Scopes,
         Persist(l, o, at, s)
  PROVE  EvalInv'
<1> DEFINE new == [offer |-> o, expires |-> at + TTL]
<1>0. /\ \/ snaps' = snaps
         \/ /\ snaps[at] = None /\ at >= listing.absence
            /\ snaps' = [snaps EXCEPT ![at] = [offer |-> o, expires |-> at + TTL]]
      /\ \/ listing' = listing /\ (at < listing.at \/ at < Sweeps)
         \/ /\ at >= listing.at /\ at >= Sweeps
            /\ listing' = [listing EXCEPT !.offer = o, !.at = at, !.ended = FALSE, !.scope = s,
                                          !.expires = at + TTL]
            /\ snaps'[at] = [offer |-> o, expires |-> at + TTL]
      /\ s = listing.scope /\ at <= now /\ job.pc = "idle" /\ job' = job
      /\ UNCHANGED <<now, swept, watch, satellite, row>>
  BY PersistWrites, Zenon
<1>1. /\ s = listing.scope /\ at <= now /\ job.pc = "idle" /\ job' = job
      /\ UNCHANGED <<now, swept, watch, satellite, row>>
  BY <1>0
<1>2. \/ snaps' = snaps
      \/ snaps[at] = None /\ at >= listing.absence /\ snaps' = [snaps EXCEPT ![at] = new]
  BY <1>0
<1>3. \/ listing' = listing /\ (at < listing.at \/ at < Sweeps)
      \/ /\ at >= listing.at /\ at >= Sweeps
         /\ listing' = [listing EXCEPT !.offer = o, !.at = at, !.ended = FALSE, !.scope = s,
                                       !.expires = at + TTL]
         /\ snaps'[at] = new
  BY <1>0
<1>4. at \in Int /\ TTL \in Nat /\ at + TTL \in Int /\ new \in Snapshot /\ new # None
  BY TimesInt, RecordIsSnapshot
<1>5. Shape /\ Anchored /\ RowShape /\ Outlived /\ Faithful  BY DEF EvalInv
<1>6. Shape'
  <2>1. snaps' \in [Times -> Snapshot \union {None}]  BY <1>2, <1>4, <1>5 DEF Shape
  <2>2. listing' \in [offer : Offers, at : Times, absence : Int, ended : BOOLEAN,
                      scope : Scopes, expires : Int]
        /\ listing'.at <= now /\ listing'.absence <= now
    BY <1>1, <1>3, <1>4, <1>5 DEF Shape
  <2> QED  BY <1>1, <1>5, <2>1, <2>2 DEF Shape
<1>7. /\ listing'.scope = listing.scope /\ listing'.absence = listing.absence /\ Sweeps' = Sweeps
      /\ Sweeps \in Int /\ listing.at \in Int /\ listing.absence \in Int /\ now \in Int
      /\ listing.expires \in Int /\ listing.at \in Times
  BY <1>1, <1>3, <1>5, TimesInt DEF Shape, Sweeps
<1>8. \A t \in Times : snaps'[t] = snaps[t]
                       \/ (t = at /\ snaps[t] = None /\ snaps'[t] = new /\ at >= listing.absence)
  BY <1>2, <1>5 DEF Shape
<1>9. Anchored'
  <2>1. \/ listing' = listing /\ (at < listing.at \/ at < Sweeps)
        \/ /\ at >= listing.at /\ at >= Sweeps /\ listing'.offer = o /\ listing'.at = at
           /\ ~listing'.ended /\ listing'.expires = at + TTL /\ snaps'[at] = new
    BY <1>3, <1>5 DEF Shape
  <2>2. \A t \in Times : snaps'[t] # None => t <= listing'.at \/ t <= Sweeps
    BY <1>4, <1>5, <1>7, <1>8, <2>1, TimesInt DEF Anchored
  <2>3. \A t \in Times : snaps'[t] # None /\ t >= Sweeps /\ t # listing.absence
                           => snaps'[t].expires = t + TTL
    <3> SUFFICES ASSUME NEW t \in Times, snaps'[t] # None, t >= Sweeps, t # listing.absence
                 PROVE  snaps'[t].expires = t + TTL
      OBVIOUS
    <3>1. CASE snaps'[t] = snaps[t]  BY <1>5, <3>1 DEF Anchored
    <3>2. CASE t = at /\ snaps'[t] = new  BY <3>2
    <3> QED  BY <1>8, <3>1, <3>2
  <2>4. ~listing'.ended => Sweeps <= listing'.at /\ listing'.expires = listing'.at + TTL
    BY <1>5, <1>7, <2>1 DEF Anchored
  <2>5. ~listing'.ended =>
          IF snaps'[listing'.at] = None THEN listing'.expires <= now
          ELSE snaps'[listing'.at] = [offer |-> listing'.offer, expires |-> listing'.expires]
    <3>1. CASE listing' = listing /\ (at < listing.at \/ at < Sweeps)
      <4> SUFFICES ASSUME ~listing.ended
                   PROVE  IF snaps'[listing.at] = None THEN listing.expires <= now
                          ELSE snaps'[listing.at] = [offer |-> listing.offer, expires |-> listing.expires]
        BY <3>1
      <4>1. at < listing.at  BY <1>4, <1>5, <1>7, <3>1 DEF Anchored
      <4>2. snaps'[listing.at] = snaps[listing.at]  BY <1>4, <1>7, <1>8, <4>1
      <4> QED  BY <1>5, <4>2 DEF Anchored
    <3>2. CASE /\ listing'.offer = o /\ listing'.at = at /\ listing'.expires = at + TTL
               /\ snaps'[at] = new
      BY <1>4, <3>2
    <3> QED  BY <2>1, <3>1, <3>2
  <2>6. listing.absence <= Sweeps  BY <1>5 DEF Anchored
  <2> QED  BY <1>1, <1>7, <2>2, <2>3, <2>4, <2>5, <2>6 DEF Anchored
<1>10. Outlived'
  <2> SUFFICES ASSUME row # None
               PROVE  /\ row.expires <= row.snap + TTL
                      /\ IF snaps'[row.snap] = None THEN row.expires <= now /\ row.snap + TTL <= now
                         ELSE row.expires <= snaps'[row.snap].expires
    BY <1>1 DEF Outlived
  <2>1. row.snap \in Times  BY <1>5 DEF RowShape
  <2>2. CASE snaps'[row.snap] = snaps[row.snap]  BY <1>5, <2>2 DEF Outlived
  <2>3. CASE row.snap = at /\ snaps[row.snap] = None /\ snaps'[row.snap] = new
    BY <1>4, <1>5, <2>3 DEF Outlived
  <2> QED  BY <1>8, <2>1, <2>2, <2>3
<1>11. Faithful'
  <2> SUFFICES ASSUME row # None, row.version = watch.version, snaps'[row.snap] # None
               PROVE  snaps'[row.snap].expires <= now \/ row.verdict = VerdictOn(snaps'[row.snap].offer)
    BY <1>1, Zenon DEF Faithful, VerdictOn
  <2>1. row.snap \in Times  BY <1>5 DEF RowShape
  <2>2. CASE snaps'[row.snap] = snaps[row.snap]  BY <1>5, <2>2 DEF Faithful
  <2>3. CASE row.snap = at /\ snaps[row.snap] = None /\ snaps'[row.snap] = new
    BY <1>5, <2>3 DEF Outlived
  <2> QED  BY <1>8, <2>1, <2>2, <2>3
<1>12. RowShape' /\ Holding' /\ Reading'
  BY <1>1, <1>5 DEF RowShape, Holding, Reading
<1> QED  BY <1>6, <1>9, <1>10, <1>11, <1>12 DEF EvalInv

LEMMA SweepStep ==
  ASSUME OneScope, EvalInv, NEW s \in Scopes, NEW t \in Times, Sweep(s, t)
  PROVE  EvalInv'
<1>1. /\ s = listing.scope /\ t <= now /\ t > Sweeps /\ job.pc = "idle"
      /\ swept' = [swept EXCEPT ![s] = t]
      /\ UNCHANGED <<now, watch, satellite, job>>
  BY DEF Sweep, Free, OneScope, EvalInv, Shape, Sweeps
<1>2. Shape /\ Anchored /\ RowShape /\ Outlived /\ Faithful  BY DEF EvalInv
<1>3. /\ Sweeps \in Int /\ listing.at \in Int /\ listing.absence \in Int /\ now \in Int /\ t \in Int
      /\ listing.expires \in Int /\ listing.at \in Times /\ TTL \in Nat
      /\ listing.absence <= t /\ listing.absence <= Sweeps
  BY <1>1, <1>2, TimesInt DEF Shape, Sweeps, Anchored
<1>4. Holding' /\ Reading'  BY <1>1 DEF Holding, Reading
<1>5. CASE listing.scope = s /\ ~listing.ended /\ listing.at <= t
  <2>1. /\ listing' = [listing EXCEPT !.ended = TRUE, !.absence = Max({@, t}), !.expires = Min({@, t})]
        /\ snaps' = [u \in Times |-> IF snaps[u] # None /\ snaps[u].expires > t
                                     THEN [snaps[u] EXCEPT !.expires = t] ELSE snaps[u]]
        /\ row' = RowDelisted(t)
    BY <1>5 DEF Sweep
  <2>2. Max({listing.absence, t}) = t  BY <1>3, MaxOfTwo
  <2>3. Min({listing.expires, t}) \in Int  BY <1>3, MinOfTwo
  <2>4. /\ listing' \in [offer : Offers, at : Times, absence : Int, ended : BOOLEAN,
                         scope : Scopes, expires : Int]
        /\ listing'.at = listing.at /\ listing'.absence = t /\ listing'.ended /\ listing'.scope = s
    <3> DEFINE late == Max({listing.absence, t})
               until == Min({listing.expires, t})
    <3>1. listing' = [listing EXCEPT !.ended = TRUE, !.absence = late, !.expires = until]
      BY <2>1
    <3>2. late = t /\ until \in Int  BY <2>2, <2>3
    <3> HIDE DEF late, until
    <3> QED  BY <1>2, <1>3, <1>5, <3>1, <3>2 DEF Shape
  <2>5. Sweeps' = t  BY <1>1, <1>2, <2>4 DEF Sweeps, Shape
  <2>6. \A u \in Times :
          \/ snaps'[u] = snaps[u] /\ (snaps[u] # None => snaps[u].expires <= t)
          \/ /\ snaps[u] # None /\ snaps[u].expires > t /\ snaps'[u] # None
             /\ snaps'[u] = [offer |-> snaps[u].offer, expires |-> t]
    <3> SUFFICES ASSUME NEW u \in Times
                 PROVE  \/ snaps'[u] = snaps[u] /\ (snaps[u] # None => snaps[u].expires <= t)
                        \/ /\ snaps[u] # None /\ snaps[u].expires > t /\ snaps'[u] # None
                           /\ snaps'[u] = [offer |-> snaps[u].offer, expires |-> t]
      OBVIOUS
    <3>1. CASE snaps[u] # None /\ snaps[u].expires > t
      <4>1. snaps'[u] = [snaps[u] EXCEPT !.expires = t]  BY <2>1, <3>1
      <4>2. snaps[u] = [offer |-> snaps[u].offer, expires |-> snaps[u].expires] /\ snaps[u].offer \in Offers
        BY <1>2, <3>1, SnapFields
      <4>3. snaps'[u] = [offer |-> snaps[u].offer, expires |-> t]  BY <4>1, <4>2
      <4>4. [offer |-> snaps[u].offer, expires |-> t] # None  BY <1>3, <4>2, RecordIsSnapshot
      <4> QED  BY <3>1, <4>3, <4>4
    <3>2. CASE ~(snaps[u] # None /\ snaps[u].expires > t)
      <4>1. snaps'[u] = snaps[u]  BY <2>1, <3>2
      <4>2. snaps[u] # None => snaps[u].expires \in Int  BY <1>2, SnapFields
      <4> QED  BY <1>3, <3>2, <4>1, <4>2
    <3> QED  BY <3>1, <3>2
  <2>7. snaps' \in [Times -> Snapshot \union {None}]
    <3>1. snaps' = [u \in Times |-> snaps'[u]]  BY <2>1
    <3>2. \A u \in Times : snaps'[u] \in Snapshot \union {None}
      <4> SUFFICES ASSUME NEW u \in Times PROVE snaps'[u] \in Snapshot \union {None}
        OBVIOUS
      <4>1. snaps[u] # None => [offer |-> snaps[u].offer, expires |-> t] \in Snapshot
        BY <1>2, <1>3, SnapFields, RecordIsSnapshot
      <4>2. snaps[u] \in Snapshot \union {None}  BY <1>2 DEF Shape
      <4> QED  BY <2>6, <4>1, <4>2
    <3> QED  BY <3>1, <3>2
  <2>8. Shape'  BY <1>1, <1>2, <1>3, <2>4, <2>7 DEF Shape
  <2>9. Anchored'
    <3>1. \A u \in Times : snaps'[u] # None => u <= t
      <4> SUFFICES ASSUME NEW u \in Times, snaps'[u] # None PROVE u <= t
        OBVIOUS
      <4>1. snaps[u] # None  BY <2>6
      <4>2. u <= listing.at \/ u <= Sweeps  BY <1>2, <4>1 DEF Anchored
      <4> QED  BY <1>1, <1>3, <1>5, <4>2, TimesInt
    <3>2. \A u \in Times : ~(snaps'[u] # None /\ u >= t /\ u # t)  BY <1>3, <3>1, TimesInt
    <3> QED  BY <1>3, <2>4, <2>5, <3>1, <3>2 DEF Anchored
  <2>10. row # None => /\ row' = [row EXCEPT !.expires = IF @ > t THEN t ELSE @]
                       /\ row'.version = row.version /\ row'.snap = row.snap
                       /\ row'.verdict = row.verdict /\ row'.inputs = row.inputs
                       /\ row'.expires = IF row.expires > t THEN t ELSE row.expires
                       /\ row.expires \in Int /\ row.snap \in Times
    BY <1>2, <2>1 DEF RowDelisted, RowShape
  <2>11. row' # None => row # None  BY <2>1 DEF RowDelisted
  <2>12. RowShape'
    <3> SUFFICES ASSUME row' # None PROVE RowShape'
      BY DEF RowShape
    <3>1. row # None  BY <2>11
    <3>2. row' = [verdict |-> row'.verdict, version |-> row'.version, edge |-> row'.edge,
                  snap |-> row'.snap, inputs |-> row'.inputs, expires |-> row'.expires]
      BY <1>2, <2>1, <3>1 DEF RowDelisted, RowShape
    <3> QED  BY <1>1, <1>2, <1>3, <2>10, <3>1, <3>2 DEF RowShape
  <2>13. Outlived'
    <3> SUFFICES ASSUME row' # None
                 PROVE  /\ row'.expires <= row'.snap + TTL
                        /\ IF snaps'[row'.snap] = None THEN row'.expires <= now /\ row'.snap + TTL <= now
                           ELSE row'.expires <= snaps'[row'.snap].expires
      BY <1>1 DEF Outlived
    <3>1. row # None  BY <2>11
    <3>2. /\ row'.expires <= row.expires /\ row'.expires <= t /\ row'.snap = row.snap
          /\ row.snap \in Times /\ row'.expires \in Int /\ row.expires \in Int /\ row.snap \in Int
      BY <1>3, <2>10, <3>1, TimesInt
    <3>3. row'.expires <= row'.snap + TTL  BY <1>2, <1>3, <3>1, <3>2 DEF Outlived
    <3>4. CASE snaps'[row.snap] = snaps[row.snap]
      <4>1. snaps[row.snap] # None => snaps[row.snap].expires \in Int  BY <1>2, <3>2, SnapFields
      <4> QED  BY <1>2, <1>3, <3>1, <3>2, <3>3, <3>4, <4>1 DEF Outlived
    <3>5. CASE snaps'[row.snap] # None /\ snaps'[row.snap] = [offer |-> snaps[row.snap].offer, expires |-> t]
      BY <3>2, <3>3, <3>5
    <3> QED  BY <2>6, <3>2, <3>4, <3>5
  <2>14. Faithful'
    <3> SUFFICES ASSUME row' # None, row'.version = watch.version, snaps'[row'.snap] # None
                 PROVE  \/ snaps'[row'.snap].expires <= now
                        \/ row'.verdict = Verdict(watch.spec, satellite, row'.inputs,
                                                  snaps'[row'.snap].offer, snaps'[row'.snap].offer)
      BY <1>1, Zenon DEF Faithful, VerdictOn
    <3>1. row # None  BY <2>11
    <3>2. row.snap \in Times /\ row'.snap = row.snap  BY <2>10, <3>1
    <3>3. CASE snaps'[row.snap] = snaps[row.snap]
      BY <1>2, <2>10, <3>1, <3>2, <3>3 DEF Faithful, VerdictOn
    <3>4. CASE snaps'[row.snap] = [offer |-> snaps[row.snap].offer, expires |-> t]
      BY <1>1, <3>2, <3>4
    <3> QED  BY <2>6, <3>2, <3>3, <3>4
  <2> QED  BY <1>4, <2>8, <2>9, <2>12, <2>13, <2>14 DEF EvalInv
<1>6. CASE ~(listing.scope = s /\ ~listing.ended /\ listing.at <= t)
  <2>1. UNCHANGED <<listing, snaps, row>>  BY <1>6 DEF Sweep
  <2>2. listing.ended \/ listing.at > t  BY <1>1, <1>3, <1>6
  <2>3. Sweeps' = t  BY <1>1, <1>2, <2>1 DEF Sweeps, Shape
  <2>4. Shape'  BY <1>1, <1>2, <1>3, <2>1 DEF Shape
  <2>5. Anchored'
    <3>1. \A u \in Times : snaps[u] # None => u <= listing.at \/ u <= t
      <4> SUFFICES ASSUME NEW u \in Times, snaps[u] # None PROVE u <= listing.at \/ u <= t
        OBVIOUS
      <4>1. u <= listing.at \/ u <= Sweeps  BY <1>2 DEF Anchored
      <4> QED  BY <1>1, <1>3, <4>1, TimesInt
    <3>2. \A u \in Times : snaps[u] # None /\ u >= t /\ u # listing.absence
                             => snaps[u].expires = u + TTL
      <4> SUFFICES ASSUME NEW u \in Times, snaps[u] # None, u >= t, u # listing.absence
                   PROVE  snaps[u].expires = u + TTL
        OBVIOUS
      <4>1. u >= Sweeps  BY <1>1, <1>3, TimesInt
      <4> QED  BY <1>2, <4>1 DEF Anchored
    <3>3. ~listing.ended => t <= listing.at /\ listing.expires = listing.at + TTL
      BY <1>2, <1>3, <2>2 DEF Anchored
    <3>4. ~listing.ended =>
            IF snaps[listing.at] = None THEN listing.expires <= now
            ELSE snaps[listing.at] = [offer |-> listing.offer, expires |-> listing.expires]
      BY <1>2 DEF Anchored
    <3> QED  BY <1>1, <1>3, <2>1, <2>3, <3>1, <3>2, <3>3, <3>4 DEF Anchored
  <2>6. RowShape' /\ Outlived'  BY <1>1, <1>2, <2>1 DEF RowShape, Outlived
  <2>7. Faithful'  BY <1>1, <1>2, <2>1 DEF Faithful, VerdictOn
  <2> QED  BY <1>4, <2>4, <2>5, <2>6, <2>7 DEF EvalInv
<1> QED  BY <1>5, <1>6

\* A step that leaves the listing, what was observed and the row alone.
LEMMA FrameStep ==
  ASSUME EvalInv, UNCHANGED <<now, listing, snaps, swept, watch, satellite, row>>
  PROVE  Shape' /\ RowShape' /\ Anchored' /\ Outlived' /\ Faithful'
<1>1. Shape' /\ RowShape'  BY DEF EvalInv, Shape, RowShape
<1>2. Anchored'  BY DEF EvalInv, Anchored, Sweeps
<1>3. Outlived' /\ Faithful'  BY DEF EvalInv, Outlived, Faithful, VerdictOn
<1> QED  BY <1>1, <1>2, <1>3

LEMMA PurgeStep == ASSUME EvalInv, Purge PROVE EvalInv'
<1>1. /\ snaps' = [t \in Times |-> IF snaps[t] # None /\ snaps[t].expires <= now THEN None ELSE snaps[t]]
      /\ row' = IF row # None /\ row.expires <= now THEN None ELSE row
      /\ UNCHANGED <<now, listing, swept, watch, satellite, job>>
  BY DEF Purge
<1>2. Shape /\ Anchored /\ RowShape /\ Outlived /\ Faithful  BY DEF EvalInv
<1>3. /\ Sweeps' = Sweeps /\ listing.at \in Times /\ now \in Int /\ TTL \in Nat
      /\ listing.expires \in Int
  BY <1>1, <1>2, TimesInt DEF Shape, Sweeps
<1>4. \A t \in Times : \/ snaps'[t] = snaps[t]
                       \/ snaps'[t] = None /\ snaps[t] # None /\ snaps[t].expires <= now
  BY <1>1
<1>5. Shape'  BY <1>1, <1>2 DEF Shape
<1>6. Anchored'
  <2>1. \A t \in Times : snaps'[t] # None => snaps'[t] = snaps[t]  BY <1>4
  <2>2. ~listing.ended =>
          IF snaps'[listing.at] = None THEN listing.expires <= now
          ELSE snaps'[listing.at] = [offer |-> listing.offer, expires |-> listing.expires]
    <3>1. CASE snaps'[listing.at] = snaps[listing.at]  BY <1>2, <3>1 DEF Anchored
    <3>2. CASE snaps'[listing.at] = None /\ snaps[listing.at] # None /\ snaps[listing.at].expires <= now
      BY <1>2, <3>2 DEF Anchored
    <3> QED  BY <1>3, <1>4, <3>1, <3>2
  <2> QED  BY <1>1, <1>2, <1>3, <2>1, <2>2 DEF Anchored
<1>7. row' # None => row' = row /\ row # None /\ row.expires > now /\ row.snap \in Times
  BY <1>1, <1>2, <1>3 DEF RowShape
<1>8. row' # None => snaps'[row.snap] = snaps[row.snap] /\ snaps[row.snap] # None
  <2> SUFFICES ASSUME row' # None PROVE snaps'[row.snap] = snaps[row.snap] /\ snaps[row.snap] # None
    OBVIOUS
  <2>1. row # None /\ row.expires > now /\ row.snap \in Times /\ row.expires \in Int
    BY <1>2, <1>7 DEF RowShape
  <2>2. snaps[row.snap] # None /\ row.expires <= snaps[row.snap].expires
    BY <1>2, <1>3, <2>1 DEF Outlived
  <2>3. snaps[row.snap].expires \in Int  BY <1>2, <2>1, <2>2, SnapFields
  <2> QED  BY <1>3, <1>4, <2>1, <2>2, <2>3
<1>9. RowShape'  BY <1>1, <1>2, <1>7 DEF RowShape
<1>10. Outlived'  BY <1>1, <1>2, <1>7, <1>8 DEF Outlived
<1>11. Faithful'  BY <1>1, <1>2, <1>7, <1>8 DEF Faithful, VerdictOn
<1>12. Holding' /\ Reading'  BY <1>1 DEF EvalInv, Holding, Reading
<1> QED  BY <1>5, <1>6, <1>9, <1>10, <1>11, <1>12 DEF EvalInv

LEMMA TickStep == ASSUME EvalInv, Tick PROVE EvalInv'
<1>1. /\ now' = now + 1 /\ now < MaxTime
      /\ UNCHANGED <<listing, snaps, swept, watch, satellite, row, job>>
  BY DEF Tick
<1>2. Shape /\ Anchored /\ RowShape /\ Outlived /\ Faithful  BY DEF EvalInv
<1>3. now \in Int /\ now' \in Times /\ now' \in Int /\ now' > now /\ TTL \in Nat
  BY <1>1, <1>2, EligibilityAssumption DEF Shape, Times
<1>4. Shape'
  <2>1. listing.at \in Int /\ listing.absence \in Int /\ listing.at <= now /\ listing.absence <= now
    BY <1>2, TimesInt DEF Shape
  <2>2. listing.at <= now' /\ listing.absence <= now'  BY <1>3, <2>1
  <2> QED  BY <1>1, <1>2, <1>3, <2>2 DEF Shape
<1>5. Anchored'  BY <1>1, <1>2, <1>3 DEF Anchored, Sweeps, Shape
<1>6. RowShape'  BY <1>1, <1>2 DEF RowShape
<1>7. Outlived'  BY <1>1, <1>2, <1>3, TimesInt DEF Outlived, RowShape
<1>8. Faithful'
  <2> SUFFICES ASSUME row # None, row.version = watch.version, snaps[row.snap] # None
               PROVE  snaps[row.snap].expires <= now' \/ row.verdict = VerdictOn(snaps[row.snap].offer)
    BY <1>1, Zenon DEF Faithful, VerdictOn
  <2>1. row.snap \in Times /\ snaps[row.snap].expires \in Int
    BY <1>2, SnapFields DEF RowShape
  <2>2. snaps[row.snap].expires <= now \/ row.verdict = VerdictOn(snaps[row.snap].offer)
    BY <1>2 DEF Faithful
  <2> QED  BY <1>3, <2>1, <2>2
<1>9. Holding' /\ Reading'  BY <1>1 DEF EvalInv, Holding, Reading
<1> QED  BY <1>4, <1>5, <1>6, <1>7, <1>8, <1>9 DEF EvalInv

\* A saved requirement is a new version, which no stored verdict quotes.
LEMMA SaveStep == ASSUME EvalInv, NEW s \in Specs, SaveRequirement(s) PROVE EvalInv'
<1>1. /\ watch' = [spec |-> s.watch, version |-> watch.version + 1]
      /\ UNCHANGED <<now, listing, snaps, swept, row, job>>
  BY DEF SaveRequirement
<1>2. Shape /\ Anchored /\ RowShape /\ Outlived /\ Holding /\ Reading  BY DEF EvalInv
<1>3. watch.version \in Int /\ watch'.version = watch.version + 1  BY <1>1, <1>2 DEF Shape
<1>4. Shape' /\ Anchored'  BY <1>1, <1>2, <1>3 DEF Shape, Anchored, Sweeps
<1>5. RowShape'  BY <1>1, <1>2, <1>3 DEF RowShape
<1>6. Outlived'  BY <1>1, <1>2 DEF Outlived
<1>7. Faithful'
  <2>1. row # None => row.version # watch'.version  BY <1>2, <1>3 DEF RowShape
  <2> QED  BY <1>1, <2>1 DEF Faithful
<1>8. Holding'  BY <1>1, <1>2 DEF Holding
<1>9. Reading'  BY <1>1, <1>2, <1>3 DEF Reading
<1> QED  BY <1>4, <1>5, <1>6, <1>7, <1>8, <1>9 DEF EvalInv

\* The verdict is written on the snapshot the lock was taken on.
LEMMA WriteStep == ASSUME EvalInv, WriteRow PROVE EvalInv'
<1> DEFINE verdict == Verdict(job.watch.spec, satellite, job.inputs, listing.offer, job.offer)
<1>1. /\ job.pc = "watch" /\ job' = IdleJob
      /\ row' = [verdict |-> verdict, version |-> job.watch.version, edge |-> edge.id,
                 snap |-> job.snap, inputs |-> job.inputs, expires |-> listing.expires]
      /\ UNCHANGED <<now, listing, snaps, swept, watch, satellite>>
  BY DEF WriteRow, VersionRead
<1>2. Shape /\ Anchored /\ Holding /\ Reading  BY DEF EvalInv
<1>3. /\ ~listing.ended /\ job.snap = listing.at /\ job.offer = listing.offer
      /\ listing.at \in Times /\ listing.at \in Int /\ listing.expires \in Int
      /\ listing.expires = listing.at + TTL
  BY <1>1, <1>2, TimesInt DEF Holding, Shape, Anchored
<1>4. /\ job.watch.version \in Int /\ job.watch.version <= watch.version
      /\ job.watch.version = watch.version => job.watch.spec = watch.spec
  BY <1>1, <1>2 DEF Reading
<1>5. IF snaps[listing.at] = None THEN listing.expires <= now
      ELSE snaps[listing.at] = [offer |-> listing.offer, expires |-> listing.expires]
  BY <1>2, <1>3 DEF Anchored
<1>6. Shape' /\ Anchored'  BY <1>1, <1>2 DEF Shape, Anchored, Sweeps
<1> HIDE DEF verdict
<1>7. RowShape'  BY <1>1, <1>3, <1>4 DEF RowShape
<1>8. /\ row'.snap = listing.at /\ row'.expires = listing.expires /\ row'.verdict = verdict
      /\ row'.version = job.watch.version /\ row'.inputs = job.inputs
  BY <1>1, <1>3
<1>9. Outlived'  BY <1>1, <1>3, <1>5, <1>8 DEF Outlived
<1>10. Faithful'
  <2> SUFFICES ASSUME row'.version = watch.version, snaps[listing.at] # None
               PROVE  row'.verdict = Verdict(watch.spec, satellite, row'.inputs,
                                             snaps[listing.at].offer, snaps[listing.at].offer)
    BY <1>1, <1>8, Zenon DEF Faithful, VerdictOn
  <2>1. snaps[listing.at].offer = listing.offer  BY <1>5
  <2>2. job.watch.spec = watch.spec  BY <1>4, <1>8
  <2> QED  BY <1>3, <1>8, <2>1, <2>2 DEF verdict
<1>11. Holding' /\ Reading'  BY <1>1 DEF Holding, Reading, IdleJob
<1> QED  BY <1>6, <1>7, <1>9, <1>10, <1>11 DEF EvalInv

LEMMA EvalStep == OneScope /\ EvalInv /\ [Next]_vars => EvalInv'
<1> SUFFICES ASSUME OneScope, EvalInv, [Next]_vars PROVE EvalInv'
  OBVIOUS
<1> DEFINE Frame == UNCHANGED <<now, listing, snaps, swept, watch, satellite, row>>
<1>1. ASSUME Frame, Holding', Reading' PROVE EvalInv'
  BY <1>1, FrameStep DEF EvalInv
<1>2. ASSUME NEW l \in Lanes, NEW o \in Offers, NEW at \in Times, NEW s \in Scopes, Persist(l, o, at, s)
      PROVE  EvalInv'
  BY <1>2, PersistStep
<1>3. ASSUME Frame, job' = job \/ job' = IdleJob PROVE EvalInv'
  <2>1. Holding' /\ Reading'  BY <1>3 DEF EvalInv, Holding, Reading, IdleJob
  <2> QED  BY <1>1, <1>3, <2>1
<1>4. ASSUME NEW l \in Lanes, Resolve(l) \/ GiveUp(l) PROVE EvalInv'
  BY <1>3, <1>4 DEF Resolve, GiveUp
<1>5. ASSUME NEW c \in Catalogs, EditCatalog(c) PROVE EvalInv'
  BY <1>3, <1>5 DEF EditCatalog
<1>6. ASSUME NEW c \in Lanes \union {Command}, Skip(c) PROVE EvalInv'
  BY <1>3, <1>6 DEF Skip
<1>7. ASSUME NEW c \in Lanes \union {Command}, LockListing(c) PROVE EvalInv'
  <2>1. Newest = listing.at /\ NewestOffer = listing.offer /\ ~listing.ended
    BY <1>7, NewestIsSeen DEF LockListing, Active, EvalInv
  <2>2. Frame /\ job'.pc = "locked" /\ job'.snap = Newest /\ job'.offer = NewestOffer
    BY <1>7 DEF LockListing
  <2>3. Holding' /\ Reading'  BY <2>1, <2>2 DEF Holding, Reading
  <2> QED  BY <1>1, <2>2, <2>3
<1>8. CASE ReadWatch
  <2>1. Frame /\ job.pc = "locked" /\ job'.pc = "watch" /\ job'.snap = job.snap
        /\ job'.offer = job.offer /\ job'.watch = watch
    BY <1>8 DEF ReadWatch
  <2>2. Holding' /\ Reading'  BY <2>1 DEF EvalInv, Holding, Reading, Shape
  <2> QED  BY <1>1, <2>1, <2>2
<1>9. CASE Abandon  BY <1>3, <1>9 DEF Abandon
<1>10. CASE UNCHANGED vars  BY <1>3, <1>10 DEF vars
<1> QED
  BY <1>2, <1>4, <1>5, <1>6, <1>7, <1>8, <1>9, <1>10, SweepStep, PurgeStep, TickStep, SaveStep, WriteStep
  DEF Next

LEMMA EvalInit == Init => EvalInv
<1> SUFFICES ASSUME Init PROVE EvalInv
  OBVIOUS
<1>1. /\ now \in Times /\ row = None /\ job = IdleJob
      /\ watch = [spec |-> AnyOffer, version |-> 1] /\ swept = [s \in Scopes |-> 0]
  BY DEF Init
<1>2. PICK o \in Offers, s \in Scopes :
        /\ listing = [offer |-> o, at |-> now, absence |-> 0, ended |-> FALSE, scope |-> s,
                      expires |-> now + TTL]
        /\ snaps = [t \in Times |-> IF t = now THEN [offer |-> o, expires |-> now + TTL] ELSE None]
  BY Zenon DEF Init
<1>3. now \in Int /\ now >= 1 /\ TTL \in Nat /\ now + TTL \in Int
  BY <1>1, EligibilityAssumption DEF Times
<1>4. [offer |-> o, expires |-> now + TTL] \in Snapshot /\ [offer |-> o, expires |-> now + TTL] # None
  BY <1>3, RecordIsSnapshot
<1>5. Shape  BY <1>1, <1>2, <1>3, <1>4 DEF Shape
<1>6. Anchored
  <2>1. Sweeps = 0  BY <1>1, <1>2 DEF Sweeps
  <2>2. \A t \in Times : snaps[t] # None => t = now /\ snaps[t].expires = t + TTL
    BY <1>2
  <2> QED  BY <1>1, <1>2, <1>3, <1>4, <2>1, <2>2 DEF Anchored
<1>7. RowShape /\ Outlived /\ Faithful  BY <1>1 DEF RowShape, Outlived, Faithful
<1>8. Holding /\ Reading  BY <1>1 DEF Holding, Reading, IdleJob
<1> QED  BY <1>5, <1>6, <1>7, <1>8 DEF EvalInv
-----------------------------------------------------------------------------
\* evaluate_listing holds the listing's row lock from what it reads to what it
\* writes, and mark_delisted pulls the evaluation forward with the snapshots: an
\* evaluation never outlives the snapshot it quotes.
THEOREM KeptAlwaysNoLonger ==
  ASSUME OneScope
  PROVE  Spec => []KeptNoLonger
<1>1. EvalInv => KeptNoLonger
  BY DEF EvalInv, Outlived, KeptNoLonger
<1>2. EvalInv /\ [Next]_vars => EvalInv'  BY EvalStep
<1> QED  BY <1>1, <1>2, EvalInit, PTL DEF Spec

\* row_currency compares the stored snapshot time, edge, version and inputs with
\* the live ones: an active listing whose evaluation they call current would be
\* judged the same if it were evaluated now.
THEOREM CurrentAlwaysRight ==
  ASSUME OneScope
  PROVE  Spec => []CurrentIsRight
<1>1. EvalInv => CurrentIsRight
  <2> SUFFICES ASSUME EvalInv, Active, Current
               PROVE  row.verdict = Verdict(watch.spec, satellite, LiveInputs, listing.offer, NewestOffer)
    BY DEF CurrentIsRight
  <2>1. row # None /\ row.snap = Newest /\ row.version = watch.version /\ row.inputs = LiveInputs
    BY DEF Current
  <2>2. Newest = listing.at /\ NewestOffer = listing.offer  BY NewestIsSeen DEF EvalInv
  <2>3. ~listing.ended /\ listing.expires > now /\ now \in Int /\ listing.expires \in Int
    BY TimesInt DEF Active, EvalInv, Shape
  <2>4. snaps[listing.at] = [offer |-> listing.offer, expires |-> listing.expires]
        /\ snaps[listing.at] # None
    BY <2>3 DEF EvalInv, Anchored
  <2>5. row.verdict = VerdictOn(listing.offer)
    BY <2>1, <2>2, <2>3, <2>4 DEF EvalInv, Faithful
  <2> QED  BY <2>1, <2>2, <2>5 DEF VerdictOn
<1>2. EvalInv /\ [Next]_vars => EvalInv'  BY EvalStep
<1> QED  BY <1>1, <1>2, EvalInit, PTL DEF Spec
-----------------------------------------------------------------------------
(* What a verdict proves.                                                  *)

\* The requirement, the catalog and the target are what they may be.
Decided(e) ==
    \/ e.grain = "none" /\ e.family = None /\ e.model = None
    \/ e.grain = "family" /\ e.family \in Families /\ e.model = None
    \/ e.grain = "model" /\ e.model \in Models /\ e.family = FamilyOf[e.model]
Ruled ==
    /\ watch.spec \in Watch /\ (watch.spec.family = None \/ watch.spec.model = None)
    /\ satellite \in Satellite \union {None}
    /\ catalog \in [Models -> Attrs \union {None, Gone, Absent}]
    /\ Decided(edge)
    /\ edge = [id |-> edge.id, grain |-> edge.grain, family |-> edge.family, model |-> edge.model,
               fresh |-> edge.fresh]

LEMMA RuledInit == Init => Ruled
<1> SUFFICES ASSUME Init PROVE Ruled
  OBVIOUS
<1>1. AnyOffer \in Watch /\ AnyOffer.family = None  BY DEF AnyOffer, Watch
<1>2. Catalog0 \in [Models -> Attrs \union {None, Gone, Absent}]  BY EligibilityAssumption
<1> QED  BY <1>1, <1>2 DEF Init, Ruled, Decided, NoEdge

LEMMA RuledStep == Ruled /\ [Next]_vars => Ruled'
<1> SUFFICES ASSUME Ruled, [Next]_vars PROVE Ruled'
  OBVIOUS
<1>1. ASSUME UNCHANGED <<edge, catalog, watch, satellite>> PROVE Ruled'
  BY <1>1 DEF Ruled, Decided
<1>2. ASSUME NEW l \in Lanes, NEW o \in Offers, NEW at \in Times, NEW s \in Scopes, Persist(l, o, at, s)
      PROVE  Ruled'
  <2> DEFINE fresh == edge.fresh /\ listing'.offer.title = listing.offer.title
  <2>1. edge' = [edge EXCEPT !.fresh = fresh] /\ UNCHANGED <<catalog, watch, satellite>>
    BY <1>2 DEF Persist
  <2> HIDE DEF fresh
  <2>2. edge' = [id |-> edge.id, grain |-> edge.grain, family |-> edge.family, model |-> edge.model,
                 fresh |-> fresh]
    BY <2>1 DEF Ruled
  <2> QED  BY <2>1, <2>2 DEF Ruled, Decided
<1>3. ASSUME NEW l \in Lanes, Resolve(l) PROVE Ruled'
  <2>1. Resolved /\ UNCHANGED <<catalog, watch, satellite>>  BY <1>3 DEF Resolve
  <2>2. CASE edge' = [edge EXCEPT !.fresh = TRUE]
    <3>1. edge' = [id |-> edge.id, grain |-> edge.grain, family |-> edge.family, model |-> edge.model,
                   fresh |-> TRUE]
      BY <2>2 DEF Ruled
    <3> QED  BY <2>1, <3>1 DEF Ruled, Decided
  <2>3. ASSUME NEW t \in Targets,
               edge' = [id |-> edge.id + 1, grain |-> t.grain, family |-> t.family, model |-> t.model,
                        fresh |-> TRUE]
        PROVE  Ruled'
    <3>1. Decided(t)  BY EligibilityAssumption DEF Targets, Decided
    <3> QED  BY <2>1, <2>3, <3>1 DEF Ruled, Decided
  <2> QED  BY <2>1, <2>2, <2>3 DEF Resolved
<1>4. ASSUME NEW c \in Catalogs, EditCatalog(c) PROVE Ruled'
  BY <1>4, EligibilityAssumption DEF EditCatalog, Ruled, Decided
<1>5. ASSUME NEW s \in Specs, SaveRequirement(s) PROVE Ruled'
  <2>1. s.watch \in Watch /\ s.satellite \in Satellite
        /\ (s.watch.family = None \/ s.watch.model = None)
    BY EligibilityAssumption DEF WellFormed
  <2>2. watch'.spec = s.watch /\ satellite' = s.satellite /\ UNCHANGED <<edge, catalog>>
    BY <1>5 DEF SaveRequirement
  <2> QED  BY <2>1, <2>2 DEF Ruled, Decided
<1>6. ASSUME NEW l \in Lanes, GiveUp(l) PROVE Ruled'  BY <1>1, <1>6 DEF GiveUp
<1>7. ASSUME NEW s \in Scopes, NEW t \in Times, Sweep(s, t) PROVE Ruled'  BY <1>1, <1>7 DEF Sweep
<1>8. ASSUME NEW c \in Lanes \union {Command}, Skip(c) \/ LockListing(c) PROVE Ruled'
  BY <1>1, <1>8 DEF Skip, LockListing
<1>9. CASE Purge \/ Tick \/ ReadWatch \/ WriteRow \/ Abandon
  BY <1>1, <1>9 DEF Purge, Tick, ReadWatch, WriteRow, Abandon
<1>10. CASE UNCHANGED vars  BY <1>1, <1>10 DEF vars
<1> QED  BY <1>2, <1>3, <1>4, <1>5, <1>6, <1>7, <1>8, <1>9, <1>10 DEF Next

\* What the catalog says of a product is what it says of each of its members.
LEMMA KnownFacts ==
  ASSUME Ruled, Known(LiveInputs) # None
  PROVE  /\ DOMAIN LiveInputs.members # {}
         /\ Known(LiveInputs) \in Attrs
         /\ \A m \in DOMAIN LiveInputs.members : LiveInputs.members[m] = Known(LiveInputs)
<1> DEFINE D == Members(edge)
           values == {SpecOf(m) : m \in D}
<1>1. D \subseteq Models  BY DEF Ruled, Decided, Members
<1>2. LiveInputs.members = [m \in D |-> SpecOf(m)] /\ DOMAIN LiveInputs.members = D
      /\ \A m \in D : LiveInputs.members[m] = SpecOf(m)
  BY DEF LiveInputs, Inputs
<1> DEFINE said == {LiveInputs.members[m] : m \in DOMAIN LiveInputs.members}
<1>3. said = values  BY <1>2
<1>4. Known(LiveInputs) = IF Cardinality(values) = 1 /\ values # {Absent}
                          THEN CHOOSE v \in values : TRUE ELSE None
  <2>1. Known(LiveInputs) = IF Cardinality(said) = 1 /\ said # {Absent}
                            THEN CHOOSE v \in said : TRUE ELSE None
    BY Zenon DEF Known
  <2> HIDE DEF said, values
  <2> QED  BY <1>3, <2>1
<1>5. IsFiniteSet(values)
  <2> DEFINE f == [m \in D |-> SpecOf(m)]
  <2>1. IsFiniteSet(D)  BY <1>1, EligibilityAssumption, FS_Subset
  <2>2. f \in Surjection(D, values)  BY DEF Surjection
  <2> HIDE DEF f, D, values
  <2> QED  BY <2>1, <2>2, FS_Surjection
<1>6. Cardinality(values) = 1 /\ values # {Absent}  BY <1>4
<1>7. PICK v : values = {v}  BY <1>5, <1>6, FS_Singleton
<1>8. Known(LiveInputs) = v /\ v # Absent
  <2>1. (CHOOSE w \in values : TRUE) = v  BY <1>7
  <2> QED  BY <1>4, <1>6, <1>7, <2>1
<1>9. D # {} /\ \A m \in D : SpecOf(m) = v  BY <1>7
<1>10. v \in Attrs
  <2>1. PICK m \in D : SpecOf(m) = v  BY <1>9
  <2>2. SpecOf(m) \in Attrs \union {None, Absent}  BY <1>1 DEF SpecOf, Ruled
  <2> QED  BY <1>8, <2>1, <2>2
<1> QED  BY <1>2, <1>8, <1>9, <1>10

\* The unit on offer is one the resolution allows, and says what the title says.
LEMMA CandidateFacts ==
  ASSUME Ruled, NEW u \in Candidate
  PROVE  /\ u.model \in Models /\ u.attr \in Attrs
         /\ LiveInputs.grain = "model" => u.model = LiveInputs.model
         /\ LiveInputs.family # None => FamilyOf[u.model] = LiveInputs.family
         /\ Known(LiveInputs) # None => u.attr = Known(LiveInputs)
         /\ LET title == listing.offer.title IN title.attr # None /\ title.sure => u.attr = title.attr
<1> DEFINE members == DOMAIN LiveInputs.members
           title == listing.offer.title
           models == IF members # {} THEN members
                     ELSE {m \in Models : LiveInputs.family \in {None, FamilyOf[m]}}
           attrs(m) == IF members = {} \/ LiveInputs.members[m] \in {None, Absent} THEN Attrs
                       ELSE {LiveInputs.members[m]}
<1>1. Candidate = UNION {{x \in [model: {m}, attr: attrs(m)] :
                            title.attr # None /\ title.sure => x.attr = title.attr} : m \in models}
  BY Zenon DEF Candidate
<1>2. PICK m \in models : u \in {x \in [model: {m}, attr: attrs(m)] :
                                   title.attr # None /\ title.sure => x.attr = title.attr}
  BY <1>1
<1>3. u.model = m /\ u.attr \in attrs(m) /\ (title.attr # None /\ title.sure => u.attr = title.attr)
  BY <1>2
<1>4. /\ LiveInputs.grain = edge.grain /\ LiveInputs.family = edge.family
      /\ LiveInputs.model = edge.model
      /\ members = Members(edge) /\ \A x \in Members(edge) : LiveInputs.members[x] = SpecOf(x)
  BY DEF LiveInputs, Inputs
<1>5. m \in Models
  BY <1>2, <1>4 DEF Ruled, Decided, Members
<1>6. LiveInputs.grain = "model" => m = LiveInputs.model
  BY <1>2, <1>4 DEF Members
<1>7. LiveInputs.family # None => FamilyOf[m] = LiveInputs.family
  <2>1. CASE members = {}  BY <1>2, <2>1
  <2>2. CASE members # {}  BY <1>2, <1>4, <2>2 DEF Ruled, Decided, Members
  <2> QED  BY <2>1, <2>2
<1>8. u.attr \in Attrs
  <2>1. CASE attrs(m) = Attrs  BY <1>3, <2>1
  <2>2. CASE members # {} /\ LiveInputs.members[m] \notin {None, Absent}
    <3>1. m \in Members(edge) /\ attrs(m) = {SpecOf(m)} /\ SpecOf(m) \notin {None, Absent}
      BY <1>2, <1>4, <2>2
    <3>2. SpecOf(m) \in Attrs \union {None, Absent}  BY <1>5 DEF SpecOf, Ruled
    <3> QED  BY <1>3, <3>1, <3>2
  <2> QED  BY <2>1, <2>2
<1>9. Known(LiveInputs) # None => u.attr = Known(LiveInputs)
  <2> SUFFICES ASSUME Known(LiveInputs) # None PROVE u.attr = Known(LiveInputs)
    OBVIOUS
  <2>1. members # {} /\ m \in members /\ LiveInputs.members[m] = Known(LiveInputs)
        /\ Known(LiveInputs) \in Attrs
    BY <1>2, KnownFacts
  <2>2. attrs(m) = {Known(LiveInputs)}  BY <2>1, EligibilityAssumption
  <2> QED  BY <1>3, <2>2
<1> QED  BY <1>3, <1>5, <1>6, <1>7, <1>8, <1>9

\* Each clause: what it says when it is met, and when it refutes.
LEMMA TargetFacts ==
  ASSUME Ruled, NEW u \in Candidate
  PROVE  LET c == TargetClause(watch.spec, LiveInputs)
             ok == watch.spec.model \in {None, u.model} /\ watch.spec.family \in {None, FamilyOf[u.model]}
         IN  (c \notin {"no_match", "unknown"} => ok) /\ (c = "no_match" => ~ok)
<1>1. /\ LiveInputs.grain = edge.grain /\ LiveInputs.family = edge.family
      /\ LiveInputs.model = edge.model
  BY DEF LiveInputs, Inputs
<1>2. /\ u.model \in Models
      /\ edge.grain = "model" => u.model = edge.model
      /\ edge.family # None => FamilyOf[u.model] = edge.family
  BY <1>1, CandidateFacts
<1>3. Decided(edge) /\ (watch.spec.family = None \/ watch.spec.model = None)  BY DEF Ruled
<1>4. /\ edge.grain = "family" => edge.family # None
      /\ edge.grain = "model" => edge.family # None /\ edge.model # None
  BY <1>3, EligibilityAssumption DEF Decided
<1> DEFINE c == TargetClause(watch.spec, LiveInputs)
<1>5. CASE watch.spec.family = None /\ watch.spec.model = None
  BY <1>5 DEF TargetClause
<1>6. CASE edge.grain = "none" /\ (watch.spec.family # None \/ watch.spec.model # None)
  <2>1. c = "unknown"  BY <1>1, <1>6 DEF TargetClause
  <2> QED  BY <2>1
<1>7. CASE edge.grain # "none" /\ watch.spec.model # None
  <2>1. c = IF edge.grain = "family" THEN "unknown" ELSE Judged(edge.model = watch.spec.model)
    BY <1>1, <1>3, <1>7 DEF TargetClause
  <2>2. edge.grain \in {"family", "model"}  BY <1>3, <1>7 DEF Decided
  <2> QED  BY <1>2, <1>3, <1>7, <2>1, <2>2 DEF Judged
<1>8. CASE edge.grain # "none" /\ watch.spec.family # None
  <2>1. c = IF edge.family = None THEN "unknown" ELSE Judged(edge.family = watch.spec.family)
    BY <1>1, <1>3, <1>8 DEF TargetClause
  <2> QED  BY <1>2, <1>3, <1>8, <2>1 DEF Judged
<1> QED  BY <1>5, <1>6, <1>7, <1>8

LEMMA AttributeSound ==
  ASSUME NEW min, NEW known, NEW title, NEW attr \in Int, min # None => min \in Int,
         known # None => attr = known, title.attr # None /\ title.sure => attr = title.attr
  PROVE  LET c == AttributeClause(min, known, title)
             ok == min = None \/ attr >= min
         IN  (c \notin {"no_match", "unknown"} => ok) /\ (c = "no_match" => ~ok)
<1> DEFINE c == AttributeClause(min, known, title)
<1>1. CASE min = None  BY <1>1 DEF AttributeClause
<1>2. CASE min # None
  <2>1. CASE known # None /\ known < min
    <3>1. c = "no_match"  BY <1>2, <2>1 DEF AttributeClause
    <3> QED  BY <1>2, <2>1, <3>1
  <2>2. CASE (known = None \/ known >= min) /\ title.attr # None /\ title.sure /\ title.attr < min
    <3>1. ~(known # None /\ known < min)  BY <1>2, <2>2
    <3>2. c = "no_match"  BY <1>2, <2>2, <3>1 DEF AttributeClause
    <3> QED  BY <1>2, <2>2, <3>2
  <2>3. CASE /\ ~(known # None /\ known < min)
             /\ ~((known = None \/ known >= min) /\ title.attr # None /\ title.sure /\ title.attr < min)
             /\ known # None
    <3>1. attr >= min  BY <1>2, <2>3
    <3>2. c # "no_match"  BY <1>2, <2>3 DEF AttributeClause
    <3> QED  BY <3>1, <3>2
  <2>4. CASE /\ ~((known = None \/ known >= min) /\ title.attr # None /\ title.sure /\ title.attr < min)
             /\ known = None
    <3>1. c = "unknown"  BY <1>2, <2>4 DEF AttributeClause
    <3> QED  BY <3>1
  <2> QED  BY <2>1, <2>2, <2>3, <2>4
<1> QED  BY <1>1, <1>2

LEMMA AttributeFacts ==
  ASSUME Ruled, NEW u \in Candidate, satellite # None
  PROVE  LET c == AttributeClause(satellite.min, Known(LiveInputs), listing.offer.title)
             ok == satellite.min = None \/ u.attr >= satellite.min
         IN  (c \notin {"no_match", "unknown"} => ok) /\ (c = "no_match" => ~ok)
<1>1. satellite.min \in Attrs \union {None}  BY DEF Ruled, Satellite
<1>2. /\ u.attr \in Int /\ (satellite.min # None => satellite.min \in Int)
      /\ Known(LiveInputs) # None => u.attr = Known(LiveInputs)
      /\ listing.offer.title.attr # None /\ listing.offer.title.sure
            => u.attr = listing.offer.title.attr
  BY <1>1, CandidateFacts, EligibilityAssumption
<1> QED  BY <1>2, AttributeSound, Zenon

LEMMA PriceSound ==
  ASSUME NEW max \in Nat \union {None}, NEW offer, NEW title,
         offer # None /\ offer.fx \in BOOLEAN,
         offer.item \in Nat /\ offer.shipping \in Nat \union {None},
         title.count \in Nat \union {None}, title.count # 0, title.countSure \in BOOLEAN
  PROVE  LET c == PriceClause(max, offer, title)
             counts == IF title.count = None THEN {1} ELSE
                       IF title.countSure THEN {title.count} ELSE 1..(2 * title.count)
             shippings == IF offer.shipping = None THEN 0..(2 * offer.item) ELSE {offer.shipping}
             ok(s, n) == max = None \/ offer.item + s <= max * n
         IN  /\ c \notin {"no_match", "unknown"} =>
                   /\ max # None => offer.fx
                   /\ \A s \in shippings, n \in counts : ok(s, n)
             /\ c = "no_match" => offer.fx /\ \A s \in shippings, n \in counts : ~ok(s, n)
<1> DEFINE c == PriceClause(max, offer, title)
           counts == IF title.count = None THEN {1} ELSE
                     IF title.countSure THEN {title.count} ELSE 1..(2 * title.count)
           shippings == IF offer.shipping = None THEN 0..(2 * offer.item) ELSE {offer.shipping}
           ok(s, n) == max = None \/ offer.item + s <= max * n
<1>0. None \notin Int  BY EligibilityAssumption
<1>1. CASE max = None
  <2>1. c = "match"  BY <1>1 DEF PriceClause
  <2> QED  BY <1>1, <2>1
<1>2. CASE max # None /\ ~offer.fx
  <2>1. c = "unknown"  BY <1>2 DEF PriceClause
  <2> QED  BY <2>1
<1>3. CASE max # None /\ offer.fx /\ PriceWithin(max, offer, title)
  <2>1. c = IF offer.shipping # None THEN "match" ELSE "unknown"  BY <1>3 DEF PriceClause
  <2>2. CASE offer.shipping # None
    <3>1. offer.item + offer.shipping <= max * (IF title.count # None /\ title.countSure THEN title.count ELSE 1)
      BY <1>3, <2>2 DEF PriceWithin, Price
    <3>2. CASE title.count = None  BY <1>3, <2>1, <2>2, <3>1, <3>2
    <3>3. CASE title.count # None /\ title.countSure  BY <1>3, <2>1, <2>2, <3>1, <3>3
    <3>4. CASE title.count # None /\ ~title.countSure
      <4>1. \A n \in counts : n \in Nat /\ n >= 1  BY <3>4
      <4>2. \A n \in counts : max <= max * n
        <5> SUFFICES ASSUME NEW n \in counts PROVE max <= max * n
          OBVIOUS
        <5>1. n \in Nat /\ n >= 1 /\ max \in Nat /\ n - 1 \in Nat  BY <1>3, <4>1
        <5>2. max * n = max + max * (n - 1) /\ max * (n - 1) \in Nat  BY <5>1
        <5> QED  BY <5>1, <5>2
      <4>3. offer.item + offer.shipping <= max  BY <1>3, <3>1, <3>4
      <4>4. \A n \in counts : offer.item + offer.shipping <= max * n
        <5> SUFFICES ASSUME NEW n \in counts PROVE offer.item + offer.shipping <= max * n
          OBVIOUS
        <5>1. max <= max * n /\ max * n \in Int /\ max \in Int /\ offer.item + offer.shipping \in Int
          BY <1>3, <2>2, <4>1, <4>2
        <5> QED  BY <4>3, <5>1
      <4> QED  BY <1>3, <2>1, <2>2, <4>4
    <3> QED  BY <3>2, <3>3, <3>4
  <2> QED  BY <2>1, <2>2
<1>4. CASE max # None /\ offer.fx /\ ~PriceWithin(max, offer, title)
  <2>1. c = IF title.count # None /\ ~title.countSure THEN "unknown" ELSE "no_match"
    BY <1>4 DEF PriceClause
  <2>2. CASE ~(title.count # None /\ ~title.countSure)
    <3> DEFINE k == IF title.count # None THEN title.count ELSE 1
               said == IF offer.shipping = None THEN 0 ELSE offer.shipping
    <3>1. counts = {k} /\ k \in Nat  BY <2>2
    <3>2. ~(offer.item + said <= max * k)  BY <1>4, <2>2 DEF PriceWithin, Price
    <3>3. \A s \in shippings : s \in Nat /\ s >= said /\ said \in Nat  BY <1>0
    <3> HIDE DEF k, said
    <3>4. max \in Nat  BY <1>4
    <3>5. \A s \in shippings : ~(offer.item + s <= max * k)
      <4> DEFINE m == max * k
      <4>1. m \in Int  BY <3>1, <3>4
      <4>2. ~(offer.item + said <= m)  BY <3>2
      <4> HIDE DEF m
      <4>3. \A s \in shippings : ~(offer.item + s <= m)  BY <3>3, <4>1, <4>2
      <4> QED  BY <4>3 DEF m
    <3> QED  BY <1>4, <2>1, <2>2, <3>1, <3>5
  <2> QED  BY <2>1, <2>2
<1> QED  BY <1>1, <1>2, <1>3, <1>4

\* aggregate: a match needs every clause, a refutation one.
LEMMA AllOfFacts ==
  ASSUME NEW O
  PROVE  /\ AllOf(O) = "match" => \A c \in O : c \notin {"no_match", "unknown"}
         /\ AllOf(O) = "no_match" => "no_match" \in O
<1>1. CASE "no_match" \in O  BY <1>1 DEF AllOf
<1>2. CASE "no_match" \notin O /\ "unknown" \in O  BY <1>2 DEF AllOf
<1>3. CASE "no_match" \notin O /\ "unknown" \notin O  BY <1>3 DEF AllOf
<1> QED  BY <1>1, <1>2, <1>3

\* The clauses of a listing whose newest snapshot says what the listing says.
LEMMA ClauseFacts ==
  ASSUME Ruled, NewestOffer = listing.offer, listing.offer \in Offers, satellite # None
  PROVE  LET o == listing.offer
             w == watch.spec
             price == PriceClause(w.max, o, o.title)
             terms == {ConditionClause(w.conds, o.title), StockClause(w.inStock, o),
                       InternationalClause(w.intl, o.intl), VendorLockClause(satellite.unlocked, o.title)}
         IN  /\ price \notin {"no_match", "unknown"} =>
                   (w.max # None => Priced /\ \A c \in Costs : MeetsPrice(c))
             /\ price = "no_match" => Priced /\ ~\E c \in Costs : MeetsPrice(c)
             /\ (\A c \in terms : c \notin {"no_match", "unknown"}) => MeetsTerms(FALSE)
             /\ "no_match" \in terms => ~MeetsTerms(TRUE)
<1> DEFINE o == listing.offer
           w == watch.spec
           title == o.title
           counts == IF title.count = None THEN {1} ELSE
                     IF title.countSure THEN {title.count} ELSE 1..(2 * title.count)
           shippings == IF o.shipping = None THEN 0..(2 * o.item) ELSE {o.shipping}
           price == PriceClause(w.max, o, o.title)
<1>1. /\ o # None /\ o.item \in Nat /\ o.shipping \in Nat \union {None} /\ o.fx \in BOOLEAN
      /\ title.count \in Nat \union {None} /\ title.count # 0 /\ title.countSure \in BOOLEAN
      /\ w.max \in Nat \union {None}
  BY EligibilityAssumption DEF Offer, Title, Ruled, Watch
<1>2. Costs = {UnitCost(s, n) : s \in shippings, n \in counts}
  <2> DEFINE some == CASE title.count = None -> {1} [] title.count # None /\ title.countSure -> {title.count}
                       [] OTHER -> 1..(2 * title.count)
             any == IF NewestOffer.shipping = None THEN 0..(2 * NewestOffer.item) ELSE {NewestOffer.shipping}
  <2>1. counts = some
    <3>1. CASE title.count = None  BY <3>1
    <3>2. CASE title.count # None /\ title.countSure  BY <3>2
    <3>3. CASE title.count # None /\ ~title.countSure  BY <3>3
    <3> QED  BY <1>1, <3>1, <3>2, <3>3
  <2>2. Costs = {UnitCost(s, n) : s \in any, n \in some}  BY DEF Costs
  <2> HIDE DEF some, counts
  <2> QED  BY <2>1, <2>2
<1>3. \A s \in shippings, n \in counts :
        UnitCost(s, n)[1] = o.item + s /\ UnitCost(s, n)[2] = n
  BY DEF UnitCost
<1>4. Priced <=> o.fx  BY <1>1 DEF Priced
<1> DEFINE ok(s, n) == w.max = None \/ o.item + s <= w.max * n
<1>5. /\ price \notin {"no_match", "unknown"} =>
               /\ w.max # None => o.fx
               /\ \A s \in shippings, n \in counts : ok(s, n)
      /\ price = "no_match" => o.fx /\ \A s \in shippings, n \in counts : ~ok(s, n)
  <2> HIDE DEF o, w
  <2> QED  BY <1>1, PriceSound
<1>6. \A s \in shippings, n \in counts : MeetsPrice(UnitCost(s, n)) <=> ok(s, n)
  BY <1>3 DEF MeetsPrice
<1>7. /\ price \notin {"no_match", "unknown"} =>
               (w.max # None => Priced /\ \A c \in Costs : MeetsPrice(c))
      /\ price = "no_match" => Priced /\ ~\E c \in Costs : MeetsPrice(c)
  <2> HIDE DEF shippings, counts, price, ok
  <2> QED  BY <1>2, <1>4, <1>5, <1>6
<1> DEFINE condition == ConditionClause(w.conds, title)
           stock == StockClause(w.inStock, o)
           abroad == InternationalClause(w.intl, o.intl)
           vendor == VendorLockClause(satellite.unlocked, title)
<1>8. /\ condition \notin {"no_match", "unknown"} =>
               (w.conds # {} => Among(title.cond, {None, "unknown"}, FALSE, w.conds))
      /\ condition = "no_match" =>
               ~(w.conds # {} => Among(title.cond, {None, "unknown"}, TRUE, w.conds))
  BY DEF ConditionClause, Judged, Among
<1>9. /\ stock \notin {"no_match", "unknown"} =>
               (w.inStock => Among(o.stock, {"unknown"}, FALSE, {"in_stock"}))
      /\ stock = "no_match" => ~(w.inStock => Among(o.stock, {"unknown"}, TRUE, {"in_stock"}))
  BY <1>1 DEF StockClause, Judged, Among
<1>10. /\ abroad \notin {"no_match", "unknown"} => (w.intl \/ ~o.intl)
       /\ abroad = "no_match" => ~(w.intl \/ ~o.intl)
  BY DEF InternationalClause, Judged
<1>11. /\ vendor \notin {"no_match", "unknown"} =>
                (satellite.unlocked => Among(title.lock, {None}, FALSE, {"unlocked"}))
       /\ vendor = "no_match" =>
                ~(satellite.unlocked => Among(title.lock, {None}, TRUE, {"unlocked"}))
  <2>1. title.lock \in {None, "locked", "unlocked"}  BY EligibilityAssumption DEF Offer, Title, Locks
  <2>2. None # "locked" /\ None # "unlocked"  BY EligibilityAssumption DEF Locks
  <2> QED  BY <2>1, <2>2 DEF VendorLockClause, Among
<1>12. \A open \in BOOLEAN :
         MeetsTerms(open) <=> /\ w.conds # {} => Among(title.cond, {None, "unknown"}, open, w.conds)
                              /\ w.inStock => Among(o.stock, {"unknown"}, open, {"in_stock"})
                              /\ w.intl \/ ~o.intl
                              /\ satellite.unlocked => Among(title.lock, {None}, open, {"unlocked"})
  BY <1>1 DEF MeetsTerms
<1>13. /\ (\A c \in {condition, stock, abroad, vendor} : c \notin {"no_match", "unknown"})
             => MeetsTerms(FALSE)
       /\ "no_match" \in {condition, stock, abroad, vendor} => ~MeetsTerms(TRUE)
  <2> HIDE DEF condition, stock, abroad, vendor
  <2> QED  BY <1>8, <1>9, <1>10, <1>11, <1>12
<1> QED  BY <1>7, <1>13

\* Either verdict of a current evaluation is proven by what is known.
LEMMA VerdictSound ==
  ASSUME Ruled, CurrentIsRight, Active, Current, NewestOffer = listing.offer,
         listing.offer \in Offers
  PROVE  MatchIsProven /\ NoMatchIsProven
<1> DEFINE o == listing.offer
           w == watch.spec
           target == TargetClause(w, LiveInputs)
           attribute == AttributeClause(satellite.min, Known(LiveInputs), o.title)
           vendor == VendorLockClause(satellite.unlocked, o.title)
           price == PriceClause(w.max, o, o.title)
           condition == ConditionClause(w.conds, o.title)
           stock == StockClause(w.inStock, o)
           abroad == InternationalClause(w.intl, o.intl)
           product == IF satellite = None THEN {"unknown"} ELSE {attribute, vendor}
           outcomes == {target} \union product \union {price, condition, stock, abroad}
<1>1. row.verdict = AllOf(outcomes)
  <2>1. row.verdict = Verdict(w, satellite, LiveInputs, o, o)  BY DEF CurrentIsRight
  <2>2. Verdict(w, satellite, LiveInputs, o, o) = AllOf(outcomes)
    BY Zenon DEF Verdict, ProductClauses, OfferClauses
  <2> QED  BY <2>1, <2>2
<1>2. /\ row.verdict = "match" => \A c \in outcomes : c \notin {"no_match", "unknown"}
      /\ row.verdict = "no_match" => "no_match" \in outcomes
  <2> HIDE DEF outcomes
  <2> QED  BY <1>1, AllOfFacts
<1> DEFINE terms == {condition, stock, abroad, vendor}
<1>3. satellite # None =>
        /\ price \notin {"no_match", "unknown"} =>
                 (w.max # None => Priced /\ \A c \in Costs : MeetsPrice(c))
        /\ price = "no_match" => Priced /\ ~\E c \in Costs : MeetsPrice(c)
        /\ (\A c \in terms : c \notin {"no_match", "unknown"}) => MeetsTerms(FALSE)
        /\ "no_match" \in terms => ~MeetsTerms(TRUE)
  BY ClauseFacts
<1>4. \A u \in Candidate : satellite # None =>
        /\ target \notin {"no_match", "unknown"} /\ attribute \notin {"no_match", "unknown"} => MeetsProduct(u)
        /\ target = "no_match" \/ attribute = "no_match" => ~MeetsProduct(u)
  <2> SUFFICES ASSUME NEW u \in Candidate, satellite # None
               PROVE  /\ target \notin {"no_match", "unknown"} /\ attribute \notin {"no_match", "unknown"}
                           => MeetsProduct(u)
                      /\ target = "no_match" \/ attribute = "no_match" => ~MeetsProduct(u)
    OBVIOUS
  <2> DEFINE aimed == w.model \in {None, u.model} /\ w.family \in {None, FamilyOf[u.model]}
             enough == satellite.min = None \/ u.attr >= satellite.min
  <2>1. (target \notin {"no_match", "unknown"} => aimed) /\ (target = "no_match" => ~aimed)
    BY TargetFacts
  <2>2. (attribute \notin {"no_match", "unknown"} => enough) /\ (attribute = "no_match" => ~enough)
    BY AttributeFacts
  <2>3. MeetsProduct(u) <=> aimed /\ enough  BY DEF MeetsProduct
  <2> HIDE DEF target, attribute, aimed, enough
  <2> QED  BY <2>1, <2>2, <2>3
<1> HIDE DEF target, attribute, vendor, price, condition, stock, abroad
<1>5. MatchIsProven
  <2> SUFFICES ASSUME row.verdict = "match"
               PROVE  /\ satellite # None /\ MeetsTerms(FALSE)
                      /\ \A u \in Candidate : MeetsProduct(u)
                      /\ watch.spec.max # None => Priced /\ \A c \in Costs : MeetsPrice(c)
    BY DEF MatchIsProven, Shortlisted
  <2>1. satellite # None  BY <1>2
  <2>2. \A c \in {target, attribute, price} \union terms : c \notin {"no_match", "unknown"}
    BY <1>2, <2>1
  <2> QED  BY <1>3, <1>4, <2>1, <2>2
<1>6. NoMatchIsProven
  <2> SUFFICES ASSUME row.verdict = "no_match", satellite # None,
                      MeetsTerms(TRUE), NEW u \in Candidate, MeetsProduct(u),
                      ~Priced \/ \E c \in Costs : MeetsPrice(c)
               PROVE  FALSE
    BY DEF NoMatchIsProven
  <2>1. "no_match" \in {target, attribute, price} \union terms  BY <1>2
  <2> QED  BY <1>3, <1>4, <2>1
<1> QED  BY <1>5, <1>6

\* aggregate and the clauses: a verdict the owner sees rests on what is known
\* alone.  A shortlisted listing meets the requirement whatever the open facts
\* turn out to be, and a dismissed one fails it whatever they turn out to be.
THEOREM VerdictAlwaysProven ==
  ASSUME OneScope
  PROVE  Spec => []VerdictIsProven
<1>1. EvalInv /\ Ruled /\ CurrentIsRight => VerdictIsProven
  <2> SUFFICES ASSUME EvalInv, Ruled, CurrentIsRight, Active, Current PROVE MatchIsProven /\ NoMatchIsProven
    BY DEF VerdictIsProven, MatchIsProven, NoMatchIsProven, Shortlisted
  <2>1. NewestOffer = listing.offer /\ listing.offer \in Offers
    BY NewestIsSeen DEF EvalInv, Shape
  <2> QED  BY <2>1, VerdictSound
<1>2. EvalInv /\ [Next]_vars => EvalInv'  BY EvalStep
<1> QED  BY <1>1, <1>2, EvalInit, RuledInit, RuledStep, CurrentAlwaysRight, PTL DEF Spec
=============================================================================
