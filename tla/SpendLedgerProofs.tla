-------------------------- MODULE SpendLedgerProofs --------------------------
(***************************************************************************)
(* Theorems about SpendLedger, for every set of reservations, processes    *)
(* and anchors, every cycle length and every bound.                        *)
(*                                                                         *)
(* A step changes one row, and does to it one of the things a row may      *)
(* undergo: admission, settlement, a read begun, answered, failed or       *)
(* resolved, and so on (RowMove).  BaseInv types rows and processes and    *)
(* says what each row's history commits it to (RowKept); every theorem     *)
(* below then adds its own invariant of one row and shows that each move   *)
(* keeps it.                                                               *)
(*                                                                         *)
(* The caps are about sums.  What a row contributes to a cycle is its      *)
(* Share; CapsInv says that the shares of every recorded cycle stay below  *)
(* each cap and that every row was admitted in a recorded cycle.  It is    *)
(* used twice: for the runs alone, and for the runs with their monitoring  *)
(* allowances, which needs a single process and a single anchor.           *)
(***************************************************************************)
EXTENDS SpendLedger, FiniteSums

\* No instant is in two cycles of a set.
Disjoint(S) == \A c, d \in S : c = d \/ c.end < d.start \/ d.end < c.start

\* The derived cycle is a cycle, and not empty.
LEMMA DerivedCycle ==
    ASSUME NEW a \in Int, NEW t \in Int
    PROVE  Derived(a, t) \in Cycle /\ Derived(a, t).start <= Derived(a, t).end
<1>1. CycleLen \in Nat \ {0}
    BY CycleAssumption
<1>2. (t - a) \div CycleLen \in Int
    BY <1>1, SMT
<1> DEFINE k == (t - a) \div CycleLen
<1>3. k * CycleLen \in Int
    BY <1>1, <1>2, SMT
<1> DEFINE s == a + k * CycleLen
<1>4. s \in Int /\ s + CycleLen - 1 \in Int /\ s <= s + CycleLen - 1
    <2> HIDE DEF k
    <2> QED BY <1>1, <1>3, SMT
<1>5. Derived(a, t) = [start |-> s, end |-> s + CycleLen - 1]
    BY DEF Derived
<1> HIDE DEF s
<1> QED BY <1>4, <1>5, SMT DEF Cycle

\* A cycle b that conflicts with no recorded one can be added, with the older
\* rows that reach into it cut short, without two rows ever sharing an instant
\* (ensure_cycle, cases 2 to 4).
LEMMA WithCycleDisjoint ==
    ASSUME NEW S \in SUBSET Cycle, Disjoint(S),
           NEW b \in Cycle, b.start <= b.end, ~Conflicts(S, b)
    PROVE  WithCycle(S, b) \in SUBSET Cycle /\ Disjoint(WithCycle(S, b))
<1>1. CASE b \in S
    BY <1>1 DEF WithCycle
<1>2. CASE b \notin S
    <2> DEFINE cut(c) == IF c.start < b.start /\ c.end >= b.start
                         THEN [c EXCEPT !.end = b.start - 1] ELSE c
    <2>1. WithCycle(S, b) = {cut(c) : c \in S} \union {b}
        BY <1>2 DEF WithCycle
    <2>2. ASSUME NEW c \in S
          PROVE  /\ cut(c) \in Cycle
                 /\ cut(c).start = c.start
                 /\ cut(c).end <= c.end
                 /\ c.start < b.start => cut(c).end < b.start
        <3>1. c \in Cycle
            OBVIOUS
        <3> QED BY <3>1, SMT DEF Cycle
    <2>3. ASSUME NEW c \in S
          PROVE  c.start < b.start \/ b.end < c.start
        <3>1. c \in Cycle /\ c # b
            BY <1>2
        <3>2. c.start = b.start => c.end = b.end
            BY DEF Conflicts
        <3>3. ~(b.start < c.start /\ c.start <= b.end)
            BY DEF Conflicts
        <3>4. c.start # b.start
            BY <3>1, <3>2, SMT DEF Cycle
        <3> QED BY <3>1, <3>3, <3>4, SMT DEF Cycle
    <2>4. ASSUME NEW c \in S, NEW d \in S
          PROVE  \/ cut(c) = cut(d)
                 \/ cut(c).end < cut(d).start
                 \/ cut(d).end < cut(c).start
        <3>1. c = d \/ c.end < d.start \/ d.end < c.start
            BY DEF Disjoint
        <3>2. CASE c = d
            BY <3>2
        <3>3. CASE c # d
            <4>1. /\ cut(c) \in Cycle /\ cut(d) \in Cycle /\ c \in Cycle /\ d \in Cycle
                  /\ cut(c).start = c.start /\ cut(c).end <= c.end
                  /\ cut(d).start = d.start /\ cut(d).end <= d.end
                BY <2>2
            <4> HIDE DEF cut
            <4> QED BY <3>1, <3>3, <4>1, SMT DEF Cycle
        <3> QED BY <3>2, <3>3
    <2>5. ASSUME NEW c \in S
          PROVE  cut(c).end < b.start \/ b.end < cut(c).start
        <3>1. /\ cut(c).start = c.start
              /\ c.start < b.start => cut(c).end < b.start
            BY <2>2
        <3> HIDE DEF cut
        <3> QED BY <2>3, <3>1
    <2>6. WithCycle(S, b) \in SUBSET Cycle
        <3> HIDE DEF cut
        <3> QED BY <2>1, <2>2
    <2>7. ASSUME NEW x \in WithCycle(S, b), NEW y \in WithCycle(S, b)
          PROVE  x = y \/ x.end < y.start \/ y.end < x.start
        <3> HIDE DEF cut
        <3>1. (x = b \/ \E c \in S : x = cut(c)) /\ (y = b \/ \E d \in S : y = cut(d))
            BY <2>1
        <3>2. CASE x = b
            BY <2>5, <3>1, <3>2
        <3>3. CASE x # b /\ y = b
            BY <2>5, <3>1, <3>3
        <3>4. CASE x # b /\ y # b
            BY <2>4, <3>1, <3>4
        <3> QED BY <3>2, <3>3, <3>4
    <2> QED BY <2>6, <2>7 DEF Disjoint
<1> QED BY <1>1, <1>2

\* Whatever ensure_cycle does, the recorded cycles stay disjoint.
LEMMA EnsureCycleDisjoint ==
    ASSUME NEW S \in SUBSET Cycle, Disjoint(S), NEW a \in Int, NEW t \in Int
    PROVE  EnsureCycle(S, a, t) \in SUBSET Cycle /\ Disjoint(EnsureCycle(S, a, t))
<1> DEFINE b == Derived(a, t)
<1>1. b \in Cycle /\ b.start <= b.end
    BY DerivedCycle
<1>2. CASE CycleKnown(S, a, t)
    <2>1. ~Conflicts(S, b) /\ EnsureCycle(S, a, t) = WithCycle(S, b)
        BY <1>2 DEF CycleKnown, EnsureCycle
    <2> HIDE DEF b
    <2> QED BY <1>1, <2>1, WithCycleDisjoint
<1>3. CASE ~CycleKnown(S, a, t)
    BY <1>3 DEF EnsureCycle
<1> QED BY <1>2, <1>3
-----------------------------------------------------------------------------
\* What disjointness rests on: the clock and the anchor are instants.
CycleInv ==
    /\ now \in Nat
    /\ anchor \in Anchors
    /\ cycles \in SUBSET Cycle
    /\ CyclesDisjoint

\* All a step can do to these variables.
CycleStep ==
    \/ UNCHANGED <<now, anchor, cycles>>
    \/ now' = now + 1 /\ UNCHANGED <<anchor, cycles>>
    \/ anchor' \in Anchors /\ UNCHANGED <<now, cycles>>
    \/ cycles' = EnsureCycle(cycles, anchor, now) /\ UNCHANGED <<now, anchor>>

\* Every action is one of them: cycles are written by ensure_cycle alone, from
\* reserve and claim_origin.
LEMMA CycleSteps ==
    ASSUME [Next]_vars
    PROVE  CycleStep
<1>1. CASE UNCHANGED vars
    BY <1>1 DEF vars, CycleStep
<1>2. CASE Tick
    BY <1>2 DEF Tick, CycleStep
<1>3. CASE ClaimOrigin
    BY <1>3, Zenon DEF ClaimOrigin, CycleStep
<1>4. CASE ClearLatch
    BY <1>4 DEF ClearLatch, CycleStep
<1>5. CASE ChangeAnchor
    BY <1>5 DEF ChangeAnchor, CycleStep
<1>6. ASSUME NEW r \in Resv, RowNext(r)
      PROVE  CycleStep
    <2>1. CASE \E class \in Classes : Reserve(r, class)
        <3>1. cycles' = EnsureCycle(cycles, anchor, now) /\ UNCHANGED <<now, anchor>>
            BY <2>1, Zenon DEF Reserve
        <3> QED BY <3>1 DEF CycleStep
    <2>2. CASE Attach(r)
        BY <2>2, Zenon DEF Attach, CycleStep
    <2>3. CASE ReleaseUnattached(r)
        BY <2>3, Zenon DEF ReleaseUnattached, CycleStep
    <2>4. CASE SettleOperator(r)
        BY <2>4, Zenon DEF SettleOperator, CycleStep
    <2>5. CASE Charge(r)
        BY <2>5, Zenon DEF Charge, CycleStep
    <2>6. CASE WorkCompletes(r)
        BY <2>6, Zenon DEF WorkCompletes, CycleStep
    <2> QED BY <1>6, <2>1, <2>2, <2>3, <2>4, <2>5, <2>6 DEF RowNext
<1>7. ASSUME NEW p \in Processes, ProcNext(p)
      PROVE  CycleStep
    <2>1. CASE \E r \in Resv : PlanSettles(p, r)
        BY <2>1, Zenon DEF PlanSettles, CycleStep
    <2>2. CASE \E r \in Resv : PlanRead(p, r)
        BY <2>2, Zenon DEF PlanRead, CycleStep
    <2>3. CASE SelectMonitoring(p) \/ \E r \in Resv : BeginMonitoring(p, r)
        <3>1. UNCHANGED <<now, anchor, cycles>>
            BY <2>3, Zenon DEF SelectMonitoring, BeginMonitoring
        <3> QED BY <3>1 DEF CycleStep
    <2>4. CASE Send(p)
        BY <2>4, Zenon DEF Send, CycleStep
    <2>5. CASE \E total \in Figures \union {NoFigure}, e \in {FALSE, Excess} :
                  RecordUsage(p, total, e)
        BY <2>5, Zenon DEF RecordUsage, CycleStep
    <2>6. CASE \E e \in {FALSE, Excess} : ReadFails(p, e)
        BY <2>6, Zenon DEF ReadFails, CycleStep
    <2>7. CASE \E total \in Figures, e \in {FALSE, Excess} : CompleteMonitoring(p, total, e)
        BY <2>7, Zenon DEF CompleteMonitoring, CycleStep
    <2>8. CASE \E e \in {FALSE, Excess} : MonitoringFails(p, e)
        BY <2>8, Zenon DEF MonitoringFails, CycleStep
    <2>9. CASE Lose(p)
        BY <2>9, Zenon DEF Lose, CycleStep
    <2>10. CASE Boot(p)
        BY <2>10, Zenon DEF Boot, CycleStep
    <2>11. CASE ResolveMarkers(p)
        BY <2>11, Zenon DEF ResolveMarkers, CycleStep
    <2> QED BY <1>7, <2>1, <2>2, <2>3, <2>4, <2>5, <2>6, <2>7, <2>8, <2>9, <2>10, <2>11
            DEF ProcNext
<1> QED BY <1>1, <1>2, <1>3, <1>4, <1>5, <1>6, <1>7 DEF Next, OwnerNext

LEMMA CycleInit == Init => CycleInv
BY LimitAssumption DEF Init, CycleInv, CyclesDisjoint

LEMMA CycleKept == CycleInv /\ [Next]_vars => CycleInv'
<1> SUFFICES ASSUME CycleInv, CycleStep
             PROVE  CycleInv'
    BY CycleSteps
<1>1. now \in Nat /\ anchor \in Int /\ cycles \in SUBSET Cycle /\ Disjoint(cycles)
    BY LimitAssumption DEF CycleInv, CyclesDisjoint, Disjoint
<1>2. CASE cycles' = EnsureCycle(cycles, anchor, now) /\ UNCHANGED <<now, anchor>>
    <2>1. cycles' \in SUBSET Cycle /\ Disjoint(cycles')
        BY <1>1, <1>2, EnsureCycleDisjoint
    <2> QED BY <1>2, <2>1 DEF CycleInv, CyclesDisjoint, Disjoint
<1>3. CASE UNCHANGED cycles /\ now' \in Nat /\ anchor' \in Anchors
    BY <1>3 DEF CycleInv, CyclesDisjoint
<1> QED BY <1>1, <1>2, <1>3 DEF CycleStep, CycleInv

\* No instant belongs to two recorded cycles, however often and wherever the
\* owner moves the anchor (ensure_cycle).
THEOREM CyclesAlwaysDisjoint == Spec => []CyclesDisjoint
<1>1. CycleInv => CyclesDisjoint
    BY DEF CycleInv
<1> QED BY <1>1, CycleInit, CycleKept, PTL DEF Spec
-----------------------------------------------------------------------------
(* Rows as functions on their fields: what one update changes, and that it *)
(* leaves the rest alone.                                                  *)

RowFields == {"status", "class", "attached", "reservedAt", "anchor", "reads", "corrected",
              "polls", "settled", "actual", "mon", "reconciledAt", "lastChargeAt", "until",
              "closedAt", "pending", "monLast", "nextRead", "corrReads"}
IsRow(w) == w = [f \in RowFields |-> w[f]]

\* v is w with f set to x; v differs from w in the fields S at most.
Puts(v, w, f, x) == IsRow(v) /\ v[f] = x /\ \A g \in RowFields \ {f} : v[g] = w[g]
Keeps(v, w, S) == IsRow(v) /\ \A g \in RowFields \ S : v[g] = w[g]

LEMMA PutField ==
    ASSUME NEW w, IsRow(w), NEW f \in RowFields, NEW x
    PROVE  Puts([w EXCEPT ![f] = x], w, f, x)
BY DEF IsRow, Puts

LEMMA PutMore ==
    ASSUME NEW u, NEW w, NEW f, NEW x, Puts(u, w, f, x), NEW g \in RowFields, NEW y
    PROVE  Puts([u EXCEPT ![g] = y], u, g, y)
BY PutField DEF Puts

LEMMA FreeRowIsRow == IsRow(FreeRow)
BY DEF IsRow, RowFields, FreeRow

\* reserve's outcome.
Admission(w, v) ==
    /\ w.status = "free"
    /\ Keeps(v, FreeRow, {"status", "class", "reservedAt", "mon"})
    /\ v.status \in {"reserved", "denied"}
    /\ v.class \in Class
    /\ v.reservedAt = now
    /\ v.mon = MonitoringBound(v.class)

LEMMA NewRowPut ==
    ASSUME NEW class \in Class, NEW b
    PROVE  /\ \A w : w.status = "free" => Admission(w, NewRow(class, b))
           /\ NewRow(class, b).status = IF b THEN "reserved" ELSE "denied"
           /\ NewRow(class, b).class = class
<1> DEFINE s == IF b THEN "reserved" ELSE "denied"
           u1 == [FreeRow EXCEPT !.status = s]
           u2 == [u1 EXCEPT !.class = class]
           u3 == [u2 EXCEPT !.reservedAt = now]
           u4 == [u3 EXCEPT !.mon = MonitoringBound(class)]
<1>1. NewRow(class, b) = u4
    BY DEF NewRow
<1>2. s \in {"reserved", "denied"}
    OBVIOUS
<1> HIDE DEF s
<1>3. Puts(u1, FreeRow, "status", s)
    BY PutField, FreeRowIsRow DEF RowFields
<1> HIDE DEF u1
<1>4. Puts(u2, u1, "class", class)
    BY <1>3, PutMore DEF RowFields
<1> HIDE DEF u2
<1>5. Puts(u3, u2, "reservedAt", now)
    BY <1>4, PutMore DEF RowFields
<1> HIDE DEF u3
<1>6. Puts(u4, u3, "mon", MonitoringBound(class))
    BY <1>5, PutMore DEF RowFields
<1> HIDE DEF u4
<1>7. /\ Keeps(u4, FreeRow, {"status", "class", "reservedAt", "mon"})
      /\ u4.status = s /\ u4.class = class /\ u4.reservedAt = now /\ u4.mon = MonitoringBound(class)
    BY <1>3, <1>4, <1>5, <1>6 DEF Puts, Keeps, RowFields
<1> QED BY <1>1, <1>2, <1>7 DEF Admission, s

\* What settlement writes: everything but the row's evidence.
SettledFields ==
    {"settled", "actual", "reconciledAt", "lastChargeAt", "until", "nextRead", "status"}
Settling(w, v) ==
    /\ Settles(w)
    /\ Keeps(v, w, SettledFields)
    /\ v.settled = Usage(w)
    /\ \E post \in PostCosts(w) : v.actual = Usage(w) + post
    /\ v.reconciledAt = now
    /\ v.lastChargeAt = Max({w.anchor, now})
    /\ v.until = Max({w.anchor, now}) + CorrWindow
    /\ v.nextRead = NextRead(v)
    /\ v.status = "reconciled"

\* The next read depends on two other fields only.
LEMMA NextReadOf ==
    ASSUME NEW v, NEW w, v.until = w.until, v.reconciledAt = w.reconciledAt
    PROVE  NextRead(v) = NextRead(w)
BY DEF NextRead, Spacing

LEMMA ReconciledPut ==
    ASSUME NEW w, IsRow(w), Settles(w), NEW post \in PostCosts(w)
    PROVE  Settling(w, Reconciled(w, post))
<1> DEFINE at == Max({w.anchor, now})
           u1 == [w EXCEPT !.settled = Usage(w)]
           u2 == [u1 EXCEPT !.actual = Usage(w) + post]
           u3 == [u2 EXCEPT !.reconciledAt = now]
           u4 == [u3 EXCEPT !.lastChargeAt = at]
           u5 == [u4 EXCEPT !.until = at + CorrWindow]
           u6 == [u5 EXCEPT !.status = "reconciled"]
           n == NextRead(u6)
           u7 == [u6 EXCEPT !.nextRead = n]
<1>1. Reconciled(w, post) = u7
    BY DEF Reconciled
<1> HIDE DEF at, n
<1>2. Puts(u1, w, "settled", Usage(w))
    BY PutField DEF RowFields
<1> HIDE DEF u1
<1>3. Puts(u2, u1, "actual", Usage(w) + post)
    BY <1>2, PutMore DEF RowFields
<1> HIDE DEF u2
<1>4. Puts(u3, u2, "reconciledAt", now)
    BY <1>3, PutMore DEF RowFields
<1> HIDE DEF u3
<1>5. Puts(u4, u3, "lastChargeAt", at)
    BY <1>4, PutMore DEF RowFields
<1> HIDE DEF u4
<1>6. Puts(u5, u4, "until", at + CorrWindow)
    BY <1>5, PutMore DEF RowFields
<1> HIDE DEF u5
<1>7. Puts(u6, u5, "status", "reconciled")
    BY <1>6, PutMore DEF RowFields
<1> HIDE DEF u6
<1>8. Puts(u7, u6, "nextRead", n)
    BY <1>7, PutMore DEF RowFields
<1> HIDE DEF u7
<1>9. NextRead(u7) = n
    <2>1. u7.until = u6.until /\ u7.reconciledAt = u6.reconciledAt
        BY <1>8 DEF Puts, RowFields
    <2> QED BY <2>1, NextReadOf DEF n
<1>10. /\ Keeps(u7, w, SettledFields)
       /\ u7.settled = Usage(w) /\ u7.actual = Usage(w) + post /\ u7.reconciledAt = now
       /\ u7.lastChargeAt = at /\ u7.until = at + CorrWindow /\ u7.status = "reconciled"
       /\ u7.nextRead = n
    BY <1>2, <1>3, <1>4, <1>5, <1>6, <1>7, <1>8 DEF Puts, Keeps, RowFields, SettledFields
<1> QED BY <1>1, <1>9, <1>10 DEF Settling, at

\* One call counted.
Polling(w, v) ==
    /\ w.status \in OpenStatus /\ w.attached /\ w.polls < MaxRunPolls
    /\ Keeps(v, w, {"polls"})
    /\ v.polls = w.polls + 1
Attaching(w, v) ==
    /\ w.status \in OpenStatus /\ w.class # "envelope"
    /\ Keeps(v, w, {"attached"})
    /\ v.attached = TRUE
Releasing(w, v) ==
    /\ w.status = "reserved" /\ ~w.attached /\ w.class \in RuntimeClass
    /\ Keeps(v, w, {"status"})
    /\ v.status = "released"
\* A run's work is complete.
Finishing(w, v) ==
    /\ w.attached /\ w.class \in RuntimeClass
    /\ Keeps(v, w, {"anchor"})
    /\ v.anchor = now

LEMMA OneFieldPut ==
    ASSUME NEW w, IsRow(w)
    PROVE  /\ w.status \in OpenStatus /\ w.attached /\ w.polls < MaxRunPolls =>
                  Polling(w, [w EXCEPT !.polls = w.polls + 1])
           /\ w.status \in OpenStatus /\ w.class # "envelope" =>
                  Attaching(w, [w EXCEPT !.attached = TRUE])
           /\ w.status = "reserved" /\ ~w.attached /\ w.class \in RuntimeClass =>
                  Releasing(w, [w EXCEPT !.status = "released"])
           /\ w.attached /\ w.class \in RuntimeClass => Finishing(w, [w EXCEPT !.anchor = now])
<1>1. Puts([w EXCEPT !.polls = w.polls + 1], w, "polls", w.polls + 1)
    BY PutField DEF RowFields
<1>2. Puts([w EXCEPT !.attached = TRUE], w, "attached", TRUE)
    BY PutField DEF RowFields
<1>3. Puts([w EXCEPT !.status = "released"], w, "status", "released")
    BY PutField DEF RowFields
<1>4. Puts([w EXCEPT !.anchor = now], w, "anchor", now)
    BY PutField DEF RowFields
<1>5. ASSUME NEW v, NEW f, NEW x, Puts(v, w, f, x)
      PROVE  Keeps(v, w, {f}) /\ v[f] = x
    BY <1>5 DEF Puts, Keeps
<1>6. /\ Keeps([w EXCEPT !.polls = w.polls + 1], w, {"polls"})
      /\ [w EXCEPT !.polls = w.polls + 1].polls = w.polls + 1
    BY <1>1, <1>5
<1>7. /\ Keeps([w EXCEPT !.attached = TRUE], w, {"attached"})
      /\ [w EXCEPT !.attached = TRUE].attached = TRUE
    BY <1>2, <1>5
<1>8. /\ Keeps([w EXCEPT !.status = "released"], w, {"status"})
      /\ [w EXCEPT !.status = "released"].status = "released"
    BY <1>3, <1>5
<1>9. Keeps([w EXCEPT !.anchor = now], w, {"anchor"}) /\ [w EXCEPT !.anchor = now].anchor = now
    BY <1>4, <1>5
<1> QED BY <1>6, <1>7, <1>8, <1>9 DEF Polling, Attaching, Releasing, Finishing

\* settle_operator: an envelope is settled at its bound.
OperatorFields == {"settled", "actual", "reconciledAt", "lastChargeAt", "status"}
OperatorRow(w) ==
    [w EXCEPT !.settled = Estimate(w), !.actual = Estimate(w), !.reconciledAt = now,
              !.lastChargeAt = now, !.status = "reconciled"]
OperatorSettling(w, v) ==
    /\ w.status \in OpenStatus /\ w.class = "envelope"
    /\ Keeps(v, w, OperatorFields)
    /\ v.settled = Estimate(w) /\ v.actual = Estimate(w)
    /\ v.reconciledAt = now /\ v.lastChargeAt = now /\ v.status = "reconciled"

LEMMA OperatorPut ==
    ASSUME NEW w, IsRow(w), w.status \in OpenStatus, w.class = "envelope"
    PROVE  OperatorSettling(w, OperatorRow(w))
<1> DEFINE e == Estimate(w)
           u1 == [w EXCEPT !.settled = e]
           u2 == [u1 EXCEPT !.actual = e]
           u3 == [u2 EXCEPT !.reconciledAt = now]
           u4 == [u3 EXCEPT !.lastChargeAt = now]
           u5 == [u4 EXCEPT !.status = "reconciled"]
<1>1. OperatorRow(w) = u5
    BY DEF OperatorRow
<1> HIDE DEF e
<1>2. Puts(u1, w, "settled", e)
    BY PutField DEF RowFields
<1> HIDE DEF u1
<1>3. Puts(u2, u1, "actual", e)
    BY <1>2, PutMore DEF RowFields
<1> HIDE DEF u2
<1>4. Puts(u3, u2, "reconciledAt", now)
    BY <1>3, PutMore DEF RowFields
<1> HIDE DEF u3
<1>5. Puts(u4, u3, "lastChargeAt", now)
    BY <1>4, PutMore DEF RowFields
<1> HIDE DEF u4
<1>6. Puts(u5, u4, "status", "reconciled")
    BY <1>5, PutMore DEF RowFields
<1> HIDE DEF u5
<1>7. /\ Keeps(u5, w, OperatorFields)
      /\ u5.settled = e /\ u5.actual = e /\ u5.reconciledAt = now
      /\ u5.lastChargeAt = now /\ u5.status = "reconciled"
    BY <1>2, <1>3, <1>4, <1>5, <1>6 DEF Puts, Keeps, RowFields, OperatorFields
<1> QED BY <1>1, <1>7 DEF OperatorSettling, e

\* record_run_usage: one more read; a build may learn when it finished, d.
SeenRow(w, total, d) ==
    [w EXCEPT !.reads = Append(@, [at |-> now, total |-> total]),
              !.status = IF total # NoFigure THEN "usage_provisional" ELSE @,
              !.anchor = IF w.class = "build" THEN d ELSE @]
Seeing(w, v, d) ==
    /\ w.status \in OpenStatus
    /\ Keeps(v, w, {"reads", "status", "anchor"})
    /\ \E total \in Figures \union {NoFigure} :
          v.reads = Append(w.reads, [at |-> now, total |-> total])
    /\ v.status \in OpenStatus
    /\ v.anchor = w.anchor \/ (w.class = "build" /\ v.anchor = d)

LEMMA SeenPut ==
    ASSUME NEW w, IsRow(w), w.status \in OpenStatus,
           NEW total \in Figures \union {NoFigure}, NEW d
    PROVE  Seeing(w, SeenRow(w, total, d), d)
<1> DEFINE q == Append(w.reads, [at |-> now, total |-> total])
           s == IF total # NoFigure THEN "usage_provisional" ELSE w.status
           a == IF w.class = "build" THEN d ELSE w.anchor
           u1 == [w EXCEPT !.reads = q]
           u2 == [u1 EXCEPT !.status = s]
           u3 == [u2 EXCEPT !.anchor = a]
<1>1. q = Append(w.reads, [at |-> now, total |-> total])
    OBVIOUS
<1>2. s \in OpenStatus /\ (a = w.anchor \/ (w.class = "build" /\ a = d))
    BY DEF OpenStatus
<1>3. IsRow(u1) /\ u1.status = w.status /\ u1.anchor = w.anchor
    <2>1. Puts(u1, w, "reads", q)
        BY PutField DEF RowFields
    <2> HIDE DEF u1
    <2> QED BY <2>1 DEF Puts, RowFields
<1>4. IsRow(u2) /\ u2.anchor = w.anchor
    <2> HIDE DEF u1, s
    <2>1. Puts(u2, u1, "status", s)
        BY <1>3, PutField DEF RowFields
    <2> HIDE DEF u2
    <2> QED BY <1>3, <2>1 DEF Puts, RowFields
<1>5. SeenRow(w, total, d) = u3
    <2>1. SeenRow(w, total, d)
            = [[u1 EXCEPT !.status = IF total # NoFigure THEN "usage_provisional" ELSE @]
                  EXCEPT !.anchor = IF w.class = "build" THEN d ELSE @]
        BY DEF SeenRow
    <2>2. [u1 EXCEPT !.status = IF total # NoFigure THEN "usage_provisional" ELSE @] = u2
        <3> HIDE DEF u1
        <3> QED BY <1>3
    <2> HIDE DEF u1, u2
    <2> QED BY <2>1, <2>2, <1>4
<1> HIDE DEF q, s, a
<1>6. Puts(u1, w, "reads", q)
    BY PutField DEF RowFields
<1> HIDE DEF u1
<1>7. Puts(u2, u1, "status", s)
    BY <1>6, PutMore DEF RowFields
<1> HIDE DEF u2
<1>8. Puts(u3, u2, "anchor", a)
    BY <1>7, PutMore DEF RowFields
<1> HIDE DEF u3
<1>9. /\ Keeps(u3, w, {"reads", "status", "anchor"})
      /\ u3.reads = q /\ u3.status = s /\ u3.anchor = a
    BY <1>6, <1>7, <1>8 DEF Puts, Keeps, RowFields
<1> QED BY <1>1, <1>2, <1>5, <1>9 DEF Seeing

\* begin_monitoring_read.
BegunRow(w) == [w EXCEPT !.corrReads = @ + 1, !.pending = now, !.monLast = now]
Beginning(w, v) ==
    /\ w.status = "reconciled" /\ w.until # NoTime /\ w.closedAt = NoTime
    /\ w.pending = NoTime /\ w.corrReads < MaxCorrReads
    /\ Keeps(v, w, {"corrReads", "pending", "monLast"})
    /\ v.corrReads = w.corrReads + 1 /\ v.pending = now /\ v.monLast = now

LEMMA BegunPut ==
    ASSUME NEW w, IsRow(w)
    PROVE  LET v == BegunRow(w)
           IN  /\ Keeps(v, w, {"corrReads", "pending", "monLast"})
               /\ v.corrReads = w.corrReads + 1 /\ v.pending = now /\ v.monLast = now
<1> DEFINE u1 == [w EXCEPT !.corrReads = w.corrReads + 1]
           u2 == [u1 EXCEPT !.pending = now]
           u3 == [u2 EXCEPT !.monLast = now]
<1>1. BegunRow(w) = u3
    BY DEF BegunRow
<1>2. Puts(u1, w, "corrReads", w.corrReads + 1)
    BY PutField DEF RowFields
<1> HIDE DEF u1
<1>3. Puts(u2, u1, "pending", now)
    BY <1>2, PutMore DEF RowFields
<1> HIDE DEF u2
<1>4. Puts(u3, u2, "monLast", now)
    BY <1>3, PutMore DEF RowFields
<1> HIDE DEF u3
<1>5. /\ Keeps(u3, w, {"corrReads", "pending", "monLast"})
      /\ u3.corrReads = w.corrReads + 1 /\ u3.pending = now /\ u3.monLast = now
    BY <1>2, <1>3, <1>4 DEF Puts, Keeps, RowFields
<1> QED BY <1>1, <1>5

\* A selected row is read, or it is passed over.
ReadBegun(p, r) ==
    /\ proc[p].pc = "idle" /\ r \in due[p] /\ Readable(resv[r])
    /\ resv' = [resv EXCEPT ![r] = BegunRow(resv[r])]
    /\ Goto(p, "monitor", r)
    /\ UNCHANGED <<now, anchor, cycles, held, trip, done, billed, faults>>
Quiet == UNCHANGED <<now, anchor, cycles, held, resv, trip, proc, done, billed, faults>>
LEMMA MonitoringBegins ==
    ASSUME NEW p, SelectMonitoring(p) \/ \E r \in Resv : BeginMonitoring(p, r)
    PROVE  Quiet \/ \E r \in Resv : ReadBegun(p, r)
<1>1. CASE SelectMonitoring(p)
    BY <1>1, Zenon DEF SelectMonitoring, Quiet
<1>2. ASSUME NEW r \in Resv, BeginMonitoring(p, r)
      PROVE  Quiet \/ ReadBegun(p, r)
    BY <1>2, Zenon DEF BeginMonitoring, Quiet, ReadBegun, BegunRow
<1> QED BY <1>1, <1>2

\* complete_monitoring_read without a figure.
FailedRow(w) ==
    LET v == [w EXCEPT !.pending = NoTime, !.monLast = now]
    IN  [v EXCEPT !.nextRead = NextRead(v)]
Failing(w, v) ==
    /\ w.status = "reconciled" /\ w.until # NoTime
    /\ Keeps(v, w, {"pending", "monLast", "nextRead"})
    /\ v.pending = NoTime /\ v.monLast = now /\ v.nextRead = NextRead(w)

LEMMA FailedPut ==
    ASSUME NEW w, IsRow(w)
    PROVE  LET v == FailedRow(w)
           IN  /\ Keeps(v, w, {"pending", "monLast", "nextRead"})
               /\ v.pending = NoTime /\ v.monLast = now /\ v.nextRead = NextRead(w)
<1> DEFINE u1 == [w EXCEPT !.pending = NoTime]
           u2 == [u1 EXCEPT !.monLast = now]
           n == NextRead(u2)
           u3 == [u2 EXCEPT !.nextRead = n]
<1>1. FailedRow(w) = u3
    BY DEF FailedRow
<1> HIDE DEF n
<1>2. Puts(u1, w, "pending", NoTime)
    BY PutField DEF RowFields
<1> HIDE DEF u1
<1>3. Puts(u2, u1, "monLast", now)
    BY <1>2, PutMore DEF RowFields
<1> HIDE DEF u2
<1>4. Puts(u3, u2, "nextRead", n)
    BY <1>3, PutMore DEF RowFields
<1> HIDE DEF u3
<1>5. n = NextRead(w)
    <2>1. u2.until = w.until /\ u2.reconciledAt = w.reconciledAt
        BY <1>2, <1>3 DEF Puts, RowFields
    <2> QED BY <2>1, NextReadOf DEF n
<1>6. /\ Keeps(u3, w, {"pending", "monLast", "nextRead"})
      /\ u3.pending = NoTime /\ u3.monLast = now /\ u3.nextRead = n
    BY <1>2, <1>3, <1>4 DEF Puts, Keeps, RowFields
<1> QED BY <1>1, <1>5, <1>6

\* _apply_correction.
CorrectedFields == {"settled", "actual"}
Rises(w, v, total) ==
    \/ total <= w.settled /\ v.settled = w.settled /\ v.actual = w.actual
    \/ /\ ~(total <= w.settled)
       /\ v.settled = total /\ v.actual = w.actual + total - w.settled

LEMMA CorrectedPut ==
    ASSUME NEW w, IsRow(w), NEW total
    PROVE  /\ Keeps(Corrected(w, total), w, CorrectedFields)
           /\ Rises(w, Corrected(w, total), total)
<1>1. CASE total <= w.settled
    <2>1. Corrected(w, total) = w
        BY <1>1 DEF Corrected
    <2> QED BY <1>1, <2>1 DEF Keeps, Rises
<1>2. CASE ~(total <= w.settled)
    <2> DEFINE a == w.actual + total - w.settled
               u1 == [w EXCEPT !.settled = total]
               u2 == [u1 EXCEPT !.actual = a]
    <2>1. Corrected(w, total) = [u1 EXCEPT !.actual = @ + total - w.settled]
        BY <1>2 DEF Corrected
    <2>2. Puts(u1, w, "settled", total)
        BY PutField DEF RowFields
    <2> HIDE DEF u1
    <2>3. [u1 EXCEPT !.actual = @ + total - w.settled] = u2
        BY <2>2 DEF Puts, RowFields
    <2> HIDE DEF a
    <2>4. Puts(u2, u1, "actual", a)
        BY <2>2, PutMore DEF RowFields
    <2> HIDE DEF u2
    <2>5. Keeps(u2, w, CorrectedFields) /\ u2.settled = total /\ u2.actual = a
        BY <2>2, <2>4 DEF Puts, Keeps, RowFields, CorrectedFields
    <2> QED BY <1>2, <2>1, <2>3, <2>5 DEF Rises, a
<1> QED BY <1>1, <1>2

\* complete_monitoring_read with a figure.
AnsweredRow(w, total) ==
    [Corrected(w, total) EXCEPT !.corrected = Max({@, total}), !.pending = NoTime, !.monLast = now]
AnsweredFields == {"settled", "actual", "corrected", "pending", "monLast"}
CompletedFields == {"settled", "actual", "corrected", "pending", "monLast", "closedAt", "mon", "nextRead"}
CompletedRow(w, total) ==
    LET v == AnsweredRow(w, total)
    IN  IF now >= w.until THEN [v EXCEPT !.closedAt = now, !.mon = ClosedAllowance(v)]
        ELSE [v EXCEPT !.nextRead = NextRead(v)]
Completing(w, v) ==
    /\ w.status = "reconciled" /\ w.until # NoTime
    /\ Keeps(v, w, CompletedFields)
    /\ \E total \in Figures : Rises(w, v, total) /\ v.corrected = Max({w.corrected, total})
    /\ v.pending = NoTime /\ v.monLast = now
    /\ \/ /\ v.closedAt = now /\ v.mon = ClosedAllowance(w) /\ v.nextRead = w.nextRead
          /\ now >= w.until
       \/ v.closedAt = w.closedAt /\ v.mon = w.mon /\ v.nextRead = NextRead(w)

LEMMA AnsweredPut ==
    ASSUME NEW w, IsRow(w), NEW total
    PROVE  LET v == AnsweredRow(w, total)
           IN  /\ Keeps(v, w, AnsweredFields)
               /\ Rises(w, v, total)
               /\ v.corrected = Max({w.corrected, total})
               /\ v.pending = NoTime /\ v.monLast = now
<1> DEFINE c == Corrected(w, total)
           m == Max({w.corrected, total})
           u1 == [c EXCEPT !.corrected = m]
           u2 == [u1 EXCEPT !.pending = NoTime]
           u3 == [u2 EXCEPT !.monLast = now]
<1>1. Keeps(c, w, CorrectedFields) /\ Rises(w, c, total)
    BY CorrectedPut
<1>2. AnsweredRow(w, total)
        = [[[c EXCEPT !.corrected = Max({@, total})] EXCEPT !.pending = NoTime]
              EXCEPT !.monLast = now]
    BY DEF AnsweredRow
<1> HIDE DEF c
<1>3. [c EXCEPT !.corrected = Max({@, total})] = u1
    <2>1. c.corrected = w.corrected
        BY <1>1 DEF Keeps, RowFields, CorrectedFields
    <2> QED BY <2>1
<1>4. AnsweredRow(w, total) = u3
    BY <1>2, <1>3
<1> HIDE DEF m
<1>5. Puts(u1, c, "corrected", m)
    BY <1>1, PutField DEF RowFields, Keeps
<1> HIDE DEF u1
<1>6. Puts(u2, u1, "pending", NoTime)
    BY <1>5, PutMore DEF RowFields
<1> HIDE DEF u2
<1>7. Puts(u3, u2, "monLast", now)
    BY <1>6, PutMore DEF RowFields
<1> HIDE DEF u3
<1>8. /\ Keeps(u3, w, AnsweredFields)
      /\ u3.settled = c.settled /\ u3.actual = c.actual
      /\ u3.corrected = m /\ u3.pending = NoTime /\ u3.monLast = now
    BY <1>1, <1>5, <1>6, <1>7 DEF Puts, Keeps, RowFields, CorrectedFields, AnsweredFields
<1>9. Rises(w, u3, total)
    BY <1>1, <1>8 DEF Rises
<1> QED BY <1>4, <1>8, <1>9 DEF m

LEMMA CompletedPut ==
    ASSUME NEW w, IsRow(w), NEW total \in Figures,
           w.status = "reconciled", w.until # NoTime
    PROVE  Completing(w, CompletedRow(w, total))
<1> DEFINE v == AnsweredRow(w, total)
<1>1. /\ Keeps(v, w, AnsweredFields) /\ Rises(w, v, total)
      /\ v.corrected = Max({w.corrected, total}) /\ v.pending = NoTime /\ v.monLast = now
    BY AnsweredPut
<1>2. CASE now >= w.until
    <2> DEFINE a == ClosedAllowance(v)
               u1 == [v EXCEPT !.closedAt = now]
               u2 == [u1 EXCEPT !.mon = a]
    <2>1. CompletedRow(w, total) = u2
        BY <1>2 DEF CompletedRow
    <2>2. a = ClosedAllowance(w)
        <3> HIDE DEF v
        <3>1. v.mon = w.mon /\ v.corrReads = w.corrReads
            BY <1>1 DEF Keeps, RowFields, AnsweredFields
        <3> QED BY <3>1 DEF ClosedAllowance
    <2> HIDE DEF v, a
    <2>3. Puts(u1, v, "closedAt", now)
        BY <1>1, PutField DEF RowFields, Keeps
    <2> HIDE DEF u1
    <2>4. Puts(u2, u1, "mon", a)
        BY <2>3, PutMore DEF RowFields
    <2> HIDE DEF u2
    <2>5. /\ Keeps(u2, w, CompletedFields)
          /\ u2.settled = v.settled /\ u2.actual = v.actual /\ u2.corrected = v.corrected
          /\ u2.pending = NoTime /\ u2.monLast = now /\ u2.closedAt = now /\ u2.mon = a
          /\ u2.nextRead = w.nextRead
        BY <1>1, <2>3, <2>4 DEF Puts, Keeps, RowFields, AnsweredFields, CompletedFields
    <2>6. Rises(w, u2, total)
        BY <1>1, <2>5 DEF Rises
    <2> QED BY <1>1, <1>2, <2>1, <2>2, <2>5, <2>6 DEF Completing
<1>3. CASE ~(now >= w.until)
    <2> DEFINE n == NextRead(v)
               u1 == [v EXCEPT !.nextRead = n]
    <2>1. CompletedRow(w, total) = u1
        BY <1>3 DEF CompletedRow
    <2>2. n = NextRead(w)
        <3> HIDE DEF v
        <3>1. v.until = w.until /\ v.reconciledAt = w.reconciledAt
            BY <1>1 DEF Keeps, RowFields, AnsweredFields
        <3> QED BY <3>1, NextReadOf
    <2> HIDE DEF v, n
    <2>3. Puts(u1, v, "nextRead", n)
        BY <1>1, PutField DEF RowFields, Keeps
    <2> HIDE DEF u1
    <2>4. /\ Keeps(u1, w, CompletedFields)
          /\ u1.settled = v.settled /\ u1.actual = v.actual /\ u1.corrected = v.corrected
          /\ u1.pending = NoTime /\ u1.monLast = now /\ u1.closedAt = w.closedAt
          /\ u1.mon = w.mon /\ u1.nextRead = n
        BY <1>1, <2>3 DEF Puts, Keeps, RowFields, AnsweredFields, CompletedFields
    <2>5. Rises(w, u1, total)
        BY <1>1, <2>4 DEF Rises
    <2> QED BY <1>1, <2>1, <2>2, <2>4, <2>5 DEF Completing
<1> QED BY <1>2, <1>3

\* resolve_stale_monitoring_markers, at the start of a process.
ResolvedRow(w, at) == [w EXCEPT !.pending = NoTime, !.monLast = Max({@, at})]
Resolving(w, v, at) ==
    /\ w.pending # NoTime /\ w.pending < at
    /\ Keeps(v, w, {"pending", "monLast"})
    /\ v.pending = NoTime /\ v.monLast = Max({w.monLast, at})

LEMMA ResolvedPut ==
    ASSUME NEW w, IsRow(w), NEW at, w.pending # NoTime, w.pending < at
    PROVE  Resolving(w, ResolvedRow(w, at), at)
<1> DEFINE m == Max({w.monLast, at})
           u1 == [w EXCEPT !.pending = NoTime]
           u2 == [u1 EXCEPT !.monLast = m]
<1>1. ResolvedRow(w, at) = [u1 EXCEPT !.monLast = Max({@, at})]
    BY DEF ResolvedRow
<1>2. Puts(u1, w, "pending", NoTime)
    BY PutField DEF RowFields
<1> HIDE DEF u1
<1>3. [u1 EXCEPT !.monLast = Max({@, at})] = u2
    <2>1. u1.monLast = w.monLast
        BY <1>2 DEF Puts, RowFields
    <2> QED BY <2>1
<1> HIDE DEF m
<1>4. Puts(u2, u1, "monLast", m)
    BY <1>2, PutMore DEF RowFields
<1> HIDE DEF u2
<1>5. Keeps(u2, w, {"pending", "monLast"}) /\ u2.pending = NoTime /\ u2.monLast = m
    BY <1>2, <1>4 DEF Puts, Keeps, RowFields
<1> QED BY <1>1, <1>3, <1>5 DEF Resolving, m
-----------------------------------------------------------------------------
(* The type of a row at the instant t, and the arithmetic of settlement.   *)

Past(t) == -1 .. t
RowType(w, t) ==
    /\ IsRow(w)
    /\ w.status \in Status /\ w.class \in Class /\ w.attached \in BOOLEAN
    /\ w.reservedAt \in Past(t) /\ w.anchor \in Past(t)
    /\ w.reads \in Seq(Read)
    /\ w.corrected \in Int /\ w.polls \in 0..MaxRunPolls
    /\ w.settled \in Nat /\ w.actual \in Nat /\ w.mon \in Nat
    /\ w.reconciledAt \in Past(t) /\ w.lastChargeAt \in Past(t)
    /\ w.until \in Nat \union {NoTime}
    /\ w.closedAt \in Past(t) /\ w.pending \in Past(t) /\ w.monLast \in Past(t)
    /\ w.nextRead \in Nat /\ w.corrReads \in 0..MaxCorrReads

LEMMA Amounts ==
    /\ Exec \in Nat /\ Post \in Nat /\ Call \in Nat /\ Margin \in Nat
    /\ MaxRunPolls \in Nat /\ MaxCorrReads \in Nat /\ ClosingReserve \in Nat /\ MaxTime \in Nat
    /\ SettleDelay \in Nat /\ StableInterval \in Nat /\ FinalizeAfter \in Nat /\ CorrWindow \in Nat
    /\ StableReads \in Nat \ {0} /\ Guard \in Nat /\ MaxFaults \in Nat
    /\ Figures \subseteq Nat
BY AmountAssumption, LimitAssumption, CycleAssumption

\* A row's instants and reads.
LEMMA RowTimes ==
    ASSUME NEW w, NEW t \in Int, RowType(w, t)
    PROVE  /\ w.reads \in Seq(Read)
           /\ w.anchor \in Int /\ w.reservedAt \in Int /\ w.reservedAt <= t
           /\ w.monLast \in Int /\ w.reconciledAt \in Int /\ w.reconciledAt <= t
<1>1. /\ w.reads \in Seq(Read) /\ w.anchor \in -1 .. t /\ w.reservedAt \in -1 .. t
      /\ w.monLast \in -1 .. t /\ w.reconciledAt \in -1 .. t
    BY Zenon DEF RowType, Past
<1> QED BY <1>1

\* The totals of a set of reads are finitely many figures.
LEMMA TotalsType ==
    ASSUME NEW w, w.reads \in Seq(Read), NEW S \in SUBSET DOMAIN w.reads
    PROVE  /\ Totals(w, S) \subseteq Figures /\ IsFiniteSet(Totals(w, S))
           /\ \A i \in S : w.reads[i].total \in Figures \union {NoFigure}
           /\ \A i \in S : w.reads[i].at \in Time
<1>1. Len(w.reads) \in Nat /\ DOMAIN w.reads = 1 .. Len(w.reads)
    OBVIOUS
<1>2. \A i \in S : w.reads[i] \in Read
    BY <1>1
<1>3. \A i \in S : w.reads[i].total \in Figures \union {NoFigure} /\ w.reads[i].at \in Time
    BY <1>2 DEF Read
<1>4. IsFiniteSet(S)
    <2>1. IsFiniteSet(1 .. Len(w.reads))
        BY <1>1, FS_Interval
    <2> QED BY <1>1, <2>1, FS_Subset
<1>5. IsFiniteSet({w.reads[i].total : i \in S})
    <2> DEFINE T == {w.reads[i].total : i \in S}
               f == [i \in S |-> w.reads[i].total]
    <2>1. f \in Surjection(S, T)
        BY DEF Surjection
    <2> HIDE DEF f, T
    <2>2. IsFiniteSet(T)
        BY <1>4, <2>1, FS_Surjection
    <2> QED BY <2>2 DEF T
<1>6. Totals(w, S) \subseteq {w.reads[i].total : i \in S}
    BY DEF Totals
<1>7. IsFiniteSet(Totals(w, S))
    BY <1>5, <1>6, FS_Subset
<1> QED BY <1>3, <1>7 DEF Totals

\* A stable tail has a figure in it.
LEMMA StableFigure ==
    ASSUME NEW w, w.reads \in Seq(Read), Stable(w)
    PROVE  Totals(w, Eligible(w)) # {}
<1> DEFINE E == Eligible(w)
<1>1. E \subseteq DOMAIN w.reads /\ DOMAIN w.reads = 1 .. Len(w.reads) /\ Len(w.reads) \in Nat
    BY DEF Eligible
<1>2. IsFiniteSet(E) /\ E \subseteq Int
    <2>1. IsFiniteSet(1 .. Len(w.reads))
        BY <1>1, FS_Interval
    <2> HIDE DEF E
    <2> QED BY <1>1, <2>1, FS_Subset
<1>3. E # {}
    <2>1. Cardinality(E) >= StableReads
        BY DEF Stable
    <2>2. Cardinality({}) = 0
        BY FS_EmptySet
    <2>3. StableReads \in Nat /\ StableReads # 0
        BY Amounts
    <2> HIDE DEF E
    <2>4. ASSUME E = {}
          PROVE  FALSE
        <3>1. Cardinality(E) = 0
            BY <2>2, <2>4
        <3> QED BY <2>1, <2>3, <3>1
    <2> QED BY <2>4
<1>4. PICK m \in E : \A i \in E : i <= m
    <2> HIDE DEF E
    <2> QED BY <1>2, <1>3, GreatestOfFinite
<1>5. {j \in E : m < j} = {}
    <2> HIDE DEF E
    <2>1. ASSUME NEW j \in E
          PROVE  ~(m < j)
        BY <1>2, <1>4
    <2> QED BY <2>1
<1>6. m \in LastReads(w)
    <2>1. Cardinality({j \in E : m < j}) = 0
        BY <1>5, FS_EmptySet
    <2>2. 0 < StableReads
        BY Amounts
    <2> QED BY <1>4, <2>1, <2>2 DEF LastReads
<1>7. w.reads[m].total # NoFigure
    BY <1>6 DEF Stable
<1> QED BY <1>4, <1>7 DEF Totals

\* What a row settles at is an amount, and no less than the evidence.
UsageIsRight(w) ==
    /\ Usage(w) \in Nat
    /\ \A i \in DOMAIN w.reads :
          (w.reads[i].at < EligibleFrom(w) /\ StableMode) \/ w.reads[i].total <= Usage(w)
LEMMA UsageRight ==
    ASSUME NEW w, NEW t \in Nat, RowType(w, t)
    PROVE  UsageIsRight(w)
<1>1. w.reads \in Seq(Read) /\ w.anchor \in Int
    BY RowTimes
<1>2. CASE StableMode /\ Proven(w)
    <2> DEFINE T == Totals(w, Eligible(w))
    <2>1. Usage(w) = Max(T) /\ Stable(w)
        BY <1>2 DEF Usage, Proven
    <2>2. T # {} /\ IsFiniteSet(T) /\ T \subseteq Nat
        <3>1. Eligible(w) \in SUBSET DOMAIN w.reads
            BY DEF Eligible
        <3> QED BY <1>1, <2>1, <3>1, StableFigure, TotalsType, Amounts
    <2>3. Max(T) \in T /\ \A x \in T : x <= Max(T)
        <3> HIDE DEF T
        <3>1. T \subseteq Int
            BY <2>2
        <3> QED BY <2>2, <3>1, MaxOfFinite
    <2>4. Max(T) \in Nat
        BY <2>2, <2>3
    <2>5. ASSUME NEW i \in DOMAIN w.reads, ~(w.reads[i].at < EligibleFrom(w))
          PROVE  w.reads[i].total <= Max(T)
        <3>1. DOMAIN w.reads \in SUBSET DOMAIN w.reads
            OBVIOUS
        <3>2. w.reads[i].total \in Figures \union {NoFigure} /\ w.reads[i].at \in Int
            <4>1. w.reads[i].total \in Figures \union {NoFigure} /\ w.reads[i].at \in Time
                BY <1>1, <3>1, TotalsType
            <4> QED BY <4>1, Amounts DEF Time
        <3>3. EligibleFrom(w) \in Int
            BY <1>1, Amounts DEF EligibleFrom
        <3>4. i \in Eligible(w)
            BY <2>5, <3>2, <3>3 DEF Eligible
        <3>5. CASE w.reads[i].total = NoFigure
            BY <2>4, <3>5 DEF NoFigure
        <3>6. CASE w.reads[i].total # NoFigure
            <4>1. w.reads[i].total \in T
                BY <3>4, <3>6 DEF Totals
            <4> HIDE DEF T
            <4> QED BY <2>3, <4>1
        <3> QED BY <3>5, <3>6
    <2> QED BY <1>2, <2>1, <2>4, <2>5 DEF UsageIsRight
<1>3. CASE ~(StableMode /\ Proven(w))
    <2> DEFINE T == {ExecBound(w.class)} \union Totals(w, DOMAIN w.reads)
    <2>1. Usage(w) = Max(T)
        BY <1>3 DEF Usage, AtBound
    <2>2. /\ Totals(w, DOMAIN w.reads) \subseteq Figures /\ IsFiniteSet(Totals(w, DOMAIN w.reads))
          /\ \A i \in DOMAIN w.reads : w.reads[i].total \in Figures \union {NoFigure}
        BY <1>1, TotalsType
    <2>3. T # {} /\ IsFiniteSet(T) /\ T \subseteq Nat
        <3>1. ExecBound(w.class) \in Nat
            BY Amounts DEF ExecBound
        <3>2. IsFiniteSet(T)
            <4>1. T = Totals(w, DOMAIN w.reads) \union {ExecBound(w.class)}
                OBVIOUS
            <4> HIDE DEF T
            <4> QED BY <2>2, <4>1, FS_AddElement
        <3> QED BY <2>2, <3>1, <3>2, Amounts
    <2>4. Max(T) \in T /\ \A x \in T : x <= Max(T)
        <3> HIDE DEF T
        <3>1. T \subseteq Int
            BY <2>3
        <3> QED BY <2>3, <3>1, MaxOfFinite
    <2>5. Max(T) \in Nat
        BY <2>3, <2>4
    <2>6. ASSUME NEW i \in DOMAIN w.reads
          PROVE  w.reads[i].total <= Max(T)
        <3>1. CASE w.reads[i].total = NoFigure
            BY <2>5, <3>1 DEF NoFigure
        <3>2. CASE w.reads[i].total # NoFigure
            <4>1. w.reads[i].total \in T
                BY <3>2 DEF Totals
            <4> HIDE DEF T
            <4> QED BY <2>4, <4>1
        <3> QED BY <3>1, <3>2
    <2> QED BY <2>1, <2>5, <2>6 DEF UsageIsRight
<1> QED BY <1>2, <1>3

LEMMA PostCostsType ==
    ASSUME NEW w, w.class \in Class
    PROVE  PostCosts(w) \subseteq Nat
BY Amounts DEF PostCosts, PostBound

\* The slots that spread the periodic reads over the window, and their length.
Slots == Max({MaxCorrReads - ClosingReserve, 1})
LEMMA SlotsType == Slots \in Nat \ {0}
<1>1. Slots = IF MaxCorrReads - ClosingReserve >= 1 THEN MaxCorrReads - ClosingReserve ELSE 1
    BY Amounts, MaxOfTwo DEF Slots
<1> QED BY <1>1, Amounts

\* Rounded up, the slots cover the window.
LEMMA CeilingCovers ==
    ASSUME NEW a \in Int, NEW n \in Nat \ {0}
    PROVE  (a + n - 1) \div n \in Int /\ n * ((a + n - 1) \div n) >= a
<1> DEFINE x == a + n - 1
<1>1. x \in Int
    OBVIOUS
<1>2. x \div n \in Int /\ x = n * (x \div n) + (x % n) /\ x % n \in 0 .. n - 1
    <2> HIDE DEF x
    <2> QED BY <1>1, SMT
<1>3. n * (x \div n) \in Int
    BY <1>2, SMT
<1> DEFINE p == n * (x \div n)
<1> HIDE DEF p
<1>4. p >= a
    <2>1. x = p + (x % n) /\ p \in Int
        BY <1>2, <1>3 DEF p
    <2> QED BY <1>2, <2>1, SMT
<1> QED BY <1>2, <1>4 DEF p

SpacingIsRight(w) ==
    /\ Spacing(w) \in Nat
    /\ Slots * Spacing(w) \in Nat
    /\ Slots * Spacing(w) >= w.until - w.reconciledAt
LEMMA SpacingRight ==
    ASSUME NEW w, w.until \in Int, w.reconciledAt \in Int
    PROVE  SpacingIsRight(w)
<1> DEFINE a == w.until - w.reconciledAt
           c == (a + Slots - 1) \div Slots
<1>1. a \in Int
    OBVIOUS
<1>2. c \in Int /\ Slots * c >= a
    <2> HIDE DEF a
    <2> QED BY <1>1, SlotsType, CeilingCovers
<1>3. Spacing(w) = Max({StableInterval, c})
    BY DEF Spacing, Slots
<1> HIDE DEF c
<1>4. Spacing(w) \in Nat /\ Spacing(w) >= c
    BY <1>2, <1>3, MaxOfTwo, Amounts
<1> DEFINE s == Spacing(w)
           n == Slots
<1> HIDE DEF s, n
<1>5. n * s \in Nat /\ n * s >= n * c /\ n * c \in Int
    BY <1>2, <1>4, SlotsType, SMT DEF s, n
<1>6. n * s >= a
    <2> HIDE DEF a
    <2>1. n * c >= a
        BY <1>2 DEF n
    <2> QED BY <1>1, <1>5, <2>1
<1> QED BY <1>4, <1>5, <1>6 DEF SpacingIsRight, s, n

LEMMA NextReadType ==
    ASSUME now \in Nat, NEW w, w.until \in Nat \union {NoTime}, w.reconciledAt \in Int
    PROVE  NextRead(w) \in Nat
<1>1. w.until \in Int
    BY DEF NoTime
<1>2. Spacing(w) \in Nat
    BY <1>1, SpacingRight DEF SpacingIsRight
<1>3. CASE now < w.until
    <2>1. NextRead(w) = Min({now + Spacing(w), w.until})
        BY <1>3 DEF NextRead
    <2>2. now + Spacing(w) \in Nat
        BY <1>2
    <2> QED BY <1>1, <1>3, <2>1, <2>2, MinOfTwo
<1>4. CASE ~(now < w.until)
    <2>1. NextRead(w) = now + Max({StableInterval, 1})
        BY <1>4 DEF NextRead
    <2>2. Max({StableInterval, 1}) \in Nat
        BY MaxOfTwo, Amounts
    <2> QED BY <2>1, <2>2
<1> QED BY <1>3, <1>4
-----------------------------------------------------------------------------
(* What a row may look like besides its type, and every way it may move.   *)

\* d is when the platform finished the row's work.
RowKept(w, d) ==
    /\ w.status # "reconciled" => w.pending = NoTime
    /\ w.status \in {"free", "denied", "released"} => w.attached = FALSE
    /\ w.anchor # NoTime => d # NoTime
    /\ w.status = "reconciled" /\ w.class # "envelope" => w.anchor # NoTime
    /\ w.class = "envelope" => w.attached = FALSE /\ w.until = NoTime

\* From w to v while the platform's record of its work goes from d to e.
OtherMove(w, v, d, e) ==
    \/ v = w /\ e = d
    \/ v = w /\ w.attached /\ d = NoTime /\ e = now
    \/ Finishing(w, v) /\ d = NoTime /\ e = now
    \/ /\ e = d
       /\ \/ Admission(w, v)
          \/ Attaching(w, v)
          \/ Releasing(w, v)
          \/ OperatorSettling(w, v)
          \/ Polling(w, v)
          \/ Seeing(w, v, d)
          \/ Settling(w, v)
          \/ \E u : Seeing(w, u, d) /\ Settling(u, v)
          \/ Completing(w, v)
          \/ Failing(w, v)
PlainMove(w, v, d, e) == OtherMove(w, v, d, e) \/ (e = d /\ Beginning(w, v))
RowMove(w, v, d, e) ==
    \/ PlainMove(w, v, d, e)
    \/ e = d /\ \E at \in 0 .. now : Resolving(w, v, at)

LEMMA FieldsOf ==
    ASSUME NEW v, NEW w, NEW S, Keeps(v, w, S)
    PROVE  /\ IsRow(v)
           /\ "status" \notin S => v.status = w.status
           /\ "class" \notin S => v.class = w.class
           /\ "attached" \notin S => v.attached = w.attached
           /\ "reservedAt" \notin S => v.reservedAt = w.reservedAt
           /\ "anchor" \notin S => v.anchor = w.anchor
           /\ "reads" \notin S => v.reads = w.reads
           /\ "corrected" \notin S => v.corrected = w.corrected
           /\ "polls" \notin S => v.polls = w.polls
           /\ "settled" \notin S => v.settled = w.settled
           /\ "actual" \notin S => v.actual = w.actual
           /\ "mon" \notin S => v.mon = w.mon
           /\ "reconciledAt" \notin S => v.reconciledAt = w.reconciledAt
           /\ "lastChargeAt" \notin S => v.lastChargeAt = w.lastChargeAt
           /\ "until" \notin S => v.until = w.until
           /\ "closedAt" \notin S => v.closedAt = w.closedAt
           /\ "pending" \notin S => v.pending = w.pending
           /\ "monLast" \notin S => v.monLast = w.monLast
           /\ "nextRead" \notin S => v.nextRead = w.nextRead
           /\ "corrReads" \notin S => v.corrReads = w.corrReads
BY DEF Keeps, RowFields

Moved(w, v, d, t) == RowType(v, t) /\ RowKept(v, d)

LEMMA SeeingMoves ==
    ASSUME now \in Time, NEW w, NEW v, NEW d \in Past(now), RowType(w, now), RowKept(w, d),
           Seeing(w, v, d)
    PROVE  Moved(w, v, d, now)
<1>1. Keeps(v, w, {"reads", "status", "anchor"})
    BY DEF Seeing
<1>2. /\ IsRow(v) /\ v.class = w.class /\ v.attached = w.attached
      /\ v.reservedAt = w.reservedAt /\ v.corrected = w.corrected /\ v.polls = w.polls
      /\ v.settled = w.settled /\ v.actual = w.actual /\ v.mon = w.mon
      /\ v.reconciledAt = w.reconciledAt /\ v.lastChargeAt = w.lastChargeAt
      /\ v.until = w.until /\ v.closedAt = w.closedAt /\ v.pending = w.pending
      /\ v.monLast = w.monLast /\ v.nextRead = w.nextRead /\ v.corrReads = w.corrReads
    BY <1>1, FieldsOf
<1>3. v.reads \in Seq(Read)
    <2>1. PICK total \in Figures \union {NoFigure} :
             v.reads = Append(w.reads, [at |-> now, total |-> total])
        BY DEF Seeing
    <2>2. [at |-> now, total |-> total] \in Read
        BY DEF Read
    <2>3. w.reads \in Seq(Read)
        BY DEF RowType
    <2> QED BY <2>1, <2>2, <2>3
<1>4. /\ w.status \in OpenStatus /\ v.status \in OpenStatus
      /\ v.anchor = w.anchor \/ v.anchor = d
    BY DEF Seeing
<1>5. RowType(v, now)
    BY <1>2, <1>3, <1>4 DEF RowType, OpenStatus, Status
<1>6. RowKept(v, d)
    BY <1>2, <1>4 DEF RowKept, OpenStatus
<1> QED BY <1>5, <1>6 DEF Moved

LEMMA SettlingMoves ==
    ASSUME now \in Time, NEW w, NEW v, NEW d \in Past(now), RowType(w, now), RowKept(w, d),
           Settling(w, v)
    PROVE  Moved(w, v, d, now)
<1>1. Keeps(v, w, SettledFields)
    BY DEF Settling
<1>2. /\ IsRow(v) /\ v.class = w.class /\ v.attached = w.attached
      /\ v.reservedAt = w.reservedAt /\ v.anchor = w.anchor /\ v.reads = w.reads
      /\ v.corrected = w.corrected /\ v.polls = w.polls /\ v.mon = w.mon
      /\ v.closedAt = w.closedAt /\ v.pending = w.pending
      /\ v.monLast = w.monLast /\ v.corrReads = w.corrReads
    BY <1>1, FieldsOf DEF SettledFields
<1>3. now \in Nat /\ w.anchor \in Int /\ w.anchor <= now /\ w.class \in Class
    <2>1. now \in Nat
        BY Amounts DEF Time
    <2>2. w.anchor \in Past(now) /\ w.class \in Class
        BY DEF RowType
    <2> QED BY <2>1, <2>2 DEF Past
<1>4. Max({w.anchor, now}) = now
    BY <1>3, MaxOfTwo
<1>5. /\ v.settled \in Nat /\ v.actual \in Nat
      /\ v.reconciledAt = now /\ v.lastChargeAt = now
      /\ v.until = now + CorrWindow /\ v.status = "reconciled" /\ v.nextRead = NextRead(v)
    <2>1. Usage(w) \in Nat
        BY <1>3, UsageRight DEF UsageIsRight
    <2>2. PICK post \in PostCosts(w) : v.actual = Usage(w) + post
        BY DEF Settling
    <2>3. post \in Nat
        BY <1>3, <2>2, PostCostsType
    <2>4. v.settled = Usage(w) /\ v.reconciledAt = now /\ v.lastChargeAt = now
          /\ v.until = now + CorrWindow /\ v.status = "reconciled" /\ v.nextRead = NextRead(v)
        BY <1>4 DEF Settling
    <2> QED BY <2>1, <2>2, <2>3, <2>4
<1>6. v.until \in Nat
    BY <1>3, <1>5, Amounts
<1>7. v.nextRead \in Nat
    BY <1>3, <1>5, <1>6, NextReadType
<1>8. /\ w.status \in OpenStatus /\ w.attached /\ w.anchor # NoTime
    BY DEF Settling, Settles
<1>9. RowType(v, now)
    BY <1>2, <1>3, <1>5, <1>6, <1>7 DEF RowType, Status, Past
<1>10. RowKept(v, d)
    BY <1>2, <1>5, <1>8 DEF RowKept, OpenStatus
<1> QED BY <1>9, <1>10 DEF Moved

LEMMA CompletingMoves ==
    ASSUME now \in Time, NEW w, NEW v, NEW d \in Past(now), RowType(w, now), RowKept(w, d),
           Completing(w, v)
    PROVE  Moved(w, v, d, now)
<1>1. Keeps(v, w, CompletedFields)
    BY DEF Completing
<1>2. /\ IsRow(v) /\ v.status = w.status /\ v.class = w.class /\ v.attached = w.attached
      /\ v.reservedAt = w.reservedAt /\ v.anchor = w.anchor /\ v.reads = w.reads
      /\ v.polls = w.polls /\ v.reconciledAt = w.reconciledAt
      /\ v.lastChargeAt = w.lastChargeAt /\ v.until = w.until /\ v.corrReads = w.corrReads
    BY <1>1, FieldsOf DEF CompletedFields
<1>3. /\ now \in Nat /\ w.until \in Nat \union {NoTime} /\ w.reconciledAt \in Int
      /\ w.mon \in Nat /\ w.corrReads \in Nat /\ w.closedAt \in Past(now) /\ w.nextRead \in Nat
      /\ w.settled \in Nat /\ w.actual \in Nat /\ w.corrected \in Int
    BY Amounts DEF Time, RowType, Past
<1>4. PICK total \in Figures : Rises(w, v, total) /\ v.corrected = Max({w.corrected, total})
    BY DEF Completing
<1>5. total \in Nat
    BY Amounts
<1>6. v.settled \in Nat /\ v.actual \in Nat
    BY <1>3, <1>4, <1>5 DEF Rises
<1>7. v.corrected \in Int
    BY <1>3, <1>4, <1>5, MaxOfTwo
<1>8. NextRead(w) \in Nat
    BY <1>3, NextReadType
<1>9. ClosedAllowance(w) \in Nat
    <2>1. w.corrReads * Call \in Nat
        BY <1>3, Amounts
    <2>2. Min({w.mon, w.corrReads * Call}) \in Nat
        BY <1>3, <2>1, MinOfTwo
    <2> QED BY <1>3, <2>2 DEF ClosedAllowance
<1>10. /\ v.pending = NoTime /\ v.monLast = now
       /\ v.closedAt \in Past(now) /\ v.mon \in Nat /\ v.nextRead \in Nat
    BY <1>3, <1>8, <1>9 DEF Completing, Past
<1>11. RowType(v, now)
    BY <1>2, <1>3, <1>6, <1>7, <1>10 DEF RowType, Past, NoTime
<1>12. RowKept(v, d)
    BY <1>2, <1>10 DEF RowKept
<1> QED BY <1>11, <1>12 DEF Moved

LEMMA MonitoringMoves ==
    ASSUME now \in Time, NEW w, NEW v, NEW d \in Past(now), RowType(w, now), RowKept(w, d),
           Beginning(w, v) \/ Failing(w, v) \/ \E at \in 0 .. now : Resolving(w, v, at)
    PROVE  Moved(w, v, d, now)
<1>1. now \in Nat /\ w.until \in Nat \union {NoTime} /\ w.reconciledAt \in Int
      /\ w.monLast \in Past(now) /\ w.corrReads \in 0 .. MaxCorrReads /\ MaxCorrReads \in Nat
    <2>1. now \in Nat /\ MaxCorrReads \in Nat
        BY Amounts DEF Time
    <2>2. /\ w.until \in Nat \union {NoTime} /\ w.reconciledAt \in Past(now)
          /\ w.monLast \in Past(now) /\ w.corrReads \in 0 .. MaxCorrReads
        BY DEF RowType
    <2> QED BY <2>1, <2>2 DEF Past
<1>2. CASE Beginning(w, v)
    <2>1. Keeps(v, w, {"corrReads", "pending", "monLast"})
        BY <1>2 DEF Beginning
    <2>2. /\ IsRow(v) /\ v.status = w.status /\ v.class = w.class /\ v.attached = w.attached
          /\ v.reservedAt = w.reservedAt /\ v.anchor = w.anchor /\ v.reads = w.reads
          /\ v.corrected = w.corrected /\ v.polls = w.polls /\ v.settled = w.settled
          /\ v.actual = w.actual /\ v.mon = w.mon /\ v.reconciledAt = w.reconciledAt
          /\ v.lastChargeAt = w.lastChargeAt /\ v.until = w.until /\ v.closedAt = w.closedAt
          /\ v.nextRead = w.nextRead
        BY <2>1, FieldsOf
    <2>3. /\ v.corrReads \in 0 .. MaxCorrReads /\ v.pending \in Past(now) /\ v.monLast \in Past(now)
          /\ w.status = "reconciled"
        BY <1>1, <1>2 DEF Beginning, Past
    <2>4. RowType(v, now)
        BY <2>2, <2>3 DEF RowType
    <2>5. RowKept(v, d)
        BY <2>2, <2>3 DEF RowKept
    <2> QED BY <2>4, <2>5 DEF Moved
<1>3. CASE Failing(w, v)
    <2>1. Keeps(v, w, {"pending", "monLast", "nextRead"})
        BY <1>3 DEF Failing
    <2>2. /\ IsRow(v) /\ v.status = w.status /\ v.class = w.class /\ v.attached = w.attached
          /\ v.reservedAt = w.reservedAt /\ v.anchor = w.anchor /\ v.reads = w.reads
          /\ v.corrected = w.corrected /\ v.polls = w.polls /\ v.settled = w.settled
          /\ v.actual = w.actual /\ v.mon = w.mon /\ v.reconciledAt = w.reconciledAt
          /\ v.lastChargeAt = w.lastChargeAt /\ v.until = w.until /\ v.closedAt = w.closedAt
          /\ v.corrReads = w.corrReads
        BY <2>1, FieldsOf
    <2>3. NextRead(w) \in Nat
        BY <1>1, NextReadType
    <2>4. /\ v.pending \in Past(now) /\ v.pending = NoTime /\ v.monLast \in Past(now)
          /\ v.nextRead \in Nat
        BY <1>1, <1>3, <2>3 DEF Failing, Past, NoTime
    <2>5. RowType(v, now)
        BY <2>2, <2>4 DEF RowType
    <2>6. RowKept(v, d)
        BY <2>2, <2>4 DEF RowKept
    <2> QED BY <2>5, <2>6 DEF Moved
<1>4. CASE \E at \in 0 .. now : Resolving(w, v, at)
    <2>1. PICK at \in 0 .. now : Resolving(w, v, at)
        BY <1>4
    <2>2. Keeps(v, w, {"pending", "monLast"})
        BY <2>1 DEF Resolving
    <2>3. /\ IsRow(v) /\ v.status = w.status /\ v.class = w.class /\ v.attached = w.attached
          /\ v.reservedAt = w.reservedAt /\ v.anchor = w.anchor /\ v.reads = w.reads
          /\ v.corrected = w.corrected /\ v.polls = w.polls /\ v.settled = w.settled
          /\ v.actual = w.actual /\ v.mon = w.mon /\ v.reconciledAt = w.reconciledAt
          /\ v.lastChargeAt = w.lastChargeAt /\ v.until = w.until /\ v.closedAt = w.closedAt
          /\ v.nextRead = w.nextRead /\ v.corrReads = w.corrReads
        BY <2>2, FieldsOf
    <2>4. v.pending = NoTime /\ v.monLast = Max({w.monLast, at})
        BY <2>1 DEF Resolving
    <2>5. Max({w.monLast, at}) \in Past(now)
        BY <1>1, MaxOfTwo DEF Past
    <2>6. RowType(v, now)
        BY <1>1, <2>3, <2>4, <2>5 DEF RowType, Past, NoTime
    <2>7. RowKept(v, d)
        BY <2>3, <2>4 DEF RowKept
    <2> QED BY <2>6, <2>7 DEF Moved
<1> QED BY <1>2, <1>3, <1>4

LEMMA OtherMoves ==
    ASSUME now \in Time, NEW w, NEW v, NEW d \in Past(now), RowType(w, now), RowKept(w, d),
           \/ Admission(w, v) \/ Attaching(w, v) \/ Releasing(w, v)
           \/ OperatorSettling(w, v) \/ Polling(w, v)
    PROVE  Moved(w, v, d, now)
<1>1. now \in Nat
    BY Amounts DEF Time
<1>2. CASE Admission(w, v)
    <2>1. Keeps(v, FreeRow, {"status", "class", "reservedAt", "mon"})
        BY <1>2 DEF Admission
    <2>2. /\ IsRow(v) /\ v.attached = FALSE /\ v.anchor = NoTime /\ v.reads = <<>>
          /\ v.corrected = NoFigure /\ v.polls = 0 /\ v.settled = 0 /\ v.actual = 0
          /\ v.reconciledAt = NoTime /\ v.lastChargeAt = NoTime /\ v.until = NoTime
          /\ v.closedAt = NoTime /\ v.pending = NoTime /\ v.monLast = NoTime
          /\ v.nextRead = 0 /\ v.corrReads = 0
        BY <2>1, FieldsOf DEF FreeRow
    <2>3. v.status \in {"reserved", "denied"} /\ v.class \in Class /\ v.reservedAt = now
          /\ v.mon = MonitoringBound(v.class)
        BY <1>2 DEF Admission
    <2>4. v.mon \in Nat
        <3>1. MaxCorrReads * Call \in Nat
            BY Amounts
        <3> QED BY <2>3, <3>1 DEF MonitoringBound
    <2>5. RowType(v, now)
        <3>1. 0 \in 0 .. MaxRunPolls /\ 0 \in 0 .. MaxCorrReads
            BY Amounts
        <3>2. NoTime \in Past(now) /\ now \in Past(now) /\ NoFigure \in Int
            BY <1>1 DEF Past, NoTime, NoFigure
        <3>3. v.reads \in Seq(Read)
            <4>1. <<>> \in Seq(Read)
                OBVIOUS
            <4> QED BY <2>2, <4>1
        <3>4. v.status \in Status
            BY <2>3 DEF Status
        <3>5. /\ IsRow(v) /\ v.attached \in BOOLEAN /\ v.anchor = NoTime /\ v.corrected \in Int
              /\ v.polls = 0 /\ v.settled = 0 /\ v.actual = 0 /\ v.reconciledAt = NoTime
              /\ v.lastChargeAt = NoTime /\ v.until = NoTime /\ v.closedAt = NoTime
              /\ v.pending = NoTime /\ v.monLast = NoTime /\ v.nextRead = 0 /\ v.corrReads = 0
            BY <2>2, <3>2
        <3> QED BY <2>3, <2>4, <3>1, <3>2, <3>3, <3>4, <3>5 DEF RowType
    <2>6. RowKept(v, d)
        BY <2>2, <2>3 DEF RowKept
    <2> QED BY <2>5, <2>6 DEF Moved
<1>3. CASE Attaching(w, v)
    <2>1. Keeps(v, w, {"attached"}) /\ v.attached = TRUE
        BY <1>3 DEF Attaching
    <2>2. /\ IsRow(v) /\ v.status = w.status /\ v.class = w.class
          /\ v.reservedAt = w.reservedAt /\ v.anchor = w.anchor /\ v.reads = w.reads
          /\ v.corrected = w.corrected /\ v.polls = w.polls /\ v.settled = w.settled
          /\ v.actual = w.actual /\ v.mon = w.mon /\ v.reconciledAt = w.reconciledAt
          /\ v.lastChargeAt = w.lastChargeAt /\ v.until = w.until /\ v.closedAt = w.closedAt
          /\ v.pending = w.pending /\ v.monLast = w.monLast
          /\ v.nextRead = w.nextRead /\ v.corrReads = w.corrReads
        BY <2>1, FieldsOf
    <2>3. RowType(v, now)
        BY <2>1, <2>2 DEF RowType
    <2>4. RowKept(v, d)
        BY <1>3, <2>2 DEF RowKept, Attaching, OpenStatus
    <2> QED BY <2>3, <2>4 DEF Moved
<1>4. CASE Releasing(w, v)
    <2>1. Keeps(v, w, {"status"}) /\ v.status = "released" /\ w.status = "reserved" /\ ~w.attached
        BY <1>4 DEF Releasing
    <2>2. /\ IsRow(v) /\ v.class = w.class /\ v.attached = w.attached
          /\ v.reservedAt = w.reservedAt /\ v.anchor = w.anchor /\ v.reads = w.reads
          /\ v.corrected = w.corrected /\ v.polls = w.polls /\ v.settled = w.settled
          /\ v.actual = w.actual /\ v.mon = w.mon /\ v.reconciledAt = w.reconciledAt
          /\ v.lastChargeAt = w.lastChargeAt /\ v.until = w.until /\ v.closedAt = w.closedAt
          /\ v.pending = w.pending /\ v.monLast = w.monLast
          /\ v.nextRead = w.nextRead /\ v.corrReads = w.corrReads
        BY <2>1, FieldsOf
    <2>3. RowType(v, now)
        BY <2>1, <2>2 DEF RowType, Status
    <2>4. RowKept(v, d)
        <3>1. w.attached = FALSE
            BY <2>1 DEF RowType
        <3> QED BY <2>1, <2>2, <3>1 DEF RowKept
    <2> QED BY <2>3, <2>4 DEF Moved
<1>5. CASE OperatorSettling(w, v)
    <2>1. Keeps(v, w, OperatorFields)
        BY <1>5 DEF OperatorSettling
    <2>2. /\ IsRow(v) /\ v.class = w.class /\ v.attached = w.attached
          /\ v.reservedAt = w.reservedAt /\ v.anchor = w.anchor /\ v.reads = w.reads
          /\ v.corrected = w.corrected /\ v.polls = w.polls /\ v.mon = w.mon
          /\ v.until = w.until /\ v.closedAt = w.closedAt
          /\ v.pending = w.pending /\ v.monLast = w.monLast
          /\ v.nextRead = w.nextRead /\ v.corrReads = w.corrReads
        BY <2>1, FieldsOf DEF OperatorFields
    <2>3. /\ v.settled = Estimate(w) /\ v.actual = Estimate(w) /\ w.class = "envelope"
          /\ v.reconciledAt = now /\ v.lastChargeAt = now /\ v.status = "reconciled"
          /\ w.status \in OpenStatus
        BY <1>5 DEF OperatorSettling
    <2>4. Estimate(w) \in Nat
        BY Amounts DEF Estimate, EstimateOf, ExecBound, PostBound, MarginOf
    <2>5. RowType(v, now)
        BY <1>1, <2>2, <2>3, <2>4 DEF RowType, Status, Past
    <2>6. RowKept(v, d)
        BY <2>2, <2>3 DEF RowKept, OpenStatus
    <2> QED BY <2>5, <2>6 DEF Moved
<1>6. CASE Polling(w, v)
    <2>1. Keeps(v, w, {"polls"}) /\ v.polls = w.polls + 1 /\ w.polls < MaxRunPolls
        BY <1>6 DEF Polling
    <2>2. /\ IsRow(v) /\ v.status = w.status /\ v.class = w.class /\ v.attached = w.attached
          /\ v.reservedAt = w.reservedAt /\ v.anchor = w.anchor /\ v.reads = w.reads
          /\ v.corrected = w.corrected /\ v.settled = w.settled
          /\ v.actual = w.actual /\ v.mon = w.mon /\ v.reconciledAt = w.reconciledAt
          /\ v.lastChargeAt = w.lastChargeAt /\ v.until = w.until /\ v.closedAt = w.closedAt
          /\ v.pending = w.pending /\ v.monLast = w.monLast
          /\ v.nextRead = w.nextRead /\ v.corrReads = w.corrReads
        BY <2>1, FieldsOf
    <2>3. v.polls \in 0 .. MaxRunPolls
        <3>1. w.polls \in 0 .. MaxRunPolls /\ MaxRunPolls \in Nat
            BY Amounts DEF RowType
        <3> QED BY <2>1, <3>1
    <2>4. RowType(v, now)
        BY <2>2, <2>3 DEF RowType
    <2>5. RowKept(v, d)
        BY <2>2 DEF RowKept
    <2> QED BY <2>4, <2>5 DEF Moved
<1> QED BY <1>2, <1>3, <1>4, <1>5, <1>6

LEMMA FinishingMoves ==
    ASSUME now \in Time, NEW w, NEW v, NEW d \in Past(now), RowType(w, now), RowKept(w, d),
           Finishing(w, v), d = NoTime
    PROVE  Moved(w, v, now, now)
<1>1. now \in Nat
    BY Amounts DEF Time
<1>2. Keeps(v, w, {"anchor"}) /\ v.anchor = now
    BY DEF Finishing
<1>3. /\ IsRow(v) /\ v.status = w.status /\ v.class = w.class /\ v.attached = w.attached
      /\ v.reservedAt = w.reservedAt /\ v.reads = w.reads /\ v.polls = w.polls
      /\ v.corrected = w.corrected /\ v.settled = w.settled
      /\ v.actual = w.actual /\ v.mon = w.mon /\ v.reconciledAt = w.reconciledAt
      /\ v.lastChargeAt = w.lastChargeAt /\ v.until = w.until /\ v.closedAt = w.closedAt
      /\ v.pending = w.pending /\ v.monLast = w.monLast
      /\ v.nextRead = w.nextRead /\ v.corrReads = w.corrReads
    BY <1>2, FieldsOf
<1>4. RowType(v, now)
    BY <1>1, <1>2, <1>3 DEF RowType, Past
<1>5. RowKept(v, now)
    BY <1>1, <1>2, <1>3 DEF RowKept, NoTime
<1> QED BY <1>4, <1>5 DEF Moved

LEMMA RowMoves ==
    ASSUME now \in Time, NEW w, NEW v, NEW d \in Past(now), NEW e,
           RowType(w, now), RowKept(w, d), RowMove(w, v, d, e)
    PROVE  e \in Past(now) /\ RowType(v, now) /\ RowKept(v, e)
<1>1. now \in Nat
    BY Amounts DEF Time
<1>2. now \in Past(now)
    BY <1>1 DEF Past
<1>3. CASE v = w /\ e = d
    BY <1>3
<1>4. CASE v = w /\ w.attached /\ d = NoTime /\ e = now
    <2>1. RowKept(w, now)
        BY <1>1 DEF RowKept, NoTime
    <2> QED BY <1>2, <1>4, <2>1
<1>5. CASE Finishing(w, v) /\ d = NoTime /\ e = now
    BY <1>2, <1>5, FinishingMoves DEF Moved
<1>6. CASE /\ e = d
           /\ \/ Admission(w, v) \/ Attaching(w, v) \/ Releasing(w, v)
              \/ OperatorSettling(w, v) \/ Polling(w, v)
    BY <1>6, OtherMoves DEF Moved
<1>7. CASE e = d /\ Seeing(w, v, d)
    BY <1>7, SeeingMoves DEF Moved
<1>8. CASE e = d /\ Settling(w, v)
    BY <1>8, SettlingMoves DEF Moved
<1>9. CASE e = d /\ \E u : Seeing(w, u, d) /\ Settling(u, v)
    <2>1. PICK u : Seeing(w, u, d) /\ Settling(u, v)
        BY <1>9
    <2>2. RowType(u, now) /\ RowKept(u, d)
        BY <2>1, SeeingMoves DEF Moved
    <2>3. RowType(v, now) /\ RowKept(v, d)
        BY <2>1, <2>2, SettlingMoves DEF Moved
    <2> QED BY <1>9, <2>3
<1>10. CASE e = d /\ Completing(w, v)
    BY <1>10, CompletingMoves DEF Moved
<1>11. CASE /\ e = d
            /\ Beginning(w, v) \/ Failing(w, v) \/ \E at \in 0 .. now : Resolving(w, v, at)
    BY <1>11, MonitoringMoves DEF Moved
<1> QED BY <1>3, <1>4, <1>5, <1>6, <1>7, <1>8, <1>9, <1>10, <1>11 DEF RowMove, PlainMove, OtherMove
-----------------------------------------------------------------------------
(* The state: every row with its type, and what a process is in the middle *)
(* of agrees with the row it works on.                                     *)

IsProc(x) == x = [pc |-> x.pc, on |-> x.on, started |-> x.started]
ProcKept(x, t, rows) ==
    /\ IsProc(x)
    /\ x.pc \in ProcPC /\ x.on \in Resv /\ x.started \in 0 .. t
    /\ x.pc \in {"monitor", "monitor_sent"} =>
          rows[x.on].status = "reconciled" /\ rows[x.on].until # NoTime
    /\ x.pc \in {"read", "read_sent"} => rows[x.on].attached
RowsInv ==
    /\ now \in Time
    /\ resv = [r \in Resv |-> resv[r]]
    /\ done = [r \in Resv |-> done[r]]
    /\ \A r \in Resv : /\ RowType(resv[r], now)
                       /\ done[r] \in Past(now)
                       /\ RowKept(resv[r], done[r])
ProcsInv ==
    /\ proc = [p \in Processes |-> proc[p]]
    /\ \A p \in Processes : ProcKept(proc[p], now, resv)
BaseInv == RowsInv /\ ProcsInv

\* A read of the row begins, which some process has selected.
Begins(r) ==
    /\ Beginning(resv[r], resv'[r]) /\ done'[r] = done[r]
    /\ \E p \in Processes : r \in due[p]

\* Every row moves as a row may, only a starting process resolves markers, and
\* time goes on by a tick at most.
RowsMove ==
    /\ now' \in Time /\ now <= now'
    /\ resv' = [r \in Resv |-> resv'[r]]
    /\ done' = [r \in Resv |-> done'[r]]
    /\ \A r \in Resv : RowMove(resv[r], resv'[r], done[r], done'[r])
    /\ \/ \E p \in Processes : ResolveMarkers(p)
       \/ \A r \in Resv : OtherMove(resv[r], resv'[r], done[r], done'[r]) \/ Begins(r)
    /\ now' = now \/ (UNCHANGED <<resv, done>>)

LEMMA NoRowMoves ==
    ASSUME RowsInv, UNCHANGED <<resv, done>>, now' \in Time, now <= now'
    PROVE  RowsMove
BY DEF RowsInv, RowsMove, RowMove, PlainMove, OtherMove

LEMMA OneRowMoves ==
    ASSUME RowsInv, NEW r \in Resv, NEW v, resv' = [resv EXCEPT ![r] = v],
           UNCHANGED <<now, done>>,
           \/ OtherMove(resv[r], v, done[r], done[r])
           \/ Beginning(resv[r], v) /\ \E p \in Processes : r \in due[p]
    PROVE  RowsMove
<1>1. now' \in Time /\ now <= now' /\ now' = now
    BY Amounts DEF RowsInv, Time
<1>2. resv' = [q \in Resv |-> resv'[q]] /\ \A q \in Resv : resv'[q] = IF q = r THEN v ELSE resv[q]
    BY DEF RowsInv
<1>3. done' = [q \in Resv |-> done'[q]] /\ \A q \in Resv : done'[q] = done[q]
    BY DEF RowsInv
<1>4. ASSUME NEW q \in Resv
      PROVE  OtherMove(resv[q], resv'[q], done[q], done'[q]) \/ Begins(q)
    <2>1. CASE q = r
        BY <1>2, <1>3, <2>1 DEF Begins
    <2>2. CASE q # r
        <3>1. resv'[q] = resv[q] /\ done'[q] = done[q]
            BY <1>2, <1>3, <2>2
        <3> QED BY <3>1 DEF OtherMove
    <2> QED BY <2>1, <2>2
<1> QED BY <1>1, <1>2, <1>3, <1>4 DEF RowsMove, RowMove, PlainMove, Begins

\* What a move never does to a row that is settled, refused or attached.
RowStays(w, v) ==
    /\ w.status = "reconciled" =>
          /\ v.status = "reconciled" /\ v.class = w.class /\ v.until = w.until
          /\ v.reads = w.reads /\ v.anchor = w.anchor /\ v.reservedAt = w.reservedAt
          /\ v.reconciledAt = w.reconciledAt /\ v.lastChargeAt = w.lastChargeAt
          /\ w.actual <= v.actual
          /\ w.closedAt # NoTime => v.corrReads = w.corrReads
    /\ w.status \in {"released", "denied"} => v = w
    /\ w.attached => v.attached

LEMMA MoveStays ==
    ASSUME now \in Time, NEW w, NEW v, NEW d \in Past(now), NEW e,
           RowType(w, now), RowKept(w, d), RowMove(w, v, d, e)
    PROVE  RowStays(w, v)
<1>1. w.actual \in Nat /\ w.settled \in Nat /\ w.attached \in BOOLEAN
    BY DEF RowType
<1>2. CASE v = w
    BY <1>1, <1>2 DEF RowStays
<1>3. CASE Finishing(w, v) /\ d = NoTime
    <2>1. w.attached /\ d = NoTime /\ v.attached = w.attached
        <3>1. Keeps(v, w, {"anchor"})
            BY <1>3 DEF Finishing
        <3>2. v.attached = w.attached
            BY <3>1, FieldsOf
        <3>3. w.attached
            BY <1>3 DEF Finishing
        <3> QED BY <1>3, <3>2, <3>3
    <2>2. w.status \notin {"reconciled", "released", "denied"}
        BY <2>1 DEF RowKept
    <2> QED BY <2>1, <2>2 DEF RowStays
<1>4. CASE Admission(w, v)
    <2>1. w.status = "free" /\ w.attached = FALSE
        BY <1>4 DEF Admission, RowKept
    <2> QED BY <2>1 DEF RowStays
<1>5. CASE Attaching(w, v)
    BY <1>5 DEF Attaching, RowStays, OpenStatus
<1>6. CASE Releasing(w, v)
    BY <1>6 DEF Releasing, RowStays
<1>7. CASE OperatorSettling(w, v)
    <2>1. v.attached = w.attached
        BY <1>7, FieldsOf DEF OperatorSettling, OperatorFields
    <2> QED BY <1>7, <2>1 DEF OperatorSettling, RowStays, OpenStatus
<1>8. CASE Polling(w, v)
    <2>1. v.attached = w.attached
        <3>1. Keeps(v, w, {"polls"})
            BY <1>8 DEF Polling
        <3> QED BY <3>1, FieldsOf
    <2> QED BY <1>8, <2>1 DEF Polling, RowStays, OpenStatus
<1>9. ASSUME NEW u, Seeing(w, u, d)
      PROVE  w.status \in OpenStatus /\ u.attached = w.attached
    BY <1>9, FieldsOf DEF Seeing
<1>10. ASSUME NEW u, Settling(u, v)
       PROVE  u.status \in OpenStatus /\ v.attached = u.attached
    <2>1. Keeps(v, u, SettledFields) /\ u.status \in OpenStatus
        BY <1>10 DEF Settling, Settles
    <2> QED BY <2>1, FieldsOf DEF SettledFields
<1>11. CASE Seeing(w, v, d) \/ Settling(w, v) \/ \E u : Seeing(w, u, d) /\ Settling(u, v)
    <2>1. w.status \in OpenStatus /\ v.attached = w.attached
        BY <1>9, <1>10, <1>11
    <2> QED BY <2>1 DEF RowStays, OpenStatus
<1>12. CASE Beginning(w, v)
    <2>1. Keeps(v, w, {"corrReads", "pending", "monLast"}) /\ w.status = "reconciled" /\ w.closedAt = NoTime
        BY <1>12 DEF Beginning
    <2>2. /\ v.status = w.status /\ v.class = w.class /\ v.until = w.until
          /\ v.reads = w.reads /\ v.anchor = w.anchor /\ v.reservedAt = w.reservedAt
          /\ v.reconciledAt = w.reconciledAt /\ v.lastChargeAt = w.lastChargeAt
          /\ v.actual = w.actual /\ v.attached = w.attached
        BY <2>1, FieldsOf
    <2> QED BY <1>1, <2>1, <2>2 DEF RowStays
<1>13. CASE Completing(w, v)
    <2>1. Keeps(v, w, CompletedFields) /\ w.status = "reconciled"
        BY <1>13 DEF Completing
    <2>2. /\ v.status = w.status /\ v.class = w.class /\ v.until = w.until
          /\ v.reads = w.reads /\ v.anchor = w.anchor /\ v.reservedAt = w.reservedAt
          /\ v.reconciledAt = w.reconciledAt /\ v.lastChargeAt = w.lastChargeAt
          /\ v.corrReads = w.corrReads /\ v.attached = w.attached
        BY <2>1, FieldsOf DEF CompletedFields
    <2>3. w.actual <= v.actual
        <3>1. PICK total \in Figures : Rises(w, v, total)
            BY <1>13 DEF Completing
        <3>2. total \in Nat
            BY Amounts
        <3> QED BY <1>1, <3>1, <3>2 DEF Rises
    <2> QED BY <2>1, <2>2, <2>3 DEF RowStays
<1>14. CASE Failing(w, v)
    <2>1. Keeps(v, w, {"pending", "monLast", "nextRead"}) /\ w.status = "reconciled"
        BY <1>14 DEF Failing
    <2>2. /\ v.status = w.status /\ v.class = w.class /\ v.until = w.until
          /\ v.reads = w.reads /\ v.anchor = w.anchor /\ v.reservedAt = w.reservedAt
          /\ v.reconciledAt = w.reconciledAt /\ v.lastChargeAt = w.lastChargeAt
          /\ v.actual = w.actual /\ v.corrReads = w.corrReads /\ v.attached = w.attached
        BY <2>1, FieldsOf
    <2> QED BY <1>1, <2>1, <2>2 DEF RowStays
<1>15. CASE \E at \in 0 .. now : Resolving(w, v, at)
    <2>1. Keeps(v, w, {"pending", "monLast"}) /\ w.status = "reconciled"
        BY <1>15 DEF Resolving, RowKept
    <2>2. /\ v.status = w.status /\ v.class = w.class /\ v.until = w.until
          /\ v.reads = w.reads /\ v.anchor = w.anchor /\ v.reservedAt = w.reservedAt
          /\ v.reconciledAt = w.reconciledAt /\ v.lastChargeAt = w.lastChargeAt
          /\ v.actual = w.actual /\ v.corrReads = w.corrReads /\ v.attached = w.attached
        BY <2>1, FieldsOf
    <2> QED BY <1>1, <2>1, <2>2 DEF RowStays
<1> QED BY <1>2, <1>3, <1>4, <1>5, <1>6, <1>7, <1>8, <1>11, <1>12, <1>13, <1>14, <1>15 DEF RowMove, PlainMove, OtherMove

LEMMA RowTypeLater ==
    ASSUME NEW w, NEW t \in Nat, NEW s \in Nat, t <= s, RowType(w, t)
    PROVE  RowType(w, s)
<1>1. \A x \in Past(t) : x \in Past(s)
    BY DEF Past
<1> QED BY <1>1 DEF RowType

LEMMA RowsKept ==
    ASSUME RowsInv, RowsMove
    PROVE  RowsInv' /\ \A r \in Resv : RowStays(resv[r], resv'[r])
<1>1. now \in Time /\ now' \in Time /\ now <= now' /\ now \in Nat /\ now' \in Nat
    BY Amounts DEF RowsInv, RowsMove, Time
<1>2. ASSUME NEW r \in Resv
      PROVE  /\ RowType(resv'[r], now') /\ done'[r] \in Past(now') /\ RowKept(resv'[r], done'[r])
             /\ RowStays(resv[r], resv'[r])
    <2>1. /\ RowType(resv[r], now) /\ done[r] \in Past(now) /\ RowKept(resv[r], done[r])
          /\ RowMove(resv[r], resv'[r], done[r], done'[r])
        BY DEF RowsInv, RowsMove
    <2>2. done'[r] \in Past(now) /\ RowType(resv'[r], now) /\ RowKept(resv'[r], done'[r])
        BY <1>1, <2>1, RowMoves
    <2>3. RowStays(resv[r], resv'[r])
        BY <1>1, <2>1, MoveStays
    <2>4. RowType(resv'[r], now')
        BY <1>1, <2>2, RowTypeLater
    <2>5. done'[r] \in Past(now')
        BY <1>1, <2>2 DEF Past
    <2> QED BY <2>2, <2>3, <2>4, <2>5
<1> QED BY <1>1, <1>2 DEF RowsInv, RowsMove

LEMMA ProcStays ==
    ASSUME RowsInv, RowsMove, NEW x, ProcKept(x, now, resv)
    PROVE  ProcKept(x, now', resv')
<1>1. x.on \in Resv /\ IsProc(x) /\ x.pc \in ProcPC /\ x.started \in 0 .. now
    BY DEF ProcKept
<1>2. RowStays(resv[x.on], resv'[x.on])
    BY <1>1, RowsKept
<1>3. x.started \in 0 .. now'
    BY <1>1, Amounts DEF RowsInv, RowsMove, Time
<1>4. x.pc \in {"monitor", "monitor_sent"} =>
          resv'[x.on].status = "reconciled" /\ resv'[x.on].until # NoTime
    BY <1>2 DEF ProcKept, RowStays
<1>5. x.pc \in {"read", "read_sent"} => resv'[x.on].attached
    BY <1>2 DEF ProcKept, RowStays
<1> QED BY <1>1, <1>3, <1>4, <1>5 DEF ProcKept

LEMMA NoProcMoves ==
    ASSUME BaseInv, RowsMove, UNCHANGED proc
    PROVE  BaseInv'
<1>1. RowsInv'
    BY RowsKept DEF BaseInv
<1>2. ProcsInv'
    BY ProcStays DEF BaseInv, ProcsInv
<1> QED BY <1>1, <1>2 DEF BaseInv

LEMMA OneProcMoves ==
    ASSUME BaseInv, RowsMove, NEW p \in Processes, NEW y, proc' = [proc EXCEPT ![p] = y],
           ProcKept(y, now', resv')
    PROVE  BaseInv'
<1>1. RowsInv'
    BY RowsKept DEF BaseInv
<1>2. proc' = [q \in Processes |-> proc'[q]] /\ \A q \in Processes : proc'[q] = IF q = p THEN y ELSE proc[q]
    BY DEF BaseInv, ProcsInv
<1>3. ASSUME NEW q \in Processes
      PROVE  ProcKept(proc'[q], now', resv')
    <2>1. CASE q = p
        BY <1>2, <2>1
    <2>2. CASE q # p
        <3>1. proc'[q] = proc[q] /\ ProcKept(proc[q], now, resv)
            BY <1>2, <2>2 DEF BaseInv, ProcsInv
        <3> QED BY <3>1, ProcStays DEF BaseInv
    <2> QED BY <2>1, <2>2
<1> QED BY <1>1, <1>2, <1>3 DEF BaseInv, ProcsInv

At(x, pc, r) == [pc |-> pc, on |-> r, started |-> x.started]
LEMMA GotoIs ==
    ASSUME BaseInv, NEW p \in Processes, NEW pc, NEW r, Goto(p, pc, r)
    PROVE  proc' = [proc EXCEPT ![p] = At(proc[p], pc, r)]
<1> DEFINE x == proc[p]
           T1 == [proc EXCEPT ![p].pc = pc]
           x1 == [x EXCEPT !.pc = pc]
<1>1. proc' = [T1 EXCEPT ![p].on = r]
    BY DEF Goto
<1>2. x = [pc |-> x.pc, on |-> x.on, started |-> x.started]
    BY DEF BaseInv, ProcsInv, ProcKept, IsProc
<1>3. T1 = [proc EXCEPT ![p] = x1]
    OBVIOUS
<1>4. x1 = [pc |-> pc, on |-> x.on, started |-> x.started]
    <2> HIDE DEF x
    <2> QED BY <1>2
<1>5. [x1 EXCEPT !.on = r] = At(x, pc, r)
    <2> HIDE DEF x, x1
    <2> QED BY <1>4 DEF At
<1>6. proc = [q \in Processes |-> proc[q]]
    BY DEF BaseInv, ProcsInv
<1>7. T1[p] = x1
    <2> HIDE DEF x1
    <2> QED BY <1>3, <1>6
<1>8. proc' = [T1 EXCEPT ![p] = [x1 EXCEPT !.on = r]]
    <2> HIDE DEF T1, x1
    <2> QED BY <1>1, <1>7
<1>9. proc' = [[proc EXCEPT ![p] = x1] EXCEPT ![p] = At(x, pc, r)]
    <2> HIDE DEF T1, x1, x
    <2> QED BY <1>3, <1>5, <1>8
<1>10. [[proc EXCEPT ![p] = x1] EXCEPT ![p] = At(x, pc, r)] = [proc EXCEPT ![p] = At(x, pc, r)]
    <2> DEFINE z == At(x, pc, r)
    <2> HIDE DEF x1, z
    <2>1. [[proc EXCEPT ![p] = x1] EXCEPT ![p] = z] = [proc EXCEPT ![p] = z]
        BY <1>6
    <2> QED BY <2>1 DEF z
<1> QED BY <1>9, <1>10

\* A process goes on to pc with the row r.
LEMMA GotoKept ==
    ASSUME BaseInv, RowsMove, NEW p \in Processes, NEW pc \in ProcPC, NEW r \in Resv,
           Goto(p, pc, r),
           pc \in {"monitor", "monitor_sent"} =>
              resv'[r].status = "reconciled" /\ resv'[r].until # NoTime,
           pc \in {"read", "read_sent"} => resv'[r].attached
    PROVE  BaseInv'
<1> DEFINE y == At(proc[p], pc, r)
<1>1. proc' = [proc EXCEPT ![p] = y]
    BY GotoIs
<1>2. proc[p].started \in 0 .. now'
    <2>1. proc[p].started \in 0 .. now
        BY DEF BaseInv, ProcsInv, ProcKept
    <2> QED BY <2>1, Amounts DEF BaseInv, RowsInv, RowsMove, Time
<1>3. y = [pc |-> pc, on |-> r, started |-> proc[p].started]
    BY DEF At
<1> HIDE DEF y
<1>4. y.pc = pc /\ y.on = r /\ y.started = proc[p].started /\ IsProc(y)
    BY <1>3 DEF IsProc
<1>5. ProcKept(y, now', resv')
    BY <1>2, <1>4 DEF ProcKept
<1> QED BY <1>1, <1>5, OneProcMoves
-----------------------------------------------------------------------------
(* Every action moves the rows as rows may move, and keeps BaseInv.        *)

Base == RowsMove /\ BaseInv'

LEMMA QuietKept ==
    ASSUME BaseInv, UNCHANGED <<resv, done, proc>>, now' \in Time, now <= now'
    PROVE  Base
BY NoRowMoves, NoProcMoves DEF Base, BaseInv

\* now' = now is a later instant too.
LEMMA SameTime == ASSUME BaseInv, UNCHANGED now  PROVE now' \in Time /\ now <= now' /\ now \in Nat
BY Amounts DEF BaseInv, RowsInv, Time

LEMMA RowShape ==
    ASSUME BaseInv, NEW r \in Resv
    PROVE  IsRow(resv[r]) /\ RowType(resv[r], now) /\ RowKept(resv[r], done[r])
BY DEF BaseInv, RowsInv, RowType

\* One row moves, the processes do not.
LEMMA RowKeeps ==
    ASSUME BaseInv, NEW r \in Resv, NEW v, resv' = [resv EXCEPT ![r] = v],
           UNCHANGED <<now, done, proc>>, OtherMove(resv[r], v, done[r], done[r])
    PROVE  Base
<1>1. RowsMove
    BY OneRowMoves DEF BaseInv
<1> QED BY <1>1, NoProcMoves DEF Base

LEMMA ReserveKept ==
    ASSUME BaseInv, NEW r \in Resv, NEW class \in Classes \intersect Class, Reserve(r, class)
    PROVE  Base
<1>1. PICK b : resv' = [resv EXCEPT ![r] = NewRow(class, b)]
    BY Zenon DEF Reserve
<1>2. resv[r].status = "free" /\ UNCHANGED <<now, done, proc>>
    BY Zenon DEF Reserve
<1>3. Admission(resv[r], NewRow(class, b))
    BY <1>2, NewRowPut
<1> QED BY <1>1, <1>2, <1>3, RowKeeps DEF OtherMove

LEMMA OneFieldKept ==
    ASSUME BaseInv, NEW r \in Resv, Attach(r) \/ ReleaseUnattached(r)
    PROVE  Base
<1>1. IsRow(resv[r])
    BY RowShape
<1>2. CASE Attach(r)
    <2>1. resv' = [resv EXCEPT ![r] = [resv[r] EXCEPT !.attached = TRUE]]
        BY <1>2 DEF Attach
    <2>2. Attaching(resv[r], [resv[r] EXCEPT !.attached = TRUE])
        BY <1>1, <1>2, OneFieldPut DEF Attach
    <2>3. UNCHANGED <<now, done, proc>>
        BY <1>2 DEF Attach
    <2> QED BY <2>1, <2>2, <2>3, RowKeeps DEF OtherMove
<1>3. CASE ReleaseUnattached(r)
    <2>1. resv' = [resv EXCEPT ![r] = [resv[r] EXCEPT !.status = "released"]]
        BY <1>3 DEF ReleaseUnattached
    <2>2. Releasing(resv[r], [resv[r] EXCEPT !.status = "released"])
        BY <1>1, <1>3, OneFieldPut DEF ReleaseUnattached
    <2>3. UNCHANGED <<now, done, proc>>
        BY <1>3 DEF ReleaseUnattached
    <2> QED BY <2>1, <2>2, <2>3, RowKeeps DEF OtherMove
<1> QED BY <1>2, <1>3

LEMMA SettleOperatorKept ==
    ASSUME BaseInv, NEW r \in Resv, SettleOperator(r)
    PROVE  Base
<1>1. resv' = [resv EXCEPT ![r] = OperatorRow(resv[r])]
    BY Zenon DEF SettleOperator, OperatorRow
<1>2. OperatorSettling(resv[r], OperatorRow(resv[r]))
    BY RowShape, OperatorPut DEF SettleOperator
<1>3. UNCHANGED <<now, done, proc>>
    BY DEF SettleOperator
<1> QED BY <1>1, <1>2, <1>3, RowKeeps DEF OtherMove

LEMMA WorkCompletesKept ==
    ASSUME BaseInv, NEW r \in Resv, WorkCompletes(r)
    PROVE  Base
<1> DEFINE w == resv[r]
<1>1. /\ w.attached /\ done[r] = NoTime /\ done' = [done EXCEPT ![r] = now]
      /\ UNCHANGED <<now, proc>>
    BY DEF WorkCompletes
<1>2. now' \in Time /\ now <= now' /\ now' = now
    BY <1>1, SameTime
<1>3. done' = [q \in Resv |-> done'[q]] /\ \A q \in Resv : done'[q] = IF q = r THEN now ELSE done[q]
    BY <1>1 DEF BaseInv, RowsInv
<1>4. resv' = [q \in Resv |-> resv'[q]] /\ \A q \in Resv : OtherMove(resv[q], resv'[q], done[q], done'[q])
    <2>1. CASE w.class \in RuntimeClass
        <3> DEFINE v == [w EXCEPT !.anchor = now]
        <3>1. resv' = [resv EXCEPT ![r] = v]
            BY <2>1 DEF WorkCompletes
        <3>2. Finishing(w, v)
            BY <1>1, <2>1, RowShape, OneFieldPut
        <3> HIDE DEF v
        <3>3. resv' = [q \in Resv |-> resv'[q]] /\ \A q \in Resv : resv'[q] = IF q = r THEN v ELSE resv[q]
            BY <3>1 DEF BaseInv, RowsInv
        <3>4. ASSUME NEW q \in Resv
              PROVE  OtherMove(resv[q], resv'[q], done[q], done'[q])
            <4>1. CASE q = r
                <5>1. resv'[q] = v /\ done'[q] = now /\ done[q] = NoTime /\ Finishing(resv[q], v)
                    BY <1>1, <1>3, <3>2, <3>3, <4>1
                <5> QED BY <5>1 DEF OtherMove
            <4>2. CASE q # r
                <5>1. resv'[q] = resv[q] /\ done'[q] = done[q]
                    BY <1>3, <3>3, <4>2
                <5> QED BY <5>1 DEF OtherMove
            <4> QED BY <4>1, <4>2
        <3> QED BY <3>3, <3>4
    <2>2. CASE w.class \notin RuntimeClass
        <3>1. resv' = resv
            BY <2>2 DEF WorkCompletes
        <3>2. ASSUME NEW q \in Resv
              PROVE  OtherMove(resv[q], resv'[q], done[q], done'[q])
            <4>1. CASE q = r
                <5>1. resv'[q] = resv[q] /\ done'[q] = now /\ done[q] = NoTime
                    BY <1>1, <1>3, <3>1, <4>1
                <5>2. resv[q].attached
                    BY <1>1, <4>1
                <5> QED BY <5>1, <5>2 DEF OtherMove
            <4>2. CASE q # r
                <5>1. resv'[q] = resv[q] /\ done'[q] = done[q]
                    BY <1>3, <3>1, <4>2
                <5> QED BY <5>1 DEF OtherMove
            <4> QED BY <4>1, <4>2
        <3> QED BY <3>1, <3>2 DEF BaseInv, RowsInv
    <2> QED BY <2>1, <2>2
<1>5. RowsMove
    BY <1>2, <1>3, <1>4 DEF RowsMove, RowMove, PlainMove
<1> QED BY <1>1, <1>5, NoProcMoves DEF Base

\* The outcomes of a settlement attempt on the row r, saved as w.
LEMMA TrySettleIs ==
    ASSUME NEW r, NEW w, IsRow(w), NEW reasons, TrySettle(r, w, reasons)
    PROVE  \E v : /\ resv' = [resv EXCEPT ![r] = v]
                  /\ (Settles(w) /\ Settling(w, v)) \/ (~Settles(w) /\ v = w)
<1>1. CASE Settles(w)
    <2>1. PICK post \in PostCosts(w) : resv' = [resv EXCEPT ![r] = Reconciled(w, post)]
        BY <1>1, Zenon DEF TrySettle
    <2>2. Settling(w, Reconciled(w, post))
        BY <1>1, ReconciledPut
    <2> QED BY <1>1, <2>1, <2>2
<1>2. CASE ~Settles(w)
    BY <1>2, Zenon DEF TrySettle
<1> QED BY <1>1, <1>2

LEMMA PlanSettlesKept ==
    ASSUME BaseInv, NEW p \in Processes, NEW r \in Resv, PlanSettles(p, r)
    PROVE  Base
<1>1. Settles(resv[r]) /\ TrySettle(r, resv[r], {}) /\ UNCHANGED <<now, done, proc>>
    BY Zenon DEF PlanSettles
<1>2. PICK v : resv' = [resv EXCEPT ![r] = v] /\ Settling(resv[r], v)
    BY <1>1, RowShape, TrySettleIs
<1> QED BY <1>1, <1>2, RowKeeps DEF OtherMove

LEMMA PlanReadKept ==
    ASSUME BaseInv, NEW p \in Processes, NEW r \in Resv, PlanRead(p, r)
    PROVE  Base
<1> DEFINE w == resv[r]
           v == [w EXCEPT !.polls = w.polls + 1]
<1>1. /\ w.status \in OpenStatus /\ w.attached /\ w.polls < MaxRunPolls
      /\ Goto(p, "read", r) /\ UNCHANGED <<now, done>>
    BY Zenon DEF PlanRead
<1>2. resv' = [resv EXCEPT ![r] = v]
    BY DEF PlanRead
<1>3. Polling(w, v)
    BY <1>1, RowShape, OneFieldPut
<1> HIDE DEF v
<1>4. RowsMove
    BY <1>1, <1>2, <1>3, OneRowMoves DEF OtherMove, BaseInv
<1>5. resv'[r].attached
    <2>1. RowStays(w, resv'[r])
        BY <1>4, RowsKept DEF BaseInv
    <2> QED BY <1>1, <2>1 DEF RowStays
<1>6. "read" \in ProcPC
    BY DEF ProcPC
<1> QED BY <1>1, <1>4, <1>5, <1>6, GotoKept DEF Base

LEMMA RecordUsageKept ==
    ASSUME BaseInv, NEW p \in Processes, NEW total \in Figures \union {NoFigure}, NEW e,
           RecordUsage(p, total, e)
    PROVE  Base
<1> DEFINE r == proc[p].on
           w == resv[r]
           u == SeenRow(w, total, done[r])
<1>1. r \in Resv /\ proc[p].pc = "read_sent"
    BY DEF RecordUsage, BaseInv, ProcsInv, ProcKept
<1>2. Goto(p, "idle", r) /\ UNCHANGED <<now, done>>
    BY Zenon DEF RecordUsage
<1>3. RowsMove
    <2>1. CASE w.status \in OpenStatus
        <3>1. TrySettle(r, u, ExcessTrip(e))
            BY <2>1, Zenon DEF RecordUsage, SeenRow
        <3>2. Seeing(w, u, done[r])
            BY <1>1, <2>1, RowShape, SeenPut
        <3> HIDE DEF u
        <3>3. IsRow(u)
            BY <3>2 DEF Seeing, Keeps
        <3>4. PICK v : resv' = [resv EXCEPT ![r] = v] /\ (v = u \/ Settling(u, v))
            BY <3>1, <3>3, TrySettleIs
        <3>5. OtherMove(w, v, done[r], done[r])
            BY <3>2, <3>4 DEF OtherMove
        <3> QED BY <1>1, <1>2, <3>4, <3>5, OneRowMoves DEF BaseInv
    <2>2. CASE w.status \notin OpenStatus
        <3>1. UNCHANGED resv
            BY <2>2, Zenon DEF RecordUsage
        <3> QED BY <1>2, <3>1, SameTime, NoRowMoves DEF BaseInv
    <2> QED BY <2>1, <2>2
<1>4. "idle" \in ProcPC
    BY DEF ProcPC
<1> HIDE DEF r
<1> QED BY <1>1, <1>2, <1>3, <1>4, GotoKept DEF Base

LEMMA BeginMonitoringKept ==
    ASSUME BaseInv, NEW p \in Processes, NEW r \in Resv, ReadBegun(p, r)
    PROVE  Base
<1> DEFINE w == resv[r]
           v == BegunRow(w)
<1>1. /\ w.status = "reconciled" /\ w.until # NoTime /\ w.closedAt = NoTime
      /\ w.pending = NoTime /\ w.corrReads < MaxCorrReads
      /\ r \in due[p] /\ Goto(p, "monitor", r) /\ UNCHANGED <<now, done>>
    BY Zenon DEF ReadBegun, Readable
<1>2. resv' = [resv EXCEPT ![r] = v]
    BY Zenon DEF ReadBegun
<1>3. Beginning(w, v)
    BY <1>1, RowShape, BegunPut DEF Beginning
<1> HIDE DEF v
<1>4. RowsMove
    BY <1>1, <1>2, <1>3, OneRowMoves DEF BaseInv
<1>5. resv'[r].status = "reconciled" /\ resv'[r].until # NoTime
    <2>1. RowStays(w, resv'[r])
        BY <1>4, RowsKept DEF BaseInv
    <2> QED BY <1>1, <2>1 DEF RowStays
<1>6. "monitor" \in ProcPC
    BY DEF ProcPC
<1> QED BY <1>1, <1>4, <1>5, <1>6, GotoKept DEF Base

LEMMA CompleteMonitoringKept ==
    ASSUME BaseInv, NEW p \in Processes, NEW total \in Figures, NEW e,
           CompleteMonitoring(p, total, e)
    PROVE  Base
<1> DEFINE r == proc[p].on
           w == resv[r]
           v == CompletedRow(w, total)
<1>1. r \in Resv /\ proc[p].pc = "monitor_sent" /\ w.status = "reconciled" /\ w.until # NoTime
    BY DEF CompleteMonitoring, BaseInv, ProcsInv, ProcKept
<1>2. Goto(p, "idle", r) /\ UNCHANGED <<now, done>>
    BY Zenon DEF CompleteMonitoring
<1>3. resv' = [resv EXCEPT ![r] = v]
    BY Zenon DEF CompleteMonitoring, CompletedRow, AnsweredRow
<1>4. Completing(w, v)
    BY <1>1, RowShape, CompletedPut
<1> HIDE DEF v
<1>5. RowsMove
    BY <1>1, <1>2, <1>3, <1>4, OneRowMoves DEF OtherMove, BaseInv
<1>6. "idle" \in ProcPC
    BY DEF ProcPC
<1> HIDE DEF r
<1> QED BY <1>1, <1>2, <1>5, <1>6, GotoKept DEF Base

LEMMA MonitoringFailsKept ==
    ASSUME BaseInv, NEW p \in Processes, NEW e, MonitoringFails(p, e)
    PROVE  Base
<1> DEFINE r == proc[p].on
           w == resv[r]
           v == FailedRow(w)
<1>1. r \in Resv /\ proc[p].pc = "monitor_sent" /\ w.status = "reconciled" /\ w.until # NoTime
    BY DEF MonitoringFails, BaseInv, ProcsInv, ProcKept
<1>2. Goto(p, "idle", r) /\ UNCHANGED <<now, done>>
    BY Zenon DEF MonitoringFails
<1>3. resv' = [resv EXCEPT ![r] = v]
    BY Zenon DEF MonitoringFails, FailedRow
<1>4. Failing(w, v)
    BY <1>1, RowShape, FailedPut DEF Failing
<1> HIDE DEF v
<1>5. RowsMove
    BY <1>1, <1>2, <1>3, <1>4, OneRowMoves DEF OtherMove, BaseInv
<1>6. "idle" \in ProcPC
    BY DEF ProcPC
<1> HIDE DEF r
<1> QED BY <1>1, <1>2, <1>5, <1>6, GotoKept DEF Base

LEMMA CallKept ==
    ASSUME BaseInv, NEW p \in Processes, Send(p) \/ \E e \in {FALSE, Excess} : ReadFails(p, e)
    PROVE  Base
<1> DEFINE r == proc[p].on
<1>1. r \in Resv
    BY DEF BaseInv, ProcsInv, ProcKept
<1>2. UNCHANGED <<now, resv, done>>
    BY Zenon DEF Send, ReadFails
<1>3. RowsMove
    BY <1>2, SameTime, NoRowMoves DEF BaseInv
<1>4. {"read_sent", "monitor_sent", "idle"} \subseteq ProcPC
    BY DEF ProcPC
<1>5. /\ proc[p].pc \in {"monitor", "monitor_sent"} =>
             resv'[r].status = "reconciled" /\ resv'[r].until # NoTime
      /\ proc[p].pc \in {"read", "read_sent"} => resv'[r].attached
    BY <1>2 DEF BaseInv, ProcsInv, ProcKept
<1>6. \/ proc[p].pc = "read" /\ Goto(p, "read_sent", r)
      \/ proc[p].pc = "monitor" /\ Goto(p, "monitor_sent", r)
      \/ Goto(p, "idle", r)
    BY Zenon DEF Send, ReadFails
<1> HIDE DEF r
<1>7. CASE proc[p].pc = "read" /\ Goto(p, "read_sent", r)
    BY <1>1, <1>3, <1>4, <1>5, <1>7, GotoKept DEF Base
<1>8. CASE proc[p].pc = "monitor" /\ Goto(p, "monitor_sent", r)
    BY <1>1, <1>3, <1>4, <1>5, <1>8, GotoKept DEF Base
<1>9. CASE Goto(p, "idle", r)
    BY <1>1, <1>3, <1>4, <1>9, GotoKept DEF Base
<1> QED BY <1>6, <1>7, <1>8, <1>9

\* A process that is lost or starts.
LEMMA LoseBootKept ==
    ASSUME BaseInv, NEW p \in Processes, Lose(p) \/ Boot(p)
    PROVE  Base
<1> DEFINE x == proc[p]
<1>1. UNCHANGED <<now, resv, done>>
    BY DEF Lose, Boot
<1>2. RowsMove
    BY <1>1, SameTime, NoRowMoves DEF BaseInv
<1>3. /\ x = [pc |-> x.pc, on |-> x.on, started |-> x.started]
      /\ x.on \in Resv /\ x.started \in 0 .. now'
    BY <1>1 DEF BaseInv, ProcsInv, ProcKept, IsProc
<1>4. now' \in 0 .. now'
    BY <1>1, SameTime
<1>5. ASSUME NEW pc \in {"down", "idle"}, proc' = [proc EXCEPT ![p] = [x EXCEPT !.pc = pc]]
      PROVE  BaseInv'
    <2> DEFINE y == [x EXCEPT !.pc = pc]
    <2>1. y.pc = pc /\ y.on = x.on /\ y.started = x.started /\ IsProc(y)
        <3> HIDE DEF x
        <3> QED BY <1>3 DEF IsProc
    <2> HIDE DEF y, x
    <2>2. ProcKept(y, now', resv')
        BY <1>3, <2>1 DEF ProcKept, ProcPC
    <2> QED BY <1>2, <1>5, <2>2, OneProcMoves DEF x, y
<1>6. CASE Lose(p)
    <2>1. proc' = [proc EXCEPT ![p] = [x EXCEPT !.pc = "down"]]
        BY <1>6 DEF Lose
    <2> QED BY <1>2, <1>5, <2>1 DEF Base
<1>7. CASE Boot(p) /\ p \notin Pollers
    <2>1. proc' = [proc EXCEPT ![p] = [x EXCEPT !.pc = "idle"]]
        BY <1>7 DEF Boot
    <2> QED BY <1>2, <1>5, <2>1 DEF Base
<1>8. CASE Boot(p) /\ p \in Pollers
    <2> DEFINE u == [x EXCEPT !.pc = "boot"]
               y == [u EXCEPT !.started = now]
    <2>1. proc' = [proc EXCEPT ![p] = y]
        BY <1>8 DEF Boot
    <2>2. u = [pc |-> "boot", on |-> x.on, started |-> x.started]
        <3> HIDE DEF x
        <3> QED BY <1>3
    <2>3. y.pc = "boot" /\ y.on = x.on /\ y.started = now /\ IsProc(y)
        <3> HIDE DEF x, u
        <3> QED BY <2>2 DEF IsProc
    <2> HIDE DEF y, x
    <2>4. ProcKept(y, now', resv')
        BY <1>1, <1>3, <1>4, <2>3 DEF ProcKept, ProcPC
    <2> QED BY <1>2, <2>1, <2>4, OneProcMoves DEF Base
<1> QED BY <1>6, <1>7, <1>8

LEMMA ResolveMarkersKept ==
    ASSUME BaseInv, NEW p \in Processes, ResolveMarkers(p)
    PROVE  Base
<1> DEFINE at == proc[p].started
           stale(w) == w.pending # NoTime /\ w.pending < at
<1>1. proc' = [proc EXCEPT ![p].pc = "idle", ![p].started = 0] /\ UNCHANGED <<now, done>>
    BY Zenon DEF ResolveMarkers
<1>2. resv' = [r \in Resv |-> IF stale(resv[r]) THEN ResolvedRow(resv[r], at) ELSE resv[r]]
    BY Zenon DEF ResolveMarkers, ResolvedRow
<1>3. at \in 0 .. now /\ proc[p].on \in Resv
    BY DEF BaseInv, ProcsInv, ProcKept
<1>4. now' \in Time /\ now <= now' /\ now' = now
    BY <1>1, SameTime
<1>5. ASSUME NEW r \in Resv
      PROVE  RowMove(resv[r], resv'[r], done[r], done'[r])
    <2>1. done'[r] = done[r]
        BY <1>1
    <2>2. CASE stale(resv[r])
        <3>1. resv'[r] = ResolvedRow(resv[r], at)
            BY <1>2, <2>2
        <3>2. Resolving(resv[r], ResolvedRow(resv[r], at), at)
            BY <2>2, RowShape, ResolvedPut
        <3> HIDE DEF at
        <3> QED BY <1>3, <2>1, <3>1, <3>2 DEF RowMove, PlainMove, OtherMove
    <2>3. CASE ~stale(resv[r])
        <3>1. resv'[r] = resv[r]
            BY <1>2, <2>3
        <3> QED BY <2>1, <3>1 DEF RowMove, PlainMove, OtherMove
    <2> QED BY <2>2, <2>3
<1>6. resv' = [r \in Resv |-> resv'[r]] /\ done' = [r \in Resv |-> done'[r]]
    BY <1>1, <1>2 DEF BaseInv, RowsInv
<1>7. RowsMove
    BY <1>4, <1>5, <1>6 DEF RowsMove
<1>8. BaseInv'
    <2> DEFINE x == proc[p]
               T1 == [proc EXCEPT ![p].pc = "idle"]
               x1 == [x EXCEPT !.pc = "idle"]
               y == [x1 EXCEPT !.started = 0]
    <2>1. proc' = [T1 EXCEPT ![p].started = 0]
        BY <1>1
    <2>2. x = [pc |-> x.pc, on |-> x.on, started |-> x.started]
          /\ proc = [q \in Processes |-> proc[q]]
        BY DEF BaseInv, ProcsInv, ProcKept, IsProc
    <2>3. T1[p] = x1
        BY <2>2
    <2>4. proc' = [T1 EXCEPT ![p] = y]
        <3> HIDE DEF T1, x1
        <3> QED BY <2>1, <2>3
    <2>5. proc' = [proc EXCEPT ![p] = y]
        <3>1. T1 = [proc EXCEPT ![p] = x1]
            OBVIOUS
        <3> HIDE DEF T1, x1, y
        <3>2. [[proc EXCEPT ![p] = x1] EXCEPT ![p] = y] = [proc EXCEPT ![p] = y]
            BY <2>2
        <3> QED BY <2>4, <3>1, <3>2
    <2>6. x1 = [pc |-> "idle", on |-> x.on, started |-> x.started]
        <3> HIDE DEF x
        <3> QED BY <2>2
    <2>7. y.pc = "idle" /\ y.on = x.on /\ y.started = 0 /\ IsProc(y)
        <3> HIDE DEF x, x1
        <3> QED BY <2>6 DEF IsProc
    <2>8. 0 \in 0 .. now'
        BY <1>4, Amounts DEF Time
    <2>9. ProcKept(y, now', resv')
        <3> HIDE DEF y
        <3> QED BY <1>3, <2>7, <2>8 DEF ProcKept, ProcPC
    <2> HIDE DEF y
    <2> QED BY <1>7, <2>5, <2>9, OneProcMoves
<1> QED BY <1>7, <1>8 DEF Base

LEMMA RowNextKept ==
    ASSUME BaseInv, NEW r \in Resv, RowNext(r)
    PROVE  Base
<1>1. CASE \E class \in Classes : Reserve(r, class)
    BY <1>1, ReserveKept, ClassAssumption
<1>2. CASE Attach(r) \/ ReleaseUnattached(r)
    BY <1>2, OneFieldKept
<1>3. CASE SettleOperator(r)
    BY <1>3, SettleOperatorKept
<1>4. CASE Charge(r)
    <2>1. UNCHANGED <<now, resv, done, proc>>
        BY <1>4, Zenon DEF Charge
    <2> QED BY <2>1, SameTime, QuietKept
<1>5. CASE WorkCompletes(r)
    BY <1>5, WorkCompletesKept
<1> QED BY <1>1, <1>2, <1>3, <1>4, <1>5 DEF RowNext

LEMMA ProcNextKept ==
    ASSUME BaseInv, NEW p \in Processes, ProcNext(p)
    PROVE  Base
<1>1. CASE \E r \in Resv : PlanSettles(p, r)
    BY <1>1, PlanSettlesKept
<1>2. CASE \E r \in Resv : PlanRead(p, r)
    BY <1>2, PlanReadKept
<1>3. CASE SelectMonitoring(p) \/ \E r \in Resv : BeginMonitoring(p, r)
    <2>1. CASE Quiet
        BY <2>1, SameTime, QuietKept DEF Quiet
    <2> QED BY <1>3, <2>1, MonitoringBegins, BeginMonitoringKept
<1>4. CASE Send(p) \/ \E e \in {FALSE, Excess} : ReadFails(p, e)
    BY <1>4, CallKept
<1>5. CASE \E total \in Figures \union {NoFigure}, e \in {FALSE, Excess} : RecordUsage(p, total, e)
    BY <1>5, RecordUsageKept
<1>6. CASE \E total \in Figures, e \in {FALSE, Excess} : CompleteMonitoring(p, total, e)
    BY <1>6, CompleteMonitoringKept
<1>7. CASE \E e \in {FALSE, Excess} : MonitoringFails(p, e)
    BY <1>7, MonitoringFailsKept
<1>8. CASE Lose(p) \/ Boot(p)
    BY <1>8, LoseBootKept
<1>9. CASE ResolveMarkers(p)
    BY <1>9, ResolveMarkersKept
<1> QED BY <1>1, <1>2, <1>3, <1>4, <1>5, <1>6, <1>7, <1>8, <1>9 DEF ProcNext

LEMMA BaseKept == BaseInv /\ [Next]_vars => Base
<1> SUFFICES ASSUME BaseInv, [Next]_vars
             PROVE  Base
    OBVIOUS
<1>1. CASE UNCHANGED vars \/ OwnerNext
    <2>1. UNCHANGED <<now, resv, done, proc>>
        BY <1>1, Zenon DEF vars, OwnerNext, ClaimOrigin, ClearLatch, ChangeAnchor
    <2> QED BY <2>1, SameTime, QuietKept
<1>2. CASE Tick
    <2>1. now < MaxTime /\ now' = now + 1 /\ UNCHANGED <<resv, done, proc>>
        BY <1>2 DEF Tick
    <2>2. now' \in Time /\ now <= now'
        BY <2>1, Amounts DEF BaseInv, RowsInv, Time
    <2> QED BY <2>1, <2>2, QuietKept
<1>3. CASE \E r \in Resv : RowNext(r)
    BY <1>3, RowNextKept
<1>4. CASE \E p \in Processes : ProcNext(p)
    BY <1>4, ProcNextKept
<1> QED BY <1>1, <1>2, <1>3, <1>4 DEF Next

LEMMA BaseInit == Init => BaseInv
<1> SUFFICES ASSUME Init
             PROVE  BaseInv
    OBVIOUS
<1>1. now \in Time /\ now = 0 /\ 0 \in 0 .. 0 /\ NoTime \in Past(0) /\ NoFigure \in Int
    BY Amounts DEF Init, Time, Past, NoTime, NoFigure
<1>2. resv = [r \in Resv |-> resv[r]] /\ done = [r \in Resv |-> done[r]]
      /\ \A r \in Resv : resv[r] = FreeRow /\ done[r] = NoTime
    BY DEF Init
<1>3. IsRow(FreeRow)
    BY FreeRowIsRow
<1> DEFINE w == FreeRow
<1>4. /\ w.status = "free" /\ w.class = "build" /\ w.attached = FALSE /\ w.reservedAt = NoTime
      /\ w.anchor = NoTime /\ w.corrected = NoFigure /\ w.polls = 0 /\ w.settled = 0
      /\ w.actual = 0 /\ w.mon = 0 /\ w.reconciledAt = NoTime /\ w.lastChargeAt = NoTime
      /\ w.until = NoTime /\ w.closedAt = NoTime /\ w.pending = NoTime /\ w.monLast = NoTime
      /\ w.nextRead = 0 /\ w.corrReads = 0
    BY DEF FreeRow
<1>5. w.reads \in Seq(Read)
    <2>1. w.reads = <<>>
        BY DEF FreeRow
    <2>2. <<>> \in Seq(Read)
        OBVIOUS
    <2> QED BY <2>1, <2>2
<1> HIDE DEF w
<1>6. 0 \in 0 .. MaxRunPolls /\ 0 \in 0 .. MaxCorrReads
    BY Amounts
<1>7. w.status \in Status /\ w.class \in Class /\ w.attached \in BOOLEAN
    BY <1>4 DEF Status, Class
<1>8. IsRow(w)
    BY <1>3 DEF w
<1>9. RowType(w, 0) /\ RowKept(w, NoTime)
    <2>1. RowType(w, 0)
        BY <1>1, <1>4, <1>5, <1>6, <1>7, <1>8 DEF RowType
    <2>2. RowKept(w, NoTime)
        BY <1>4 DEF RowKept
    <2> QED BY <2>1, <2>2
<1>10. RowsInv
    BY <1>1, <1>2, <1>9 DEF RowsInv, w
<1>11. ProcsInv
    <2>1. (CHOOSE r \in Resv : TRUE) \in Resv
        BY ReservationAssumption
    <2> DEFINE on == CHOOSE r \in Resv : TRUE
    <2>2. proc = [p \in Processes |-> [pc |-> IF p \in Pollers THEN "idle" ELSE "down",
                                       on |-> on, started |-> 0]]
        BY DEF Init
    <2> HIDE DEF on
    <2>3. ASSUME NEW p \in Processes
          PROVE  ProcKept(proc[p], now, resv)
        <3>1. proc[p] = [pc |-> IF p \in Pollers THEN "idle" ELSE "down", on |-> on, started |-> 0]
            BY <2>2
        <3>2. proc[p].pc \in {"idle", "down"} /\ proc[p].on = on /\ proc[p].started = 0 /\ IsProc(proc[p])
            BY <3>1 DEF IsProc
        <3>3. on \in Resv
            BY <2>1 DEF on
        <3> QED BY <1>1, <3>2, <3>3 DEF ProcKept, ProcPC
    <2> QED BY <2>2, <2>3 DEF ProcsInv
<1> QED BY <1>10, <1>11 DEF BaseInv

LEMMA BaseAlways == Spec => []BaseInv
<1>1. BaseInv /\ [Next]_vars => BaseInv'
    BY BaseKept DEF Base
<1> QED BY <1>1, BaseInit, PTL DEF Spec

\* A settled amount is final upwards, a closed row is never read again and a
\* refused or released one never comes back (_try_settle, _apply_correction,
\* complete_monitoring_read, release_unattached_reservations).
THEOREM SettledAlwaysRises == Spec => SettledOnlyRises
<1> DEFINE A == \A r \in Resv :
                  /\ resv[r].status = "reconciled" =>
                         /\ resv'[r].status = "reconciled"
                         /\ resv'[r].actual >= resv[r].actual
                         /\ resv[r].closedAt # NoTime => resv'[r].corrReads = resv[r].corrReads
                  /\ resv[r].status \in {"released", "denied"} => resv'[r] = resv[r]
<1>1. BaseInv /\ [Next]_vars => A
    <2> SUFFICES ASSUME BaseInv, [Next]_vars, NEW r \in Resv
                 PROVE  /\ resv[r].status = "reconciled" =>
                             /\ resv'[r].status = "reconciled"
                             /\ resv'[r].actual >= resv[r].actual
                             /\ resv[r].closedAt # NoTime => resv'[r].corrReads = resv[r].corrReads
                        /\ resv[r].status \in {"released", "denied"} => resv'[r] = resv[r]
        OBVIOUS
    <2>1. RowsMove /\ BaseInv'
        BY BaseKept DEF Base
    <2>2. RowStays(resv[r], resv'[r])
        BY <2>1, RowsKept DEF BaseInv
    <2>3. resv[r].actual \in Nat /\ resv'[r].actual \in Nat
        BY <2>1 DEF BaseInv, RowsInv, RowType
    <2> QED BY <2>2, <2>3 DEF RowStays
<1>2. Spec => []BaseInv
    BY BaseAlways
<1> QED BY <1>1, <1>2, PTL DEF Spec, SettledOnlyRises
-----------------------------------------------------------------------------
(* A settled row is never below its evidence.                              *)

ReadEvidence(w) ==
    \A i \in DOMAIN w.reads :
        \/ w.reads[i].at < EligibleFrom(w) /\ StableMode
        \/ w.reads[i].total <= w.settled
Evidence(w) ==
    /\ w.status # "reconciled" => w.corrected = NoFigure
    /\ w.status = "reconciled" /\ w.class # "envelope" =>
          ReadEvidence(w) /\ w.corrected <= w.settled /\ w.settled <= w.actual

LEMMA SettlingEvidence ==
    ASSUME now \in Time, NEW w, NEW v, RowType(w, now), Evidence(w), Settling(w, v)
    PROVE  Evidence(v)
<1>1. Keeps(v, w, SettledFields) /\ Settles(w) /\ v.settled = Usage(w)
    BY DEF Settling
<1>2. v.corrected = w.corrected /\ v.reads = w.reads /\ v.anchor = w.anchor
    BY <1>1, FieldsOf DEF SettledFields
<1>3. w.corrected = NoFigure
    BY <1>1 DEF Settles, OpenStatus, Evidence
<1>4. now \in Nat /\ w.class \in Class
    BY Amounts DEF Time, RowType
<1>5. UsageIsRight(w)
    BY <1>4, UsageRight
<1>6. Usage(w) \in Nat
    BY <1>5 DEF UsageIsRight
<1>7. v.settled <= v.actual
    <2>1. PICK post \in PostCosts(w) : v.actual = Usage(w) + post
        BY DEF Settling
    <2>2. post \in Nat
        BY <1>4, <2>1, PostCostsType
    <2> QED BY <1>1, <1>6, <2>1, <2>2
<1>8. ReadEvidence(v)
    <2>1. EligibleFrom(v) = EligibleFrom(w)
        BY <1>2 DEF EligibleFrom
    <2> QED BY <1>1, <1>2, <1>5, <2>1 DEF ReadEvidence, UsageIsRight
<1>9. v.corrected <= v.settled
    BY <1>1, <1>2, <1>3, <1>6 DEF NoFigure
<1>10. v.status = "reconciled"
    BY DEF Settling
<1> QED BY <1>7, <1>8, <1>9, <1>10 DEF Evidence

LEMMA CompletingEvidence ==
    ASSUME now \in Time, NEW w, NEW v, RowType(w, now), Evidence(w), Completing(w, v)
    PROVE  Evidence(v)
<1>1. Keeps(v, w, CompletedFields) /\ w.status = "reconciled"
    BY DEF Completing
<1>2. v.status = w.status /\ v.class = w.class /\ v.reads = w.reads /\ v.anchor = w.anchor
    BY <1>1, FieldsOf DEF CompletedFields
<1>3. PICK total \in Figures : Rises(w, v, total) /\ v.corrected = Max({w.corrected, total})
    BY DEF Completing
<1>4. total \in Nat /\ w.corrected \in Int /\ w.settled \in Nat /\ w.actual \in Nat
    BY Amounts DEF RowType
<1>5. CASE w.class # "envelope"
    <2>1. ReadEvidence(w) /\ w.corrected <= w.settled /\ w.settled <= w.actual
        BY <1>1, <1>5 DEF Evidence
    <2>2. v.settled \in Nat /\ w.settled <= v.settled /\ total <= v.settled /\ v.settled <= v.actual
        BY <1>3, <1>4, <2>1 DEF Rises
    <2>3. v.corrected <= v.settled
        BY <1>3, <1>4, <2>1, <2>2, MaxOfTwo
    <2>4. ReadEvidence(v)
        <3>1. EligibleFrom(v) = EligibleFrom(w)
            BY <1>2 DEF EligibleFrom
        <3>2. ASSUME NEW i \in DOMAIN v.reads,
                     ~(v.reads[i].at < EligibleFrom(v) /\ StableMode)
              PROVE  v.reads[i].total <= v.settled
            <4>1. v.reads[i].total <= w.settled
                BY <1>2, <2>1, <3>1, <3>2 DEF ReadEvidence
            <4>2. v.reads[i].total \in Int
                <5>1. w.reads \in Seq(Read) /\ i \in DOMAIN w.reads
                    BY <1>2, <3>2 DEF RowType
                <5>2. w.reads[i].total \in Figures \union {NoFigure}
                    BY <5>1, TotalsType
                <5>3. Figures \union {NoFigure} \subseteq Int
                    BY Amounts DEF NoFigure
                <5>4. w.reads[i].total \in Int
                    BY <5>2, <5>3
                <5> QED BY <1>2, <5>4
            <4> QED BY <1>4, <2>2, <4>1, <4>2
        <3> QED BY <3>2 DEF ReadEvidence
    <2> QED BY <1>1, <1>2, <2>2, <2>3, <2>4 DEF Evidence
<1>6. CASE w.class = "envelope"
    BY <1>1, <1>2, <1>6 DEF Evidence
<1> QED BY <1>5, <1>6

LEMMA EvidenceFrame ==
    ASSUME NEW w, NEW v, Evidence(w), v.status = w.status, v.class = w.class,
           v.reads = w.reads, v.anchor = w.anchor, v.corrected = w.corrected,
           v.settled = w.settled, v.actual = w.actual
    PROVE  Evidence(v)
<1>1. EligibleFrom(v) = EligibleFrom(w)
    BY DEF EligibleFrom
<1> QED BY <1>1 DEF Evidence, ReadEvidence

LEMMA OpenEvidence ==
    ASSUME NEW w, NEW v, Evidence(w), w.status # "reconciled", v.status # "reconciled",
           v.corrected = w.corrected
    PROVE  Evidence(v)
BY DEF Evidence

LEMMA MoveEvidence ==
    ASSUME now \in Time, NEW w, NEW v, NEW d \in Past(now), NEW e,
           RowType(w, now), RowKept(w, d), Evidence(w), RowMove(w, v, d, e)
    PROVE  Evidence(v)
<1>1. CASE v = w
    BY <1>1
<1>2. CASE Finishing(w, v) /\ d = NoTime
    <2>1. Keeps(v, w, {"anchor"})
        BY <1>2 DEF Finishing
    <2>2. v.status = w.status /\ v.corrected = w.corrected
        BY <2>1, FieldsOf
    <2>3. w.attached
        BY <1>2 DEF Finishing
    <2>4. w.status # "reconciled"
        BY <1>2, <2>3 DEF RowKept
    <2> QED BY <2>2, <2>4, OpenEvidence
<1>3. CASE Admission(w, v)
    <2>1. Keeps(v, FreeRow, {"status", "class", "reservedAt", "mon"}) /\ v.status \in {"reserved", "denied"}
        BY <1>3 DEF Admission
    <2>2. v.corrected = NoFigure
        BY <2>1, FieldsOf DEF FreeRow
    <2> QED BY <2>1, <2>2 DEF Evidence
<1>4. CASE Attaching(w, v)
    <2>1. Keeps(v, w, {"attached"}) /\ w.status \in OpenStatus
        BY <1>4 DEF Attaching
    <2>2. v.status = w.status /\ v.corrected = w.corrected
        BY <2>1, FieldsOf
    <2> QED BY <2>1, <2>2, OpenEvidence DEF OpenStatus
<1>5. CASE Releasing(w, v)
    <2>1. Keeps(v, w, {"status"}) /\ w.status = "reserved" /\ v.status = "released"
        BY <1>5 DEF Releasing
    <2>2. v.corrected = w.corrected
        BY <2>1, FieldsOf
    <2> QED BY <2>1, <2>2, OpenEvidence
<1>6. CASE OperatorSettling(w, v)
    <2>1. Keeps(v, w, OperatorFields) /\ w.class = "envelope" /\ v.status = "reconciled"
        BY <1>6 DEF OperatorSettling
    <2>2. v.class = w.class
        BY <2>1, FieldsOf DEF OperatorFields
    <2> QED BY <2>1, <2>2 DEF Evidence
<1>7. CASE Polling(w, v)
    <2>1. Keeps(v, w, {"polls"}) /\ w.status \in OpenStatus
        BY <1>7 DEF Polling
    <2>2. v.status = w.status /\ v.corrected = w.corrected
        BY <2>1, FieldsOf
    <2> QED BY <2>1, <2>2, OpenEvidence DEF OpenStatus
<1>8. ASSUME NEW u, Seeing(w, u, d)
      PROVE  Evidence(u)
    <2>1. Keeps(u, w, {"reads", "status", "anchor"}) /\ w.status \in OpenStatus /\ u.status \in OpenStatus
        BY <1>8 DEF Seeing
    <2>2. u.corrected = w.corrected
        BY <2>1, FieldsOf
    <2> QED BY <2>1, <2>2, OpenEvidence DEF OpenStatus
<1>9. CASE Settling(w, v)
    BY <1>9, SettlingEvidence
<1>10. CASE \E u : Seeing(w, u, d) /\ Settling(u, v)
    <2>1. PICK u : Seeing(w, u, d) /\ Settling(u, v)
        BY <1>10
    <2>2. RowType(u, now)
        BY <2>1, SeeingMoves DEF Moved
    <2>3. Evidence(u)
        BY <1>8, <2>1
    <2> QED BY <2>1, <2>2, <2>3, SettlingEvidence
<1>11. CASE Beginning(w, v)
    <2>1. Keeps(v, w, {"corrReads", "pending", "monLast"})
        BY <1>11 DEF Beginning
    <2>2. /\ v.status = w.status /\ v.class = w.class /\ v.reads = w.reads /\ v.anchor = w.anchor
          /\ v.corrected = w.corrected /\ v.settled = w.settled /\ v.actual = w.actual
        BY <2>1, FieldsOf
    <2> QED BY <2>2, EvidenceFrame
<1>12. CASE Completing(w, v)
    BY <1>12, CompletingEvidence
<1>13. CASE Failing(w, v)
    <2>1. Keeps(v, w, {"pending", "monLast", "nextRead"})
        BY <1>13 DEF Failing
    <2>2. /\ v.status = w.status /\ v.class = w.class /\ v.reads = w.reads /\ v.anchor = w.anchor
          /\ v.corrected = w.corrected /\ v.settled = w.settled /\ v.actual = w.actual
        BY <2>1, FieldsOf
    <2> QED BY <2>2, EvidenceFrame
<1>14. CASE \E at \in 0 .. now : Resolving(w, v, at)
    <2>1. Keeps(v, w, {"pending", "monLast"})
        BY <1>14 DEF Resolving
    <2>2. /\ v.status = w.status /\ v.class = w.class /\ v.reads = w.reads /\ v.anchor = w.anchor
          /\ v.corrected = w.corrected /\ v.settled = w.settled /\ v.actual = w.actual
        BY <2>1, FieldsOf
    <2> QED BY <2>2, EvidenceFrame
<1> QED BY <1>1, <1>2, <1>3, <1>4, <1>5, <1>6, <1>7, <1>8, <1>9, <1>10, <1>11, <1>12, <1>13, <1>14
        DEF RowMove, PlainMove, OtherMove

EvidenceInv == BaseInv /\ \A r \in Resv : Evidence(resv[r])

LEMMA EvidenceKept == EvidenceInv /\ [Next]_vars => EvidenceInv'
<1> SUFFICES ASSUME EvidenceInv, [Next]_vars
             PROVE  EvidenceInv'
    OBVIOUS
<1>1. RowsMove /\ BaseInv'
    BY BaseKept DEF Base, EvidenceInv
<1>2. ASSUME NEW r \in Resv
      PROVE  Evidence(resv'[r])
    <2>1. /\ now \in Time /\ RowType(resv[r], now) /\ done[r] \in Past(now)
          /\ RowKept(resv[r], done[r]) /\ RowMove(resv[r], resv'[r], done[r], done'[r])
          /\ Evidence(resv[r])
        BY <1>1 DEF EvidenceInv, BaseInv, RowsInv, RowsMove
    <2> QED BY <2>1, MoveEvidence
<1> QED BY <1>1, <1>2 DEF EvidenceInv

\* A settled row is never below its evidence: every eligible figure read before
\* it settled and every figure read since, whatever the settlement mode and
\* however reads are lost (_try_settle, _apply_correction).
THEOREM EvidenceNeverBelow == Spec => []NeverBelowEvidence
<1>1. Init => EvidenceInv
    <2> SUFFICES ASSUME Init
                 PROVE  EvidenceInv
        OBVIOUS
    <2>1. ASSUME NEW r \in Resv
          PROVE  Evidence(resv[r])
        <3>1. resv[r].status = "free" /\ resv[r].corrected = NoFigure
            BY DEF Init, FreeRow
        <3> QED BY <3>1 DEF Evidence
    <2> QED BY <2>1, BaseInit DEF EvidenceInv
<1>2. EvidenceInv => NeverBelowEvidence
    BY DEF EvidenceInv, Evidence, ReadEvidence, NeverBelowEvidence
<1> QED BY <1>1, <1>2, EvidenceKept, PTL DEF Spec
-----------------------------------------------------------------------------
(* Lost processes, and the faults that their starts have not answered yet. *)

\* What a loss, a start and the resolution of markers make of a process.
LEMMA LoseIs ==
    ASSUME BaseInv, NEW p \in Processes, Lose(p)
    PROVE  proc' = [proc EXCEPT ![p] = At(proc[p], "down", proc[p].on)]
<1> DEFINE x == proc[p]
<1>1. x = [pc |-> x.pc, on |-> x.on, started |-> x.started]
    BY DEF BaseInv, ProcsInv, ProcKept, IsProc
<1>2. proc' = [proc EXCEPT ![p] = [x EXCEPT !.pc = "down"]]
    BY DEF Lose
<1>3. [x EXCEPT !.pc = "down"] = At(x, "down", x.on)
    <2> HIDE DEF x
    <2> QED BY <1>1 DEF At
<1> HIDE DEF x
<1> QED BY <1>2, <1>3 DEF x

Booted(p) == [pc |-> "boot", on |-> proc[p].on, started |-> now]
LEMMA BootIs ==
    ASSUME BaseInv, NEW p \in Processes, Boot(p)
    PROVE  proc' = [proc EXCEPT ![p] =
                       IF p \in Pollers THEN Booted(p) ELSE At(proc[p], "idle", proc[p].on)]
<1> DEFINE x == proc[p]
           x1 == [x EXCEPT !.pc = "boot"]
<1>1. x = [pc |-> x.pc, on |-> x.on, started |-> x.started]
    BY DEF BaseInv, ProcsInv, ProcKept, IsProc
<1>2. proc' = [proc EXCEPT ![p] = IF p \in Pollers THEN [x1 EXCEPT !.started = now]
                                  ELSE [x EXCEPT !.pc = "idle"]]
    BY DEF Boot
<1>3. [x EXCEPT !.pc = "idle"] = At(x, "idle", x.on)
    <2> HIDE DEF x
    <2> QED BY <1>1 DEF At
<1>4. x1 = [pc |-> "boot", on |-> x.on, started |-> x.started]
    <2> HIDE DEF x
    <2> QED BY <1>1
<1>5. [x1 EXCEPT !.started = now] = [pc |-> "boot", on |-> x.on, started |-> now]
    <2> HIDE DEF x, x1
    <2> QED BY <1>4
<1> HIDE DEF x1
<1> QED BY <1>2, <1>3, <1>5 DEF Booted

Ready(p) == [pc |-> "idle", on |-> proc[p].on, started |-> 0]
LEMMA ResolveIs ==
    ASSUME BaseInv, NEW p \in Processes, ResolveMarkers(p)
    PROVE  proc' = [proc EXCEPT ![p] = Ready(p)]
<1> DEFINE x == proc[p]
           T1 == [proc EXCEPT ![p].pc = "idle"]
           x1 == [x EXCEPT !.pc = "idle"]
           y == [x1 EXCEPT !.started = 0]
<1>1. proc' = [T1 EXCEPT ![p].started = 0]
    BY Zenon DEF ResolveMarkers
<1>2. x = [pc |-> x.pc, on |-> x.on, started |-> x.started]
      /\ proc = [q \in Processes |-> proc[q]]
    BY DEF BaseInv, ProcsInv, ProcKept, IsProc
<1>3. T1[p] = x1
    BY <1>2
<1>4. proc' = [T1 EXCEPT ![p] = y]
    <2> HIDE DEF T1, x1
    <2> QED BY <1>1, <1>3
<1>5. proc' = [proc EXCEPT ![p] = y]
    <2>1. T1 = [proc EXCEPT ![p] = x1]
        OBVIOUS
    <2> HIDE DEF T1, x1, y
    <2>2. [[proc EXCEPT ![p] = x1] EXCEPT ![p] = y] = [proc EXCEPT ![p] = y]
        BY <1>2
    <2> QED BY <1>4, <2>1, <2>2
<1>6. x1 = [pc |-> "idle", on |-> x.on, started |-> x.started]
    <2> HIDE DEF x
    <2> QED BY <1>2
<1>7. y = [pc |-> "idle", on |-> x.on, started |-> 0]
    <2> HIDE DEF x, x1
    <2> QED BY <1>6
<1> HIDE DEF y
<1> QED BY <1>5, <1>7 DEF Ready

\* A start resolves markers at its own start.
LEMMA ResolvingAt ==
    ASSUME BaseInv, NEW p \in Processes, ResolveMarkers(p), NEW r \in Resv
    PROVE  resv'[r] = resv[r] \/ Resolving(resv[r], resv'[r], proc[p].started)
<1> DEFINE at == proc[p].started
           stale(w) == w.pending # NoTime /\ w.pending < at
<1>1. resv' = [q \in Resv |-> IF stale(resv[q]) THEN ResolvedRow(resv[q], at) ELSE resv[q]]
    BY Zenon DEF ResolveMarkers, ResolvedRow
<1>2. CASE stale(resv[r])
    <2>1. resv'[r] = ResolvedRow(resv[r], at)
        BY <1>1, <1>2
    <2>2. Resolving(resv[r], ResolvedRow(resv[r], at), at)
        BY <1>2, RowShape, ResolvedPut
    <2> QED BY <2>1, <2>2
<1>3. CASE ~stale(resv[r])
    BY <1>1, <1>3
<1> QED BY <1>2, <1>3

\* Processes whose start has not resolved the markers yet.  A smoke resolves none.
Away == {p \in Processes : proc[p].pc = "boot" \/ (proc[p].pc = "down" /\ p \in Pollers)}
\* Losses that some start has answered.
Answered == faults - Cardinality(Away)
AwayInv == IsFiniteSet(Away) /\ faults \in Nat /\ Cardinality(Away) <= faults

\* All a step does to them.
Resolves == \E p \in Processes : ResolveMarkers(p)
AwayStep ==
    \/ Away' = Away /\ faults' = faults /\ ~Resolves
    \/ /\ \E p \in Processes : Away' \in SUBSET (Away \union {p})
       /\ faults' = faults + 1 /\ ~Resolves
    \/ (\E p \in Away : Away' = Away \ {p}) /\ faults' = faults

\* A process that resolves markers leaves boot for idle.
LEMMA ResolvesOne ==
    ASSUME BaseInv, Resolves
    PROVE  \E p \in Processes : proc[p].pc = "boot" /\ proc'[p].pc = "idle"
<1>1. PICK p \in Processes : ResolveMarkers(p)
    BY DEF Resolves
<1>2. proc[p].pc = "boot"
    BY <1>1, Zenon DEF ResolveMarkers
<1>3. proc' = [proc EXCEPT ![p] = Ready(p)] /\ proc = [q \in Processes |-> proc[q]]
    BY <1>1, ResolveIs DEF BaseInv, ProcsInv
<1>4. proc'[p].pc = "idle"
    BY <1>3 DEF Ready
<1> QED BY <1>2, <1>4

Gets(p, y) == \A q \in Processes : proc'[q] = IF q = p THEN y ELSE proc[q]
LEMMA OneAway ==
    ASSUME BaseInv, NEW p \in Processes, NEW y, proc' = [proc EXCEPT ![p] = y]
    PROVE  Gets(p, y) /\ Away' \in SUBSET (Away \union {p})
<1>1. proc = [q \in Processes |-> proc[q]]
    BY DEF BaseInv, ProcsInv
<1>2. \A q \in Processes : proc'[q] = IF q = p THEN y ELSE proc[q]
    BY <1>1
<1> QED BY <1>2 DEF Away, Gets

LEMMA GotoAway ==
    ASSUME BaseInv, NEW p \in Processes, NEW pc, NEW r, Goto(p, pc, r), UNCHANGED faults,
           pc \notin {"boot", "down"}, proc[p].pc \notin {"boot", "down"}
    PROVE  AwayStep
<1> DEFINE y == At(proc[p], pc, r)
<1>1. proc' = [proc EXCEPT ![p] = y]
    BY GotoIs
<1>2. y.pc = pc
    BY DEF At
<1> HIDE DEF y
<1>3. \A q \in Processes : proc'[q].pc = IF q = p THEN pc ELSE proc[q].pc
    <2>1. Gets(p, y)
        BY <1>1, OneAway, Zenon
    <2> QED BY <1>2, <2>1 DEF Gets
<1>4. Away' = Away
    BY <1>3 DEF Away
<1>5. ~Resolves
    BY <1>3, ResolvesOne
<1> QED BY <1>4, <1>5 DEF AwayStep

LEMMA QuietAway ==
    ASSUME BaseInv, UNCHANGED <<proc, faults>>
    PROVE  AwayStep
<1>1. Away' = Away
    BY DEF Away
<1>2. ~Resolves
    BY ResolvesOne
<1> QED BY <1>1, <1>2 DEF AwayStep

LEMMA LostAway ==
    ASSUME BaseInv, NEW p \in Processes, Lose(p) \/ Boot(p) \/ ResolveMarkers(p)
    PROVE  AwayStep
<1>1. CASE Lose(p)
    <2> DEFINE y == At(proc[p], "down", proc[p].on)
    <2>1. proc' = [proc EXCEPT ![p] = y]
        BY <1>1, LoseIs
    <2>2. y.pc = "down"
        BY DEF At
    <2> HIDE DEF y
    <2>3. \A q \in Processes : proc'[q].pc = IF q = p THEN "down" ELSE proc[q].pc
        <3>1. Gets(p, y)
            BY <2>1, OneAway, Zenon
        <3> QED BY <2>2, <3>1 DEF Gets
    <2>4. ~Resolves
        BY <2>3, ResolvesOne
    <2>5. faults' = faults + 1
        BY <1>1 DEF Lose
    <2>6. Away' \in SUBSET (Away \union {p})
        BY <2>1, OneAway
    <2> QED BY <2>4, <2>5, <2>6 DEF AwayStep
<1>2. CASE Boot(p)
    <2>1. \A q \in Processes :
             proc'[q].pc = IF q # p THEN proc[q].pc ELSE IF p \in Pollers THEN "boot" ELSE "idle"
        <3>1. CASE p \in Pollers
            <4> DEFINE y == Booted(p)
            <4>1. proc' = [proc EXCEPT ![p] = y]
                BY <1>2, <3>1, BootIs
            <4>2. y.pc = "boot"
                BY DEF Booted
            <4> HIDE DEF y
            <4>3. Gets(p, y)
                BY <4>1, OneAway, Zenon
            <4> QED BY <3>1, <4>2, <4>3 DEF Gets
        <3>2. CASE p \notin Pollers
            <4> DEFINE y == At(proc[p], "idle", proc[p].on)
            <4>1. proc' = [proc EXCEPT ![p] = y]
                BY <1>2, <3>2, BootIs
            <4>2. y.pc = "idle"
                BY DEF At
            <4> HIDE DEF y
            <4>3. Gets(p, y)
                BY <4>1, OneAway, Zenon
            <4> QED BY <3>2, <4>2, <4>3 DEF Gets
        <3> QED BY <3>1, <3>2
    <2>2. proc[p].pc = "down" /\ faults' = faults
        BY <1>2 DEF Boot
    <2>3. Away' = Away
        BY <2>1, <2>2 DEF Away
    <2>4. ~Resolves
        BY <2>1, <2>2, ResolvesOne
    <2> QED BY <2>2, <2>3, <2>4 DEF AwayStep
<1>3. CASE ResolveMarkers(p)
    <2> DEFINE y == Ready(p)
    <2>1. proc' = [proc EXCEPT ![p] = y]
        BY <1>3, ResolveIs
    <2>2. y.pc = "idle"
        BY DEF Ready
    <2> HIDE DEF y
    <2>3. \A q \in Processes : proc'[q].pc = IF q = p THEN "idle" ELSE proc[q].pc
        <3>1. Gets(p, y)
            BY <2>1, OneAway, Zenon
        <3> QED BY <2>2, <3>1 DEF Gets
    <2>4. proc[p].pc = "boot" /\ faults' = faults
        BY <1>3, Zenon DEF ResolveMarkers
    <2>5. p \in Away /\ Away' = Away \ {p}
        BY <2>3, <2>4 DEF Away
    <2> QED BY <2>4, <2>5 DEF AwayStep
<1> QED BY <1>1, <1>2, <1>3

LEMMA AwaySteps == BaseInv /\ [Next]_vars => AwayStep
<1> SUFFICES ASSUME BaseInv, [Next]_vars
             PROVE  AwayStep
    OBVIOUS
<1>1. CASE UNCHANGED vars \/ OwnerNext \/ Tick
    <2>1. UNCHANGED <<proc, faults>>
        BY <1>1, Zenon DEF vars, OwnerNext, ClaimOrigin, ClearLatch, ChangeAnchor, Tick
    <2> QED BY <2>1, QuietAway
<1>2. ASSUME NEW r \in Resv, RowNext(r)
      PROVE  AwayStep
    <2>1. UNCHANGED <<proc, faults>>
        BY <1>2, Zenon DEF RowNext, Reserve, Attach, ReleaseUnattached, SettleOperator, Charge,
                           WorkCompletes
    <2> QED BY <2>1, QuietAway
<1>3. ASSUME NEW p \in Processes, ProcNext(p)
      PROVE  AwayStep
    <2>1. CASE \E r \in Resv : PlanSettles(p, r)
        <3>1. UNCHANGED <<proc, faults>>
            BY <2>1, Zenon DEF PlanSettles
        <3> QED BY <3>1, QuietAway
    <2>2. CASE Lose(p) \/ Boot(p) \/ ResolveMarkers(p)
        BY <2>2, LostAway
    <2>4. CASE SelectMonitoring(p) \/ \E r \in Resv : BeginMonitoring(p, r)
        <3>1. CASE Quiet
            BY <3>1, QuietAway DEF Quiet
        <3>2. ASSUME NEW r \in Resv, ReadBegun(p, r)
              PROVE  AwayStep
            BY <3>2, GotoAway DEF ReadBegun
        <3> QED BY <2>4, <3>1, <3>2, MonitoringBegins
    <2>3. CASE ~(\/ Lose(p) \/ Boot(p) \/ ResolveMarkers(p) \/ \E r \in Resv : PlanSettles(p, r)
                 \/ SelectMonitoring(p) \/ \E r \in Resv : BeginMonitoring(p, r))
        <3>1. /\ \/ proc[p].pc = "idle" \/ proc[p].pc = "read" \/ proc[p].pc = "read_sent"
                 \/ proc[p].pc = "monitor" \/ proc[p].pc = "monitor_sent"
              /\ UNCHANGED faults
              /\ \E r : \/ Goto(p, "idle", r) \/ Goto(p, "read", r) \/ Goto(p, "monitor", r)
                        \/ Goto(p, "read_sent", r) \/ Goto(p, "monitor_sent", r)
            BY <1>3, <2>3, Zenon DEF ProcNext, PlanRead, Send, RecordUsage, ReadFails,
               CompleteMonitoring, MonitoringFails, Idle
        <3> QED BY <3>1, GotoAway
    <2> QED BY <2>1, <2>2, <2>3, <2>4
<1> QED BY <1>1, <1>2, <1>3 DEF Next

\* The answered losses never decrease, and a start that resolves markers answers one.
LEMMA AnsweredGrows ==
    ASSUME AwayInv, AwayStep
    PROVE  /\ AwayInv' /\ Answered \in Nat /\ Answered' \in Nat /\ Answered <= Answered'
           /\ Resolves => Answered + 1 <= Answered'
<1>1. Cardinality(Away) \in Nat /\ IsFiniteSet(Away) /\ faults \in Nat /\ Cardinality(Away) <= faults
    BY FS_CardinalityType DEF AwayInv
<1>2. CASE Away' = Away /\ faults' = faults /\ ~Resolves
    BY <1>1, <1>2 DEF AwayInv, Answered
<1>3. CASE /\ \E p \in Processes : Away' \in SUBSET (Away \union {p})
           /\ faults' = faults + 1 /\ ~Resolves
    <2>1. PICK p \in Processes : Away' \in SUBSET (Away \union {p})
        BY <1>3
    <2>2. /\ IsFiniteSet(Away \union {p})
          /\ Cardinality(Away \union {p}) \in Nat
          /\ Cardinality(Away \union {p}) <= Cardinality(Away) + 1
        <3>1. CASE p \in Away
            <4> DEFINE A == Away \union {p}
            <4>1. A = Away
                BY <3>1
            <4> HIDE DEF A
            <4>2. IsFiniteSet(A) /\ Cardinality(A) \in Nat /\ Cardinality(A) <= Cardinality(Away) + 1
                BY <1>1, <4>1
            <4> QED BY <4>2 DEF A
        <3>2. CASE p \notin Away
            <4>1. IsFiniteSet(Away \union {p}) /\ Cardinality(Away \union {p}) = Cardinality(Away) + 1
                BY <1>1, <3>2, FS_AddElement
            <4> QED BY <1>1, <4>1
        <3> QED BY <3>1, <3>2
    <2>3. /\ IsFiniteSet(Away') /\ Cardinality(Away') \in Nat
          /\ Cardinality(Away') <= Cardinality(Away \union {p})
        BY <2>1, <2>2, FS_Subset, FS_CardinalityType
    <2> QED BY <1>1, <1>3, <2>2, <2>3 DEF AwayInv, Answered
<1>4. CASE (\E p \in Away : Away' = Away \ {p}) /\ faults' = faults
    <2>1. PICK p \in Away : Away' = Away \ {p}
        BY <1>4
    <2>2. /\ IsFiniteSet(Away') /\ Cardinality(Away') \in Nat
          /\ Cardinality(Away') = Cardinality(Away) - 1
        BY <1>1, <2>1, FS_RemoveElement, FS_CardinalityType
    <2> QED BY <1>1, <1>4, <2>2 DEF AwayInv, Answered
<1> QED BY <1>2, <1>3, <1>4 DEF AwayStep
-----------------------------------------------------------------------------
(* Periodic reads leave room for the closing read.                         *)

\* When the k-th periodic read is due.
Due(w, k) == w.reconciledAt + k * Spacing(w)
LEMMA DueType ==
    ASSUME NEW w, w.until \in Int, w.reconciledAt \in Int, NEW k \in Int
    PROVE  /\ Due(w, k) \in Int /\ Due(w, k + 1) = Due(w, k) + Spacing(w)
           /\ Spacing(w) \in Nat /\ Due(w, 0) = w.reconciledAt
<1> DEFINE s == Spacing(w)
<1>1. s \in Nat
    BY SpacingRight DEF SpacingIsRight
<1> HIDE DEF s
<1>2. k * s \in Int /\ (k + 1) * s = k * s + s /\ 0 * s = 0
    BY <1>1, SMT
<1> DEFINE a == k * s
           b == (k + 1) * s
           z == 0 * s
<1>3. Due(w, k) = w.reconciledAt + a /\ Due(w, k + 1) = w.reconciledAt + b
      /\ Due(w, 0) = w.reconciledAt + z
    BY DEF Due, s
<1>4. a \in Int /\ b = a + s /\ z = 0
    BY <1>2
<1> HIDE DEF a, b, z
<1> QED BY <1>1, <1>3, <1>4 DEF s

LEMMA DueMonotone ==
    ASSUME NEW w, w.until \in Int, w.reconciledAt \in Int, NEW j \in Int, NEW k \in Int, j <= k
    PROVE  Due(w, j) <= Due(w, k)
<1> DEFINE s == Spacing(w)
<1>1. s \in Nat
    BY SpacingRight DEF SpacingIsRight
<1> HIDE DEF s
<1>2. j * s \in Int /\ k * s \in Int /\ j * s <= k * s
    BY <1>1, SMT
<1> DEFINE a == j * s
           b == k * s
<1>3. Due(w, j) = w.reconciledAt + a /\ Due(w, k) = w.reconciledAt + b
    BY DEF Due, s
<1>4. a \in Int /\ b \in Int /\ a <= b
    BY <1>2
<1> HIDE DEF a, b
<1> QED BY <1>3, <1>4

LEMMA DueOf ==
    ASSUME NEW v, NEW w, v.until = w.until, v.reconciledAt = w.reconciledAt, NEW k
    PROVE  Due(v, k) = Due(w, k)
BY DEF Due, Spacing

\* Until the deadline, at the instant t with n losses answered: reads begin no
\* earlier than they are due, but for one for each of those, and so does the next.
Timely(w, n, t) ==
    /\ Due(w, w.corrReads - n) <= t
    /\ \/ w.nextRead >= w.until
       \/ w.pending # NoTime /\ Due(w, w.corrReads - n) <= w.nextRead
       \/ w.pending = NoTime /\ Due(w, w.corrReads - n + 1) <= w.nextRead
Patient(w, n, t) ==
    /\ w.status # "reconciled" => w.corrReads = 0
    /\ w.status = "reconciled" /\ w.until # NoTime /\ t < w.until => Timely(w, n, t)

RowNumbers(w) ==
    /\ w.until \in Int /\ w.reconciledAt \in Int /\ w.corrReads \in Int /\ w.nextRead \in Int
LEMMA RowNumbersType ==
    ASSUME NEW w, NEW t \in Nat, RowType(w, t)
    PROVE  RowNumbers(w)
BY Amounts DEF RowType, RowNumbers, Past, NoTime

LEMMA PatientMore ==
    ASSUME NEW w, RowNumbers(w), NEW n \in Nat, NEW m \in Nat, n <= m,
           NEW t \in Nat, NEW s \in Nat, t <= s, Patient(w, n, t)
    PROVE  Patient(w, m, s)
<1> SUFFICES ASSUME w.status = "reconciled", w.until # NoTime, s < w.until
             PROVE  Timely(w, m, s)
    BY DEF Patient
<1> DEFINE k == w.corrReads - n
           j == w.corrReads - m
<1>1. w.until \in Int /\ w.reconciledAt \in Int /\ w.nextRead \in Int
    BY DEF RowNumbers
<1>2. k \in Int /\ j \in Int /\ j <= k /\ j + 1 <= k + 1 /\ k + 1 \in Int /\ j + 1 \in Int
    BY DEF RowNumbers
<1>3. t < w.until
    BY <1>1
<1>4. Timely(w, n, t)
    BY <1>3 DEF Patient
<1>5. /\ Due(w, k) <= t
      /\ \/ w.nextRead >= w.until
         \/ w.pending # NoTime /\ Due(w, k) <= w.nextRead
         \/ w.pending = NoTime /\ Due(w, k + 1) <= w.nextRead
    BY <1>4 DEF Timely
<1> HIDE DEF k, j
<1>6. /\ Due(w, j) <= Due(w, k) /\ Due(w, j + 1) <= Due(w, k + 1)
      /\ Due(w, j) \in Int /\ Due(w, k) \in Int /\ Due(w, j + 1) \in Int /\ Due(w, k + 1) \in Int
    BY <1>1, <1>2, DueMonotone, DueType
<1>7. Due(w, j) <= s
    BY <1>5, <1>6
<1>8. \/ w.nextRead >= w.until
      \/ w.pending # NoTime /\ Due(w, j) <= w.nextRead
      \/ w.pending = NoTime /\ Due(w, j + 1) <= w.nextRead
    BY <1>1, <1>5, <1>6
<1> QED BY <1>7, <1>8 DEF Timely, j

LEMMA PatientFrame ==
    ASSUME NEW w, NEW v, NEW n, NEW t, Patient(w, n, t), v.status = w.status,
           v.until = w.until, v.reconciledAt = w.reconciledAt, v.corrReads = w.corrReads,
           v.pending = w.pending, v.nextRead = w.nextRead
    PROVE  Patient(v, n, t)
<1>1. \A k : Due(v, k) = Due(w, k)
    BY DueOf
<1> QED BY <1>1 DEF Patient, Timely

\* What an answer, or the settlement itself, sets the next read to.
LEMMA NextReadDue ==
    ASSUME now \in Nat, NEW w, w.until \in Int, w.reconciledAt \in Int, now < w.until,
           NEW k \in Int, Due(w, k) <= now
    PROVE  NextRead(w) >= w.until \/ Due(w, k + 1) <= NextRead(w)
<1>1. NextRead(w) = Min({now + Spacing(w), w.until})
    BY DEF NextRead
<1>2. Due(w, k + 1) = Due(w, k) + Spacing(w) /\ Spacing(w) \in Nat /\ Due(w, k) \in Int
    BY DueType
<1>3. NextRead(w) = IF now + Spacing(w) <= w.until THEN now + Spacing(w) ELSE w.until
    BY <1>1, <1>2, MinOfTwo
<1> QED BY <1>2, <1>3

LEMMA SettlingPatient ==
    ASSUME now \in Nat, NEW w, NEW v, NEW d, RowType(w, now), RowKept(w, d), RowType(v, now),
           NEW n \in Nat, Patient(w, n, now), Settling(w, v)
    PROVE  Patient(v, n, now)
<1>1. Keeps(v, w, SettledFields)
    BY DEF Settling
<1>2. v.corrReads = w.corrReads /\ v.pending = w.pending
    BY <1>1, FieldsOf DEF SettledFields
<1>3. w.status \in OpenStatus
    BY DEF Settling, Settles
<1>4. v.corrReads = 0 /\ v.pending = NoTime
    BY <1>2, <1>3 DEF Patient, RowKept, OpenStatus
<1>5. v.status = "reconciled" /\ v.reconciledAt = now /\ v.nextRead = NextRead(v)
    BY DEF Settling
<1>6. RowNumbers(v)
    BY RowNumbersType
<1> SUFFICES ASSUME now < v.until
             PROVE  Timely(v, n, now)
    BY <1>5 DEF Patient
<1> DEFINE k == v.corrReads - n
<1>7. k \in Int /\ k <= 0
    BY <1>4
<1>8. v.corrReads - n + 1 = k + 1
    OBVIOUS
<1> HIDE DEF k
<1>9. Due(v, k) <= Due(v, 0) /\ Due(v, 0) = now
    <2>1. v.until \in Int /\ v.reconciledAt \in Int /\ 0 \in Int
        BY <1>6 DEF RowNumbers
    <2>2. Due(v, k) <= Due(v, 0)
        BY <1>7, <2>1, DueMonotone
    <2>3. Due(v, 0) = v.reconciledAt
        BY <2>1, DueType
    <2> QED BY <1>5, <2>2, <2>3
<1>10. v.nextRead >= v.until \/ Due(v, k + 1) <= v.nextRead
    BY <1>5, <1>6, <1>7, <1>9, NextReadDue DEF RowNumbers
<1> QED BY <1>4, <1>8, <1>9, <1>10 DEF Timely, k

LEMMA AnsweredPatient ==
    ASSUME now \in Nat, NEW w, NEW v, RowType(w, now),
           NEW n \in Nat, Patient(w, n, now), Completing(w, v) \/ Failing(w, v)
    PROVE  Patient(v, n, now)
<1>1. /\ w.status = "reconciled" /\ w.until # NoTime
      /\ Keeps(v, w, CompletedFields) \/ Keeps(v, w, {"pending", "monLast", "nextRead"})
      /\ v.pending = NoTime
      /\ now < w.until => v.nextRead = NextRead(w)
    <2>1. RowNumbers(w)
        BY RowNumbersType
    <2>2. CASE Completing(w, v)
        <3>1. now >= w.until => ~(now < w.until)
            BY <2>1 DEF RowNumbers
        <3> QED BY <2>2, <3>1 DEF Completing
    <2>3. CASE Failing(w, v)
        BY <2>3 DEF Failing
    <2> QED BY <2>2, <2>3
<1>2. /\ v.status = w.status /\ v.corrReads = w.corrReads /\ v.until = w.until
      /\ v.reconciledAt = w.reconciledAt
    <2>1. CASE Keeps(v, w, CompletedFields)
        BY <2>1, FieldsOf DEF CompletedFields
    <2>2. CASE Keeps(v, w, {"pending", "monLast", "nextRead"})
        BY <2>2, FieldsOf
    <2> QED BY <1>1, <2>1, <2>2
<1> SUFFICES ASSUME now < v.until
             PROVE  Timely(v, n, now)
    BY <1>1, <1>2 DEF Patient
<1> DEFINE k == w.corrReads - n
<1>3. RowNumbers(w)
    BY RowNumbersType
<1>4. k \in Int
    BY <1>3 DEF RowNumbers
<1>5. Due(w, k) <= now
    BY <1>1, <1>2 DEF Patient, Timely
<1>6. v.corrReads - n = k /\ v.corrReads - n + 1 = k + 1
    BY <1>2
<1> HIDE DEF k
<1>7. NextRead(w) >= w.until \/ Due(w, k + 1) <= NextRead(w)
    BY <1>2, <1>3, <1>4, <1>5, NextReadDue DEF RowNumbers
<1>8. Due(v, k) = Due(w, k) /\ Due(v, k + 1) = Due(w, k + 1)
    BY <1>2, DueOf
<1> QED BY <1>1, <1>2, <1>5, <1>6, <1>7, <1>8 DEF Timely

LEMMA BeginningPatient ==
    ASSUME now \in Nat, NEW w, NEW v, RowType(w, now),
           NEW n \in Nat, Patient(w, n, now), Beginning(w, v), w.nextRead <= now
    PROVE  Patient(v, n, now)
<1>1. Keeps(v, w, {"corrReads", "pending", "monLast"})
    BY DEF Beginning
<1>2. /\ w.status = "reconciled" /\ w.until # NoTime /\ w.pending = NoTime
      /\ v.corrReads = w.corrReads + 1 /\ v.pending = now
    BY DEF Beginning
<1>3. /\ v.status = w.status /\ v.until = w.until /\ v.reconciledAt = w.reconciledAt
      /\ v.nextRead = w.nextRead
    BY <1>1, FieldsOf
<1> SUFFICES ASSUME now < v.until
             PROVE  Timely(v, n, now)
    BY <1>2, <1>3 DEF Patient
<1> DEFINE k == w.corrReads - n
<1>4. RowNumbers(w)
    BY RowNumbersType
<1>5. k \in Int /\ v.corrReads - n = k + 1
    BY <1>2, <1>4 DEF RowNumbers
<1>6. w.nextRead >= w.until \/ Due(w, k + 1) <= w.nextRead
    BY <1>2, <1>3 DEF Patient, Timely
<1> HIDE DEF k
<1>7. Due(w, k + 1) <= w.nextRead
    BY <1>2, <1>3, <1>4, <1>6 DEF RowNumbers
<1>8. Due(v, k + 1) = Due(w, k + 1) /\ Due(w, k + 1) \in Int
    BY <1>3, <1>4, <1>5, DueOf, DueType DEF RowNumbers
<1>9. Due(v, k + 1) <= now /\ Due(v, k + 1) <= v.nextRead
    BY <1>2, <1>3, <1>4, <1>7, <1>8 DEF RowNumbers
<1>10. v.pending # NoTime
    BY <1>2 DEF NoTime
<1> QED BY <1>5, <1>9, <1>10 DEF Timely

LEMMA ResolvingPatient ==
    ASSUME now \in Nat, NEW w, NEW v, NEW at, RowType(w, now),
           NEW n \in Nat, Patient(w, n, now), Resolving(w, v, at)
    PROVE  Patient(v, n + 1, now)
<1>1. Keeps(v, w, {"pending", "monLast"})
    BY DEF Resolving
<1>2. w.pending # NoTime /\ v.pending = NoTime
    BY DEF Resolving
<1>3. /\ v.status = w.status /\ v.until = w.until /\ v.reconciledAt = w.reconciledAt
      /\ v.nextRead = w.nextRead /\ v.corrReads = w.corrReads
    BY <1>1, FieldsOf
<1> SUFFICES ASSUME w.status = "reconciled", w.until # NoTime, now < w.until
             PROVE  Timely(v, n + 1, now)
    BY <1>3 DEF Patient
<1> DEFINE k == w.corrReads - n
           j == v.corrReads - (n + 1)
<1>4. RowNumbers(w)
    BY RowNumbersType
<1>5. k \in Int /\ j \in Int /\ j <= k /\ j + 1 = k
    BY <1>3, <1>4 DEF RowNumbers
<1>6. Due(w, k) <= now /\ (w.nextRead >= w.until \/ Due(w, k) <= w.nextRead)
    BY <1>2 DEF Patient, Timely
<1> HIDE DEF k
<1>7. Due(v, j) = Due(w, j) /\ Due(v, j + 1) = Due(w, k)
    BY <1>3, <1>5, DueOf
<1> HIDE DEF j
<1>8. Due(w, j) <= Due(w, k) /\ Due(w, j) \in Int /\ Due(w, k) \in Int
    BY <1>4, <1>5, DueMonotone, DueType DEF RowNumbers
<1>9. Due(v, j) <= now /\ (v.nextRead >= v.until \/ Due(v, j + 1) <= v.nextRead)
    BY <1>3, <1>6, <1>7, <1>8
<1> QED BY <1>2, <1>9 DEF Timely, j

LEMMA OpenPatient ==
    ASSUME NEW w, NEW v, NEW n, NEW t, Patient(w, n, t), w.status # "reconciled",
           v.status # "reconciled", v.corrReads = w.corrReads
    PROVE  Patient(v, n, t)
BY DEF Patient

LEMMA OtherPatient ==
    ASSUME now \in Time, NEW w, NEW v, NEW d \in Past(now), NEW e, RowType(w, now), RowKept(w, d),
           NEW n \in Nat, Patient(w, n, now), OtherMove(w, v, d, e)
    PROVE  Patient(v, n, now)
<1>1. now \in Nat
    BY Amounts DEF Time
<1>2. CASE v = w
    BY <1>2
<1>3. CASE Finishing(w, v)
    <2>1. Keeps(v, w, {"anchor"})
        BY <1>3 DEF Finishing
    <2>2. /\ v.status = w.status /\ v.until = w.until /\ v.reconciledAt = w.reconciledAt
          /\ v.corrReads = w.corrReads /\ v.pending = w.pending /\ v.nextRead = w.nextRead
        BY <2>1, FieldsOf
    <2> QED BY <2>2, PatientFrame
<1>4. CASE Admission(w, v)
    <2>1. Keeps(v, FreeRow, {"status", "class", "reservedAt", "mon"}) /\ v.status \in {"reserved", "denied"}
        BY <1>4 DEF Admission
    <2>2. v.corrReads = 0
        BY <2>1, FieldsOf DEF FreeRow
    <2> QED BY <2>1, <2>2 DEF Patient
<1>5. CASE Attaching(w, v)
    <2>1. Keeps(v, w, {"attached"}) /\ w.status \in OpenStatus
        BY <1>5 DEF Attaching
    <2>2. v.status = w.status /\ v.corrReads = w.corrReads
        BY <2>1, FieldsOf
    <2> QED BY <2>1, <2>2, OpenPatient DEF OpenStatus
<1>6. CASE Releasing(w, v)
    <2>1. Keeps(v, w, {"status"}) /\ w.status = "reserved" /\ v.status = "released"
        BY <1>6 DEF Releasing
    <2>2. v.corrReads = w.corrReads
        BY <2>1, FieldsOf
    <2> QED BY <2>1, <2>2, OpenPatient
<1>7. CASE OperatorSettling(w, v)
    <2>1. Keeps(v, w, OperatorFields) /\ w.class = "envelope" /\ v.status = "reconciled"
        BY <1>7 DEF OperatorSettling
    <2>2. v.until = w.until
        BY <2>1, FieldsOf DEF OperatorFields
    <2> QED BY <2>1, <2>2 DEF Patient, RowKept
<1>8. CASE Polling(w, v)
    <2>1. Keeps(v, w, {"polls"}) /\ w.status \in OpenStatus
        BY <1>8 DEF Polling
    <2>2. v.status = w.status /\ v.corrReads = w.corrReads
        BY <2>1, FieldsOf
    <2> QED BY <2>1, <2>2, OpenPatient DEF OpenStatus
<1>9. ASSUME NEW u, Seeing(w, u, d)
      PROVE  Patient(u, n, now)
    <2>1. Keeps(u, w, {"reads", "status", "anchor"}) /\ w.status \in OpenStatus /\ u.status \in OpenStatus
        BY <1>9 DEF Seeing
    <2>2. u.corrReads = w.corrReads
        BY <2>1, FieldsOf
    <2> QED BY <2>1, <2>2, OpenPatient DEF OpenStatus
<1>10. CASE Settling(w, v)
    <2>1. RowType(v, now)
        BY <1>10, SettlingMoves DEF Moved
    <2> QED BY <1>1, <1>10, <2>1, SettlingPatient
<1>11. CASE \E u : Seeing(w, u, d) /\ Settling(u, v)
    <2>1. PICK u : Seeing(w, u, d) /\ Settling(u, v)
        BY <1>11
    <2>2. RowType(u, now) /\ RowKept(u, d)
        BY <2>1, SeeingMoves DEF Moved
    <2>3. RowType(v, now)
        BY <2>1, <2>2, SettlingMoves DEF Moved
    <2>4. Patient(u, n, now)
        BY <1>9, <2>1
    <2> QED BY <1>1, <2>1, <2>2, <2>3, <2>4, SettlingPatient
<1>13. CASE Completing(w, v) \/ Failing(w, v)
    BY <1>1, <1>13, AnsweredPatient
<1> QED BY <1>2, <1>3, <1>4, <1>5, <1>6, <1>7, <1>8, <1>9, <1>10, <1>11, <1>13 DEF OtherMove

\* One process works: the poller, or a smoke while the poller is down.
OneProcess == \A p, q \in Processes : p = q

-----------------------------------------------------------------------------
(* With one process, a row it has selected for a read is still due when its *)
(* turn comes; begin_monitoring_read does not look at the due time again.   *)

\* The row r, selected by p: settled, due, and not the one p is reading.
Selected(p, r) ==
    /\ resv[r].status = "reconciled"
    /\ resv[r].nextRead <= now
    /\ proc[p].pc \in {"monitor", "monitor_sent"} => proc[p].on # r
ListInv ==
    /\ due = [p \in Processes |-> due[p]]
    /\ \A p \in Processes : due[p] \in SUBSET Resv
    /\ \A p \in Processes : \A r \in due[p] : Selected(p, r)

\* The process p has selected the row r and still has, and touches its due time
\* no more than anything else does.
LEMMA StaysSelected ==
    ASSUME BaseInv, RowsMove, NEW p \in Processes, NEW r \in Resv, Selected(p, r),
           resv'[r].nextRead = resv[r].nextRead,
           proc'[p].pc \in {"monitor", "monitor_sent"} => proc'[p].on # r
    PROVE  Selected(p, r)'
<1>1. RowStays(resv[r], resv'[r])
    BY RowsKept DEF BaseInv
<1>2. resv'[r].status = "reconciled"
    BY <1>1 DEF Selected, RowStays
<1>3. /\ now \in Int /\ now' \in Int /\ now <= now' /\ resv[r].nextRead \in Int
      /\ resv[r].nextRead <= now
    BY Amounts DEF RowsMove, BaseInv, RowsInv, RowType, Time, Selected
<1>4. resv'[r].nextRead <= now'
    BY <1>3
<1> QED BY <1>2, <1>4 DEF Selected

\* A step that changes another row, or one that is not settled, leaves r alone.
LEMMA RowUntouched ==
    ASSUME BaseInv, NEW r \in Resv, resv[r].status = "reconciled",
           NEW q \in Resv, NEW v, resv' = [resv EXCEPT ![q] = v],
           q # r \/ resv[q].status # "reconciled"
    PROVE  resv'[r] = resv[r]
BY DEF BaseInv, RowsInv

\* Only selector 4 touches settled rows.
LEMMA RowNextUntouched ==
    ASSUME BaseInv, NEW r \in Resv, resv[r].status = "reconciled",
           NEW q \in Resv, RowNext(q)
    PROVE  resv'[r] = resv[r]
<1>1. CASE \E class \in Classes : Reserve(q, class)
    <2>1. PICK class \in Classes : Reserve(q, class)
        BY <1>1
    <2>2. resv[q].status = "free" /\ \E v : resv' = [resv EXCEPT ![q] = v]
        BY <2>1, Zenon DEF Reserve
    <2> QED BY <2>2, RowUntouched
<1>2. CASE Attach(q) \/ ReleaseUnattached(q) \/ SettleOperator(q)
    <2>1. resv[q].status \in OpenStatus
        BY <1>2 DEF Attach, ReleaseUnattached, SettleOperator, OpenStatus
    <2>2. \E v : resv' = [resv EXCEPT ![q] = v]
        <3>1. CASE Attach(q)
            <4>1. resv' = [resv EXCEPT ![q] = [resv[q] EXCEPT !.attached = TRUE]]
                BY <3>1 DEF Attach
            <4> QED BY <4>1
        <3>2. CASE ReleaseUnattached(q)
            <4>1. resv' = [resv EXCEPT ![q] = [resv[q] EXCEPT !.status = "released"]]
                BY <3>2 DEF ReleaseUnattached
            <4> QED BY <4>1
        <3>3. CASE SettleOperator(q)
            BY <3>3 DEF SettleOperator
        <3> QED BY <1>2, <3>1, <3>2, <3>3
    <2> QED BY <2>1, <2>2, RowUntouched DEF OpenStatus
<1>3. CASE Charge(q)
    BY <1>3, Zenon DEF Charge
<1>4. CASE WorkCompletes(q)
    <2>1. resv[q].attached /\ done[q] = NoTime
        BY <1>4, Zenon DEF WorkCompletes
    <2>2. resv[q].status # "reconciled"
        BY <2>1, RowShape DEF RowKept
    <2>3. resv' = resv \/ resv' = [resv EXCEPT ![q] = [resv[q] EXCEPT !.anchor = now]]
        BY <1>4 DEF WorkCompletes
    <2> QED BY <2>2, <2>3, RowUntouched
<1> QED BY <1>1, <1>2, <1>3, <1>4 DEF RowNext

LEMMA UsageUntouched ==
    ASSUME BaseInv, NEW r \in Resv, resv[r].status = "reconciled", NEW p \in Processes,
           \/ \E q \in Resv : PlanSettles(p, q) \/ PlanRead(p, q)
           \/ \E total, e : RecordUsage(p, total, e)
    PROVE  resv'[r] = resv[r]
<1>1. ASSUME NEW q \in Resv, PlanSettles(p, q)
      PROVE  resv'[r] = resv[r]
    <2>1. resv[q].status \in OpenStatus /\ \E v : resv' = [resv EXCEPT ![q] = v]
        BY <1>1, Zenon DEF PlanSettles, Settles, TrySettle
    <2> QED BY <2>1, RowUntouched DEF OpenStatus
<1>2. ASSUME NEW q \in Resv, PlanRead(p, q)
      PROVE  resv'[r] = resv[r]
    <2>1. /\ resv[q].status \in OpenStatus
          /\ resv' = [resv EXCEPT ![q] = [resv[q] EXCEPT !.polls = resv[q].polls + 1]]
        BY <1>2 DEF PlanRead
    <2> QED BY <2>1, RowUntouched DEF OpenStatus
<1>3. ASSUME NEW total, NEW e, RecordUsage(p, total, e)
      PROVE  resv'[r] = resv[r]
    <2> DEFINE q == proc[p].on
    <2>1. q \in Resv
        BY DEF BaseInv, ProcsInv, ProcKept
    <2>2. \/ UNCHANGED resv
          \/ resv[q].status \in OpenStatus /\ \E v : resv' = [resv EXCEPT ![q] = v]
        BY <1>3, Zenon DEF RecordUsage, TrySettle
    <2> QED BY <2>1, <2>2, RowUntouched DEF OpenStatus
<1> QED BY <1>1, <1>2, <1>3

LEMMA ProcIs ==
    ASSUME BaseInv, NEW p \in Processes, NEW y, proc' = [proc EXCEPT ![p] = y]
    PROVE  proc'[p] = y
BY DEF BaseInv, ProcsInv

\* What the only process does keeps its list.
LEMMA ListSteps ==
    ASSUME BaseInv, RowsMove, ListInv, NEW p \in Processes, ProcNext(p),
           NEW r \in due'[p]
    PROVE  Selected(p, r)'
<1> DEFINE x == proc[p]
<1>1. due = [q \in Processes |-> due[q]] /\ due[p] \in SUBSET Resv
    BY DEF ListInv
<1>2. ASSUME r \in due[p]
      PROVE  r \in Resv /\ Selected(p, r) /\ resv[r].status = "reconciled"
    BY <1>1, <1>2 DEF ListInv, Selected
<1>3. ASSUME UNCHANGED due
      PROVE  r \in Resv /\ Selected(p, r) /\ resv[r].status = "reconciled"
    BY <1>2, <1>3
<1>4. ASSUME NEW pc, NEW q, Goto(p, pc, q)
      PROVE  proc'[p].pc = pc /\ proc'[p].on = q
    <2>1. proc'[p] = At(x, pc, q)
        BY <1>4, GotoIs, ProcIs
    <2> QED BY <2>1 DEF At
<1>5. CASE \E q \in Resv : PlanSettles(p, q) \/ PlanRead(p, q)
    <2>1. UNCHANGED due /\ (UNCHANGED proc \/ \E q : Goto(p, "read", q))
        BY <1>5, Zenon DEF PlanSettles, PlanRead
    <2>2. resv'[r] = resv[r]
        BY <1>3, <1>5, <2>1, UsageUntouched
    <2>3. proc'[p].pc \in {"monitor", "monitor_sent"} => proc'[p].on # r
        BY <1>3, <1>4, <2>1 DEF Selected
    <2> QED BY <1>3, <2>1, <2>2, <2>3, StaysSelected
<1>6. CASE \/ \E total \in Figures \union {NoFigure}, e \in {FALSE, Excess} :
                 RecordUsage(p, total, e)
           \/ \E e \in {FALSE, Excess} : ReadFails(p, e)
    <2>1. UNCHANGED due /\ Goto(p, "idle", x.on)
        BY <1>6, Zenon DEF RecordUsage, ReadFails
    <2>2. resv'[r] = resv[r]
        <3>1. CASE \E e \in {FALSE, Excess} : ReadFails(p, e)
            BY <3>1, Zenon DEF ReadFails
        <3> QED BY <1>3, <1>6, <2>1, <3>1, UsageUntouched
    <2>3. proc'[p].pc = "idle"
        BY <1>4, <2>1
    <2> QED BY <1>3, <2>1, <2>2, <2>3, StaysSelected
<1>7. CASE \/ \E total \in Figures, e \in {FALSE, Excess} : CompleteMonitoring(p, total, e)
           \/ \E e \in {FALSE, Excess} : MonitoringFails(p, e)
    <2>1. UNCHANGED due /\ Goto(p, "idle", x.on) /\ x.pc = "monitor_sent"
          /\ \E v : resv' = [resv EXCEPT ![x.on] = v]
        BY <1>7, Zenon DEF CompleteMonitoring, MonitoringFails
    <2>2. x.on # r /\ x.on \in Resv
        BY <1>3, <2>1 DEF Selected, BaseInv, ProcsInv, ProcKept
    <2>3. resv'[r] = resv[r]
        BY <1>3, <2>1, <2>2, RowUntouched
    <2>4. proc'[p].pc = "idle"
        BY <1>4, <2>1
    <2> QED BY <1>3, <2>1, <2>3, <2>4, StaysSelected
<1>8. CASE SelectMonitoring(p)
    <2>1. due' = [due EXCEPT ![p] = {q \in Resv : Readable(resv[q]) /\ resv[q].nextRead <= now}]
          /\ UNCHANGED <<now, resv, proc>> /\ x.pc = "idle"
        BY <1>8, Zenon DEF SelectMonitoring, Idle
    <2>2. due'[p] = {q \in Resv : Readable(resv[q]) /\ resv[q].nextRead <= now}
        BY <1>1, <2>1
    <2>3. Readable(resv[r]) /\ resv[r].nextRead <= now
        BY <2>2
    <2> QED BY <2>1, <2>2, <2>3 DEF Selected, Readable
<1>9. CASE \E q \in Resv : BeginMonitoring(p, q)
    <2>1. PICK q \in Resv : BeginMonitoring(p, q)
        BY <1>9
    <2>2. /\ due' = [due EXCEPT ![p] = due[p] \ {q}] /\ x.pc = "idle"
          /\ \/ UNCHANGED <<resv, proc>>
             \/ Goto(p, "monitor", q) /\ \E v : resv' = [resv EXCEPT ![q] = v]
        BY <2>1 DEF BeginMonitoring
    <2>3. due'[p] = due[p] \ {q}
        BY <1>1, <2>2
    <2>4. r \in Resv /\ Selected(p, r) /\ resv[r].status = "reconciled" /\ q # r
        BY <1>2, <2>3
    <2>5. resv'[r] = resv[r]
        BY <2>2, <2>4, RowUntouched
    <2>6. proc'[p].pc \in {"monitor", "monitor_sent"} => proc'[p].on # r
        BY <1>4, <2>2, <2>4
    <2> QED BY <1>1, <2>2, <2>3, <2>4, <2>5, <2>6, StaysSelected
<1>10. CASE Send(p)
    <2>1. UNCHANGED <<due, resv>>
          /\ \/ Goto(p, "read_sent", x.on)
             \/ x.pc = "monitor" /\ Goto(p, "monitor_sent", x.on)
        BY <1>10, Zenon DEF Send
    <2>2. proc'[p].pc \in {"monitor", "monitor_sent"} => proc'[p].on # r
        BY <1>3, <1>4, <2>1 DEF Selected
    <2> QED BY <1>3, <2>1, <2>2, StaysSelected
<1>11. CASE Lose(p)
    <2>1. due' = [due EXCEPT ![p] = {}]
        BY <1>11, Zenon DEF Lose
    <2>2. due'[p] = {}
        BY <1>1, <2>1
    <2> QED BY <2>2
<1>12. CASE Boot(p)
    <2>1. UNCHANGED <<due, resv>>
        BY <1>12, Zenon DEF Boot
    <2>2. proc'[p] = IF p \in Pollers THEN Booted(p) ELSE At(x, "idle", x.on)
        BY <1>12, BootIs, ProcIs
    <2>3. proc'[p].pc \notin {"monitor", "monitor_sent"}
        BY <2>2 DEF Booted, At
    <2> QED BY <1>3, <2>1, <2>3, StaysSelected
<1>13. CASE ResolveMarkers(p)
    <2>1. UNCHANGED due
        BY <1>13, Zenon DEF ResolveMarkers
    <2>2. resv'[r].nextRead = resv[r].nextRead
        <3>1. CASE Resolving(resv[r], resv'[r], x.started)
            <4>1. Keeps(resv'[r], resv[r], {"pending", "monLast"})
                BY <3>1 DEF Resolving
            <4> QED BY <4>1, FieldsOf
        <3> QED BY <1>3, <1>13, <2>1, <3>1, ResolvingAt
    <2>3. proc'[p].pc = "idle"
        <3>1. proc'[p] = Ready(p)
            BY <1>13, ResolveIs, ProcIs
        <3> QED BY <3>1 DEF Ready
    <2> QED BY <1>3, <2>1, <2>2, <2>3, StaysSelected
<1> QED BY <1>5, <1>6, <1>7, <1>8, <1>9, <1>10, <1>11, <1>12, <1>13 DEF ProcNext

\* The shape of the lists after a step of the process p.
LEMMA ListShape ==
    ASSUME ListInv, NEW p \in Processes, ProcNext(p)
    PROVE  due' = [due EXCEPT ![p] = due'[p]] /\ due'[p] \in SUBSET Resv
<1> DEFINE listed == {q \in Resv : Readable(resv[q]) /\ resv[q].nextRead <= now}
<1>1. due = [q \in Processes |-> due[q]] /\ due[p] \in SUBSET Resv
    BY DEF ListInv
<1>2. \/ UNCHANGED due
      \/ due' = [due EXCEPT ![p] = listed]
      \/ \E q \in Resv : due' = [due EXCEPT ![p] = due[p] \ {q}]
      \/ due' = [due EXCEPT ![p] = {}]
    <2>1. CASE SelectMonitoring(p)
        BY <2>1, Zenon DEF SelectMonitoring
    <2>2. CASE \E q \in Resv : BeginMonitoring(p, q)
        <3>1. PICK q \in Resv : BeginMonitoring(p, q)
            BY <2>2
        <3>2. due' = [due EXCEPT ![p] = due[p] \ {q}]
            BY <3>1 DEF BeginMonitoring
        <3> QED BY <3>2
    <2>3. CASE Lose(p)
        BY <2>3, Zenon DEF Lose
    <2>4. CASE ~(SelectMonitoring(p) \/ (\E q \in Resv : BeginMonitoring(p, q)) \/ Lose(p))
        BY <2>4, Zenon DEF ProcNext, PlanSettles, PlanRead, Send, RecordUsage, ReadFails,
           CompleteMonitoring, MonitoringFails, Boot, ResolveMarkers
    <2> QED BY <2>1, <2>2, <2>3, <2>4
<1>3. listed \in SUBSET Resv
    OBVIOUS
<1> HIDE DEF listed
<1> QED BY <1>1, <1>2, <1>3

LEMMA ListKept == OneProcess /\ BaseInv /\ RowsMove /\ ListInv /\ [Next]_vars => ListInv'
<1> SUFFICES ASSUME OneProcess, BaseInv, RowsMove, ListInv, [Next]_vars
             PROVE  ListInv'
    OBVIOUS
<1>1. due = [q \in Processes |-> due[q]] /\ \A q \in Processes : due[q] \in SUBSET Resv
    BY DEF ListInv
<1>2. CASE \/ UNCHANGED vars \/ OwnerNext \/ Tick \/ \E q \in Resv : RowNext(q)
    <2>1. UNCHANGED <<due, proc>>
        BY <1>2, Zenon DEF vars, OwnerNext, ClaimOrigin, ClearLatch, ChangeAnchor, Tick, RowNext,
           Reserve, Attach, ReleaseUnattached, SettleOperator, Charge, WorkCompletes
    <2>2. ASSUME NEW p \in Processes, NEW r \in due'[p]
          PROVE  Selected(p, r)'
        <3>1. r \in Resv /\ Selected(p, r) /\ resv[r].status = "reconciled"
            BY <1>1, <2>1 DEF ListInv, Selected
        <3>2. resv'[r] = resv[r]
            <4>1. CASE UNCHANGED vars \/ OwnerNext \/ Tick
                BY <4>1, Zenon DEF vars, OwnerNext, ClaimOrigin, ClearLatch, ChangeAnchor, Tick
            <4> QED BY <1>2, <3>1, <4>1, RowNextUntouched
        <3> QED BY <2>1, <3>1, <3>2, StaysSelected DEF Selected
    <2> QED BY <1>1, <2>1, <2>2 DEF ListInv
<1>3. ASSUME NEW p \in Processes, ProcNext(p)
      PROVE  ListInv'
    <2>1. due' = [due EXCEPT ![p] = due'[p]] /\ due'[p] \in SUBSET Resv
        BY <1>3, ListShape
    <2>2. \A q \in Processes : q = p
        BY DEF OneProcess
    <2>3. ASSUME NEW r \in due'[p]
          PROVE  Selected(p, r)'
        BY <1>3, ListSteps
    <2>4. due' = [q \in Processes |-> due'[q]]
        BY <1>1, <2>1
    <2>5. \A q \in Processes : due'[q] \in SUBSET Resv
        BY <2>1, <2>2
    <2>6. \A q \in Processes : \A r \in due'[q] : Selected(q, r)'
        BY <2>2, <2>3
    <2> QED BY <2>4, <2>5, <2>6 DEF ListInv
<1> QED BY <1>2, <1>3 DEF Next

ClosingInv ==
    BaseInv /\ AwayInv /\ ListInv /\ \A r \in Resv : Patient(resv[r], Answered, now)

LEMMA ClosingKept == OneProcess /\ ClosingInv /\ [Next]_vars => ClosingInv'
<1> SUFFICES ASSUME OneProcess, ClosingInv, [Next]_vars
             PROVE  ClosingInv'
    OBVIOUS
<1>1. RowsMove /\ BaseInv' /\ BaseInv
    BY BaseKept DEF Base, ClosingInv
<1>2. AwayInv /\ AwayStep
    BY <1>1, AwaySteps DEF ClosingInv
<1>3. /\ AwayInv' /\ Answered \in Nat /\ Answered' \in Nat /\ Answered <= Answered'
      /\ Resolves => Answered + 1 <= Answered'
    BY <1>2, AnsweredGrows
<1>4. now \in Time /\ now' \in Time /\ now <= now' /\ now \in Nat /\ now' \in Nat
    BY <1>1, Amounts DEF RowsMove, BaseInv, RowsInv, Time
<1>5. ASSUME NEW r \in Resv
      PROVE  Patient(resv[r], Answered, now)' 
    <2> DEFINE w == resv[r]
               v == resv'[r]
               n == Answered
               m == Answered'
    <2>1. /\ RowType(w, now) /\ done[r] \in Past(now) /\ RowKept(w, done[r])
          /\ RowMove(w, v, done[r], done'[r]) /\ Patient(w, n, now)
        BY <1>1 DEF ClosingInv, BaseInv, RowsInv, RowsMove
    <2>2. RowType(v, now') /\ RowNumbers(v)
        <3>1. RowType(v, now')
            BY <1>1 DEF BaseInv, RowsInv
        <3> QED BY <1>4, <3>1, RowNumbersType
    <2>3. n \in Nat /\ m \in Nat /\ n <= m
        BY <1>3
    <2> HIDE DEF n, m
    <2>4. ASSUME Patient(v, n, now)
          PROVE  Patient(resv[r], Answered, now)'
        <3>1. Patient(v, m, now')
            BY <1>4, <2>2, <2>3, <2>4, PatientMore
        <3> QED BY <3>1, Zenon DEF m, Patient, Timely, Due, Spacing
    <2>5. CASE \E p \in Processes : ResolveMarkers(p)
        <3>1. PICK p \in Processes : ResolveMarkers(p)
            BY <2>5
        <3>2. CASE v = w
            BY <2>1, <2>4, <3>2
        <3>3. CASE Resolving(w, v, proc[p].started)
            <4>1. n + 1 <= m /\ n + 1 \in Nat
                BY <1>3, <2>3, <2>5 DEF Resolves, n, m
            <4>2. Patient(v, n + 1, now)
                BY <1>4, <2>1, <2>3, <3>3, ResolvingPatient
            <4>3. Patient(v, m, now')
                BY <1>4, <2>2, <2>3, <4>1, <4>2, PatientMore
            <4> QED BY <4>3, Zenon DEF m, Patient, Timely, Due, Spacing
        <3> QED BY <1>1, <3>1, <3>2, <3>3, ResolvingAt
    <2>6. CASE OtherMove(w, v, done[r], done'[r])
        BY <1>4, <2>1, <2>3, <2>4, <2>6, OtherPatient
    <2>7. CASE Begins(r)
        <3>1. PICK p \in Processes : r \in due[p]
            BY <2>7 DEF Begins
        <3>2. w.nextRead <= now /\ Beginning(w, v)
            BY <2>7, <3>1 DEF Begins, ClosingInv, ListInv, Selected
        <3> QED BY <1>4, <2>1, <2>3, <2>4, <3>2, BeginningPatient
    <2> QED BY <1>1, <2>5, <2>6, <2>7 DEF RowsMove
<1>6. ListInv'
    BY <1>1, ListKept DEF ClosingInv
<1> QED BY <1>1, <1>3, <1>5, <1>6 DEF ClosingInv

LEMMA ClosingInit == Init => ClosingInv
<1> SUFFICES ASSUME Init
             PROVE  ClosingInv
    OBVIOUS
<1>1. \A p \in Processes : proc[p].pc = IF p \in Pollers THEN "idle" ELSE "down"
    BY DEF Init
<1>2. Away = {}
    BY <1>1 DEF Away
<1>3. AwayInv
    BY <1>2, FS_EmptySet DEF Init, AwayInv
<1>4. ASSUME NEW r \in Resv
      PROVE  Patient(resv[r], Answered, now)
    <2>1. resv[r].status = "free" /\ resv[r].corrReads = 0
        BY DEF Init, FreeRow
    <2> QED BY <2>1 DEF Patient
<1>5. ListInv
    BY DEF Init, ListInv
<1> QED BY <1>3, <1>4, <1>5, BaseInit DEF ClosingInv

\* Until the deadline, periodic reads leave ClosingReserve of them for the
\* closing read, but for one for each lost process, when a single process works:
\* the window holds Slots spacings, a row that it has selected stays due until
\* its turn, and only a start that answers a loss lets a read begin before it is
\* due (_next_read_at, select_monitoring, resolve_stale_monitoring_markers).
\* A second process that had selected the row too would read it again at once.
THEOREM ClosingReadAlwaysKept ==
    ASSUME OneProcess
    PROVE  Spec => []ClosingReadKept
<1>1. ClosingInv => ClosingReadKept
    <2> SUFFICES ASSUME ClosingInv, NEW r \in Resv, resv[r].status = "reconciled",
                        resv[r].until # NoTime, now < resv[r].until
                 PROVE  resv[r].corrReads <= Slots + faults
        BY DEF ClosingReadKept, Slots
    <2> DEFINE w == resv[r]
               n == Answered
               k == w.corrReads - n
    <2>1. now \in Nat /\ RowNumbers(w)
        <3>1. now \in Nat /\ RowType(w, now)
            BY Amounts DEF ClosingInv, BaseInv, RowsInv, Time
        <3> QED BY <3>1, RowNumbersType
    <2>2. n \in Nat /\ n <= faults /\ faults \in Nat
        BY FS_CardinalityType DEF ClosingInv, AwayInv, Answered
    <2> HIDE DEF n
    <2>3. k \in Int
        BY <2>1, <2>2 DEF RowNumbers
    <2>4. Due(w, k) <= now
        BY DEF ClosingInv, Patient, Timely, n
    <2>5. SpacingIsRight(w)
        BY <2>1, SpacingRight DEF RowNumbers
    <2>6. w.until <= Due(w, Slots)
        <3> DEFINE s == Slots * Spacing(w)
        <3>1. s \in Nat /\ s >= w.until - w.reconciledAt /\ Due(w, Slots) = w.reconciledAt + s
            BY <2>5 DEF SpacingIsRight, Due
        <3> HIDE DEF s
        <3> QED BY <2>1, <3>1 DEF RowNumbers
    <2>7. Slots \in Nat
        BY SlotsType
    <2> HIDE DEF k
    <2>8. ~(Slots <= k)
        <3>1. Due(w, k) \in Int /\ Due(w, Slots) \in Int
            BY <2>1, <2>3, <2>7, DueType DEF RowNumbers
        <3>2. Slots <= k => Due(w, Slots) <= Due(w, k)
            BY <2>1, <2>3, <2>7, DueMonotone DEF RowNumbers
        <3> QED BY <2>1, <2>4, <2>6, <3>1, <3>2 DEF RowNumbers
    <2> QED BY <2>1, <2>2, <2>3, <2>7, <2>8 DEF RowNumbers, k
<1>2. ClosingInv /\ [Next]_vars => ClosingInv'
    BY ClosingKept
<1> QED BY <1>1, <1>2, ClosingInit, PTL DEF Spec
-----------------------------------------------------------------------------
(* What the platform charges is counted, when a single process works.      *)

\* The charges b of a row w, at the instant t.
RunBills(w, b) ==
    /\ w.status \in OpenStatus \union {"reconciled"}
    /\ w.attached \/ w.class = "envelope"
    /\ w.reservedAt - Guard <= b.run
    /\ w.status = "reconciled" => b.run <= w.lastChargeAt + Guard
MonBills(w, b) ==
    /\ w.status = "reconciled"
    /\ w.reconciledAt - Guard <= b.mon
    /\ w.pending = NoTime => w.monLast # NoTime /\ b.mon <= w.monLast + Guard
BillType(b, t) ==
    /\ b = [run |-> b.run, mon |-> b.mon, reads |-> b.reads]
    /\ b.run \in Int /\ b.mon \in Int /\ b.reads \in Nat
    /\ b.run <= t + Guard /\ b.mon <= t + Guard
RowCounted(w, b, t) ==
    /\ BillType(b, t)
    /\ b.run # NoBill.run => RunBills(w, b)
    /\ b.mon # NoBill.mon => MonBills(w, b)

\* The monitoring allowance covers the reads counted against it.
Allowed(w) ==
    /\ w.status # "reconciled" => w.corrReads = 0
    /\ w.corrReads * Call <= w.mon
    /\ w.status \in OpenStatus \union {"reconciled"} /\ w.class # "envelope" /\ w.closedAt = NoTime =>
          w.mon = MaxCorrReads * Call

LEMMA CallsType ==
    ASSUME NEW k \in Nat, NEW j \in Nat, j <= k
    PROVE  k * Call \in Nat /\ j * Call \in Nat /\ j * Call <= k * Call
<1> DEFINE c == Call
<1>1. c \in Nat
    BY Amounts
<1> HIDE DEF c
<1>2. k * c \in Nat /\ j * c \in Nat /\ j * c <= k * c
    BY <1>1, SMT
<1> QED BY <1>2 DEF c

LEMMA AllowedFrame ==
    ASSUME NEW w, NEW v, Allowed(w), v.corrReads = w.corrReads, v.mon = w.mon,
           v.class = w.class, v.closedAt = w.closedAt,
           v.status # "reconciled" => w.status # "reconciled",
           v.status \in OpenStatus \union {"reconciled"} =>
              w.status \in OpenStatus \union {"reconciled"}
    PROVE  Allowed(v)
BY DEF Allowed

LEMMA SettlingAllowed ==
    ASSUME NEW w, NEW v, Allowed(w), Settling(w, v)
    PROVE  Allowed(v)
<1>1. Keeps(v, w, SettledFields)
    BY DEF Settling
<1>2. v.corrReads = w.corrReads /\ v.mon = w.mon /\ v.class = w.class /\ v.closedAt = w.closedAt
    BY <1>1, FieldsOf DEF SettledFields
<1>3. v.status = "reconciled" /\ w.status \in OpenStatus
    BY DEF Settling, Settles
<1> QED BY <1>2, <1>3, AllowedFrame

LEMMA MonitoringAllowed ==
    ASSUME now \in Time, NEW w, NEW v, NEW d, RowType(w, now), RowKept(w, d), Allowed(w),
           \/ Beginning(w, v) \/ Completing(w, v) \/ Failing(w, v)
           \/ \E at \in 0 .. now : Resolving(w, v, at)
    PROVE  Allowed(v)
<1>1. w.corrReads \in Nat /\ w.mon \in Nat /\ MaxCorrReads \in Nat
    BY Amounts DEF RowType
<1>2. CASE Beginning(w, v)
    <2>1. Keeps(v, w, {"corrReads", "pending", "monLast"})
        BY <1>2 DEF Beginning
    <2>2. v.mon = w.mon /\ v.class = w.class /\ v.closedAt = w.closedAt /\ v.status = w.status
        BY <2>1, FieldsOf
    <2>3. /\ w.status = "reconciled" /\ w.until # NoTime /\ w.closedAt = NoTime
          /\ w.corrReads < MaxCorrReads /\ v.corrReads = w.corrReads + 1
        BY <1>2 DEF Beginning
    <2>4. w.class # "envelope"
        BY <2>3 DEF RowKept
    <2>5. w.mon = MaxCorrReads * Call
        BY <2>3, <2>4 DEF Allowed
    <2>6. v.corrReads \in Nat /\ v.corrReads <= MaxCorrReads
        BY <1>1, <2>3
    <2>7. v.corrReads * Call <= MaxCorrReads * Call
        BY <1>1, <2>6, CallsType
    <2> QED BY <2>2, <2>3, <2>5, <2>7 DEF Allowed
<1>3. CASE Completing(w, v)
    <2>1. Keeps(v, w, CompletedFields)
        BY <1>3 DEF Completing
    <2>2. v.corrReads = w.corrReads /\ v.class = w.class /\ v.status = w.status
        BY <2>1, FieldsOf DEF CompletedFields
    <2>3. CASE v.closedAt = w.closedAt /\ v.mon = w.mon
        BY <2>2, <2>3, AllowedFrame
    <2>4. CASE v.closedAt = now /\ v.mon = ClosedAllowance(w)
        <3> DEFINE c == w.corrReads * Call
        <3>1. c \in Nat /\ c <= w.mon
            BY <1>1, CallsType DEF Allowed
        <3>2. v.mon = IF CountedMode THEN Min({w.mon, c}) ELSE w.mon
            BY <2>4 DEF ClosedAllowance
        <3>3. v.corrReads * Call = c
            BY <2>2
        <3> HIDE DEF c
        <3>4. c <= v.mon
            BY <1>1, <3>1, <3>2, MinOfTwo
        <3>5. v.closedAt # NoTime
            BY <2>4 DEF NoTime, Time
        <3>6. w.status = "reconciled"
            BY <1>3 DEF Completing
        <3> QED BY <2>2, <3>3, <3>4, <3>5, <3>6 DEF Allowed
    <2> QED BY <1>3, <2>3, <2>4 DEF Completing
<1>4. CASE Failing(w, v)
    <2>1. Keeps(v, w, {"pending", "monLast", "nextRead"})
        BY <1>4 DEF Failing
    <2>2. /\ v.corrReads = w.corrReads /\ v.mon = w.mon /\ v.class = w.class
          /\ v.closedAt = w.closedAt /\ v.status = w.status
        BY <2>1, FieldsOf
    <2> QED BY <2>2, AllowedFrame
<1>5. CASE \E at \in 0 .. now : Resolving(w, v, at)
    <2>1. Keeps(v, w, {"pending", "monLast"})
        BY <1>5 DEF Resolving
    <2>2. /\ v.corrReads = w.corrReads /\ v.mon = w.mon /\ v.class = w.class
          /\ v.closedAt = w.closedAt /\ v.status = w.status
        BY <2>1, FieldsOf
    <2> QED BY <2>2, AllowedFrame
<1> QED BY <1>2, <1>3, <1>4, <1>5

LEMMA MoveAllowed ==
    ASSUME now \in Time, NEW w, NEW v, NEW d \in Past(now), NEW e,
           RowType(w, now), RowKept(w, d), RowMove(w, v, d, e), Allowed(w)
    PROVE  Allowed(v)
<1>1. CASE v = w
    BY <1>1
<1>2. CASE Finishing(w, v)
    <2>1. Keeps(v, w, {"anchor"})
        BY <1>2 DEF Finishing
    <2>2. /\ v.corrReads = w.corrReads /\ v.mon = w.mon /\ v.class = w.class
          /\ v.closedAt = w.closedAt /\ v.status = w.status
        BY <2>1, FieldsOf
    <2> QED BY <2>2, AllowedFrame
<1>3. CASE Admission(w, v)
    <2>1. Keeps(v, FreeRow, {"status", "class", "reservedAt", "mon"})
        BY <1>3 DEF Admission
    <2>2. v.corrReads = 0
        BY <2>1, FieldsOf DEF FreeRow
    <2>3. v.mon = IF v.class = "envelope" THEN 0 ELSE MaxCorrReads * Call
        BY <1>3 DEF Admission, MonitoringBound
    <2>4. 0 * Call = 0 /\ MaxCorrReads * Call \in Nat
        <3>1. Call \in Nat /\ MaxCorrReads \in Nat /\ 0 \in Nat /\ 0 <= MaxCorrReads
            BY Amounts
        <3>2. MaxCorrReads * Call \in Nat
            BY <3>1, CallsType
        <3> QED BY <3>1, <3>2
    <2>5. v.corrReads * Call <= v.mon
        <3> DEFINE m == MaxCorrReads * Call
                   z == 0 * Call
        <3>1. v.corrReads * Call = z
            BY <2>2
        <3>2. v.mon = IF v.class = "envelope" THEN 0 ELSE m
            BY <2>3
        <3>3. z = 0 /\ m \in Nat
            BY <2>4
        <3> HIDE DEF m, z
        <3> QED BY <3>1, <3>2, <3>3
    <2> QED BY <2>2, <2>3, <2>5 DEF Allowed
<1>4. CASE Attaching(w, v)
    <2>1. Keeps(v, w, {"attached"})
        BY <1>4 DEF Attaching
    <2>2. /\ v.corrReads = w.corrReads /\ v.mon = w.mon /\ v.class = w.class
          /\ v.closedAt = w.closedAt /\ v.status = w.status
        BY <2>1, FieldsOf
    <2> QED BY <2>2, AllowedFrame
<1>5. CASE Releasing(w, v)
    <2>1. Keeps(v, w, {"status"}) /\ w.status = "reserved" /\ v.status = "released"
        BY <1>5 DEF Releasing
    <2>2. v.corrReads = w.corrReads /\ v.mon = w.mon /\ v.class = w.class /\ v.closedAt = w.closedAt
        BY <2>1, FieldsOf
    <2> QED BY <2>1, <2>2, AllowedFrame DEF OpenStatus
<1>6. CASE OperatorSettling(w, v)
    <2>1. Keeps(v, w, OperatorFields)
        BY <1>6 DEF OperatorSettling
    <2>2. v.corrReads = w.corrReads /\ v.mon = w.mon /\ v.class = w.class /\ v.closedAt = w.closedAt
        BY <2>1, FieldsOf DEF OperatorFields
    <2>3. w.status \in OpenStatus /\ v.status = "reconciled"
        BY <1>6 DEF OperatorSettling
    <2> QED BY <2>2, <2>3, AllowedFrame
<1>7. CASE Polling(w, v)
    <2>1. Keeps(v, w, {"polls"})
        BY <1>7 DEF Polling
    <2>2. /\ v.corrReads = w.corrReads /\ v.mon = w.mon /\ v.class = w.class
          /\ v.closedAt = w.closedAt /\ v.status = w.status
        BY <2>1, FieldsOf
    <2> QED BY <2>2, AllowedFrame
<1>8. ASSUME NEW u, Seeing(w, u, d)
      PROVE  Allowed(u)
    <2>1. Keeps(u, w, {"reads", "status", "anchor"})
        BY <1>8 DEF Seeing
    <2>2. u.corrReads = w.corrReads /\ u.mon = w.mon /\ u.class = w.class /\ u.closedAt = w.closedAt
        BY <2>1, FieldsOf
    <2>3. w.status \in OpenStatus /\ u.status \in OpenStatus
        BY <1>8 DEF Seeing
    <2>4. w.status # "reconciled"
        BY <2>3 DEF OpenStatus
    <2> QED BY <2>2, <2>3, <2>4, AllowedFrame
<1>9. CASE Settling(w, v)
    BY <1>9, SettlingAllowed
<1>10. CASE \E u : Seeing(w, u, d) /\ Settling(u, v)
    BY <1>8, <1>10, SettlingAllowed
<1>11. CASE \/ Beginning(w, v) \/ Completing(w, v) \/ Failing(w, v)
            \/ \E at \in 0 .. now : Resolving(w, v, at)
    BY <1>11, MonitoringAllowed
<1> QED BY <1>1, <1>2, <1>3, <1>4, <1>5, <1>6, <1>7, <1>8, <1>9, <1>10, <1>11
        DEF RowMove, PlainMove, OtherMove

CountedFields(v, w) ==
    /\ v.attached = w.attached /\ v.class = w.class /\ v.reservedAt = w.reservedAt
LEMMA CountedFrame ==
    ASSUME NEW w, NEW v, NEW b, NEW t, RowCounted(w, b, t), CountedFields(v, w),
           v.status = w.status, v.lastChargeAt = w.lastChargeAt,
           v.reconciledAt = w.reconciledAt, v.pending = w.pending, v.monLast = w.monLast
    PROVE  RowCounted(v, b, t)
BY DEF RowCounted, RunBills, MonBills, CountedFields

\* An open row that stays open.
LEMMA CountedOpen ==
    ASSUME NEW w, NEW v, NEW b, NEW t, RowCounted(w, b, t), w.status \in OpenStatus,
           v.status \in OpenStatus, w.attached => v.attached, v.class = w.class,
           v.reservedAt = w.reservedAt
    PROVE  RowCounted(v, b, t)
BY DEF RowCounted, RunBills, MonBills, OpenStatus

\* A settlement covers every charge before it.
LEMMA CountedSettled ==
    ASSUME now \in Nat, NEW w, NEW v, NEW b, RowCounted(w, b, now), w.status \in OpenStatus,
           CountedFields(v, w), v.status = "reconciled", v.lastChargeAt \in Int,
           v.lastChargeAt >= now
    PROVE  RowCounted(v, b, now)
<1>1. b.run <= now + Guard /\ b.run \in Int /\ Guard \in Nat
    BY Amounts DEF RowCounted, BillType
<1>2. b.run <= v.lastChargeAt + Guard
    BY <1>1
<1>3. b.mon = NoBill.mon
    BY DEF RowCounted, MonBills, OpenStatus
<1>4. b.run # NoBill.run => RunBills(v, b)
    BY <1>2 DEF RowCounted, RunBills, CountedFields
<1> QED BY <1>3, <1>4 DEF RowCounted

LEMMA SettlingCounted ==
    ASSUME now \in Nat, NEW w, NEW v, NEW b, RowType(w, now), RowCounted(w, b, now),
           Settling(w, v)
    PROVE  RowCounted(v, b, now)
<1>1. Keeps(v, w, SettledFields)
    BY DEF Settling
<1>2. CountedFields(v, w)
    <2>1. v.attached = w.attached
        BY <1>1, FieldsOf DEF SettledFields
    <2>2. v.class = w.class /\ v.reservedAt = w.reservedAt
        BY <1>1, FieldsOf DEF SettledFields
    <2> QED BY <2>1, <2>2 DEF CountedFields
<1>3. w.status \in OpenStatus /\ v.status = "reconciled" /\ v.lastChargeAt = Max({w.anchor, now})
    BY DEF Settling, Settles
<1>4. w.anchor \in Int
    BY RowTimes
<1>5. v.lastChargeAt \in Int /\ v.lastChargeAt >= now
    BY <1>3, <1>4, MaxOfTwo
<1> QED BY <1>2, <1>3, <1>5, CountedSettled

\* An answered call closes the marker at this instant.
LEMMA CountedAnswered ==
    ASSUME now \in Nat, NEW w, NEW v, NEW b, RowCounted(w, b, now),
           CountedFields(v, w), v.status = w.status, v.lastChargeAt = w.lastChargeAt,
           v.reconciledAt = w.reconciledAt, v.monLast = now
    PROVE  RowCounted(v, b, now)
<1>1. b.mon <= now + Guard /\ v.monLast # NoTime
    BY DEF RowCounted, BillType, NoTime
<1>2. b.run # NoBill.run => RunBills(v, b)
    BY DEF RowCounted, RunBills, CountedFields
<1>3. b.mon # NoBill.mon => MonBills(v, b)
    BY <1>1 DEF RowCounted, MonBills
<1> QED BY <1>2, <1>3 DEF RowCounted

LEMMA MonitoringCountedMove ==
    ASSUME now \in Nat, NEW w, NEW v, NEW b, RowType(w, now), RowCounted(w, b, now),
           Beginning(w, v) \/ Completing(w, v) \/ Failing(w, v)
    PROVE  RowCounted(v, b, now)
<1>1. CASE Beginning(w, v)
    <2>1. Keeps(v, w, {"corrReads", "pending", "monLast"}) /\ v.monLast = now
        BY <1>1 DEF Beginning
    <2>2. v.status = w.status /\ v.lastChargeAt = w.lastChargeAt /\ v.reconciledAt = w.reconciledAt
        BY <2>1, FieldsOf
    <2>3. v.attached = w.attached
        BY <2>1, FieldsOf
    <2>4. v.class = w.class /\ v.reservedAt = w.reservedAt
        BY <2>1, FieldsOf
    <2>5. CountedFields(v, w)
        BY <2>3, <2>4 DEF CountedFields
    <2> QED BY <2>1, <2>2, <2>5, CountedAnswered
<1>2. CASE Completing(w, v)
    <2>1. Keeps(v, w, CompletedFields) /\ v.monLast = now
        BY <1>2 DEF Completing
    <2>2. v.status = w.status /\ v.lastChargeAt = w.lastChargeAt /\ v.reconciledAt = w.reconciledAt
        BY <2>1, FieldsOf DEF CompletedFields
    <2>3. v.attached = w.attached
        BY <2>1, FieldsOf DEF CompletedFields
    <2>4. v.class = w.class /\ v.reservedAt = w.reservedAt
        BY <2>1, FieldsOf DEF CompletedFields
    <2>5. CountedFields(v, w)
        BY <2>3, <2>4 DEF CountedFields
    <2> QED BY <2>1, <2>2, <2>5, CountedAnswered
<1>3. CASE Failing(w, v)
    <2>1. Keeps(v, w, {"pending", "monLast", "nextRead"}) /\ v.monLast = now
        BY <1>3 DEF Failing
    <2>2. v.status = w.status /\ v.lastChargeAt = w.lastChargeAt /\ v.reconciledAt = w.reconciledAt
        BY <2>1, FieldsOf
    <2>3. v.attached = w.attached
        BY <2>1, FieldsOf
    <2>4. v.class = w.class /\ v.reservedAt = w.reservedAt
        BY <2>1, FieldsOf
    <2>5. CountedFields(v, w)
        BY <2>3, <2>4 DEF CountedFields
    <2> QED BY <2>1, <2>2, <2>5, CountedAnswered
<1> QED BY <1>1, <1>2, <1>3

\* A start resolves a marker no earlier than its read, if none was sent since.
LEMMA ResolvingCounted ==
    ASSUME now \in Nat, NEW w, NEW v, NEW b, NEW at \in Nat, RowType(w, now),
           RowCounted(w, b, now), Resolving(w, v, at), b.mon <= at + Guard
    PROVE  RowCounted(v, b, now)
<1>1. Keeps(v, w, {"pending", "monLast"}) /\ v.monLast = Max({w.monLast, at})
    BY DEF Resolving
<1>2. v.status = w.status /\ v.lastChargeAt = w.lastChargeAt /\ v.reconciledAt = w.reconciledAt
    BY <1>1, FieldsOf
<1>3. v.attached = w.attached
    BY <1>1, FieldsOf
<1>4. v.class = w.class /\ v.reservedAt = w.reservedAt
    BY <1>1, FieldsOf
<1>5. w.monLast \in Int /\ b.mon \in Int /\ Guard \in Nat
    <2>1. w.monLast \in Int
        BY RowTimes
    <2>2. b.mon \in Int
        BY DEF RowCounted, BillType
    <2> QED BY <2>1, <2>2, Amounts
<1>6. v.monLast \in Int /\ v.monLast >= at
    BY <1>1, <1>5, MaxOfTwo
<1>7. v.monLast # NoTime /\ b.mon <= v.monLast + Guard
    BY <1>5, <1>6 DEF NoTime
<1>8. b.run # NoBill.run => RunBills(v, b)
    BY <1>2, <1>3, <1>4 DEF RowCounted, RunBills
<1>9. b.mon # NoBill.mon => MonBills(v, b)
    BY <1>2, <1>7 DEF RowCounted, MonBills
<1> QED BY <1>8, <1>9 DEF RowCounted

LEMMA PlainCounted ==
    ASSUME now \in Time, NEW w, NEW v, NEW d \in Past(now), NEW e, RowType(w, now), RowKept(w, d),
           PlainMove(w, v, d, e), NEW b, RowCounted(w, b, now)
    PROVE  RowCounted(v, b, now)
<1>1. now \in Nat
    BY Amounts DEF Time
<1>2. CASE v = w
    BY <1>2
<1>3. CASE Finishing(w, v)
    <2>1. Keeps(v, w, {"anchor"})
        BY <1>3 DEF Finishing
    <2>2. /\ v.status = w.status /\ v.lastChargeAt = w.lastChargeAt
          /\ v.reconciledAt = w.reconciledAt /\ v.pending = w.pending /\ v.monLast = w.monLast
        BY <2>1, FieldsOf
    <2>3. v.attached = w.attached
        BY <2>1, FieldsOf
    <2>4. v.class = w.class /\ v.reservedAt = w.reservedAt
        BY <2>1, FieldsOf
    <2>5. CountedFields(v, w)
        BY <2>3, <2>4 DEF CountedFields
    <2> QED BY <2>2, <2>5, CountedFrame
<1>4. CASE Admission(w, v)
    <2>1. w.status = "free"
        BY <1>4 DEF Admission
    <2> QED BY <2>1 DEF RowCounted, RunBills, MonBills, OpenStatus
<1>5. CASE Attaching(w, v)
    <2>1. Keeps(v, w, {"attached"}) /\ w.status \in OpenStatus
        BY <1>5 DEF Attaching
    <2>2. v.attached
        BY <1>5 DEF Attaching
    <2>3. v.status = w.status /\ v.class = w.class /\ v.reservedAt = w.reservedAt
        BY <2>1, FieldsOf
    <2>4. v.status \in OpenStatus
        BY <2>1, <2>3
    <2> QED BY <2>1, <2>2, <2>3, <2>4, CountedOpen
<1>6. CASE Releasing(w, v)
    <2>1. w.status = "reserved" /\ w.class \in RuntimeClass
        BY <1>6 DEF Releasing
    <2>2. ~w.attached
        BY <1>6 DEF Releasing
    <2>3. b.run = NoBill.run
        BY <2>1, <2>2 DEF RowCounted, RunBills, RuntimeClass
    <2>4. b.mon = NoBill.mon
        BY <2>1 DEF RowCounted, MonBills
    <2> QED BY <2>3, <2>4 DEF RowCounted
<1>7. CASE OperatorSettling(w, v)
    <2>1. Keeps(v, w, OperatorFields)
        BY <1>7 DEF OperatorSettling
    <2>2. v.attached = w.attached
        BY <2>1, FieldsOf DEF OperatorFields
    <2>3. v.class = w.class /\ v.reservedAt = w.reservedAt
        BY <2>1, FieldsOf DEF OperatorFields
    <2>4. CountedFields(v, w)
        BY <2>2, <2>3 DEF CountedFields
    <2>5. w.status \in OpenStatus /\ v.status = "reconciled" /\ v.lastChargeAt = now
        BY <1>7 DEF OperatorSettling
    <2>6. v.lastChargeAt \in Int /\ v.lastChargeAt >= now
        BY <1>1, <2>5
    <2> QED BY <1>1, <2>4, <2>5, <2>6, CountedSettled
<1>8. CASE Polling(w, v)
    <2>1. Keeps(v, w, {"polls"}) /\ w.status \in OpenStatus
        BY <1>8 DEF Polling
    <2>2. v.attached = w.attached
        BY <2>1, FieldsOf
    <2>3. v.status = w.status /\ v.class = w.class /\ v.reservedAt = w.reservedAt
        BY <2>1, FieldsOf
    <2>4. v.status \in OpenStatus
        BY <2>1, <2>3
    <2> QED BY <2>1, <2>2, <2>3, <2>4, CountedOpen
<1>9. ASSUME NEW u, Seeing(w, u, d)
      PROVE  RowCounted(u, b, now)
    <2>1. Keeps(u, w, {"reads", "status", "anchor"}) /\ w.status \in OpenStatus /\ u.status \in OpenStatus
        BY <1>9 DEF Seeing
    <2>2. u.attached = w.attached
        BY <2>1, FieldsOf
    <2>3. u.class = w.class /\ u.reservedAt = w.reservedAt
        BY <2>1, FieldsOf
    <2> QED BY <2>1, <2>2, <2>3, CountedOpen
<1>10. CASE Settling(w, v)
    BY <1>1, <1>10, SettlingCounted
<1>11. CASE \E u : Seeing(w, u, d) /\ Settling(u, v)
    <2>1. PICK u : Seeing(w, u, d) /\ Settling(u, v)
        BY <1>11
    <2>2. RowType(u, now)
        BY <2>1, SeeingMoves DEF Moved
    <2>3. RowCounted(u, b, now)
        BY <1>9, <2>1
    <2> QED BY <1>1, <2>1, <2>2, <2>3, SettlingCounted
<1>12. CASE Beginning(w, v) \/ Completing(w, v) \/ Failing(w, v)
    BY <1>1, <1>12, MonitoringCountedMove
<1> QED BY <1>2, <1>3, <1>4, <1>5, <1>6, <1>7, <1>8, <1>9, <1>10, <1>11, <1>12 DEF PlainMove, OtherMove

\* What the platform adds to a row's bill.
LEMMA RunBilled ==
    ASSUME now \in Nat, NEW w, NEW b, RowType(w, now), RowCounted(w, b, now),
           w.status \in OpenStatus, w.attached \/ w.class = "envelope", NEW s \in Skew
    PROVE  LET c == [b EXCEPT !.run = Max({b.run, now + s})]
           IN  RowCounted(w, c, now) /\ c.reads = b.reads /\ c.mon = b.mon
<1> DEFINE x == Max({b.run, now + s})
           c == [b EXCEPT !.run = x]
<1>1. b = [run |-> b.run, mon |-> b.mon, reads |-> b.reads] /\ b.run \in Int
      /\ b.run <= now + Guard /\ Guard \in Nat
    BY Amounts DEF RowCounted, BillType
<1>2. s \in Int /\ s <= Guard /\ -Guard <= s
    BY <1>1 DEF Skew
<1>3. x \in Int /\ x <= now + Guard /\ now - Guard <= x
    <2>1. now + s \in Int /\ now + s <= now + Guard /\ now - Guard <= now + s
        BY <1>1, <1>2
    <2> DEFINE t == now + s
    <2> HIDE DEF t
    <2>2. x = IF b.run >= t THEN b.run ELSE t
        BY <1>1, <2>1, MaxOfTwo DEF t
    <2> QED BY <1>1, <2>1, <2>2 DEF t
<1> HIDE DEF x
<1>4. c = [run |-> x, mon |-> b.mon, reads |-> b.reads]
    BY <1>1
<1> HIDE DEF c
<1>5. c.run = x /\ c.mon = b.mon /\ c.reads = b.reads
    BY <1>4
<1>6. BillType(c, now)
    BY <1>3, <1>4, <1>5 DEF RowCounted, BillType
<1>7. w.reservedAt \in Int /\ w.reservedAt <= now
    BY RowTimes
<1>8. w.reservedAt - Guard <= c.run
    BY <1>1, <1>3, <1>5, <1>7
<1>9. w.status # "reconciled"
    BY DEF OpenStatus
<1>10. RunBills(w, c)
    BY <1>8, <1>9 DEF RunBills
<1>11. c.mon # NoBill.mon => MonBills(w, c)
    BY <1>5 DEF RowCounted, MonBills
<1>12. RowCounted(w, c, now)
    BY <1>6, <1>10, <1>11 DEF RowCounted
<1> QED BY <1>5, <1>12 DEF c, x

LEMMA MonBilled ==
    ASSUME now \in Nat, NEW w, NEW b, RowType(w, now), RowCounted(w, b, now),
           w.status = "reconciled", w.pending # NoTime, NEW s \in Skew
    PROVE  LET c == [b EXCEPT !.mon = Max({b.mon, now + s}), !.reads = b.reads + 1]
           IN  RowCounted(w, c, now) /\ c.reads = b.reads + 1
<1> DEFINE x == Max({b.mon, now + s})
           c1 == [b EXCEPT !.mon = x]
           c == [c1 EXCEPT !.reads = b.reads + 1]
<1>1. b = [run |-> b.run, mon |-> b.mon, reads |-> b.reads] /\ b.mon \in Int /\ b.reads \in Nat
      /\ b.mon <= now + Guard /\ Guard \in Nat
    BY Amounts DEF RowCounted, BillType
<1>2. s \in Int /\ s <= Guard /\ -Guard <= s
    BY <1>1 DEF Skew
<1>3. x \in Int /\ x <= now + Guard /\ now - Guard <= x
    BY <1>1, <1>2, MaxOfTwo
<1> HIDE DEF x
<1>4. c1 = [run |-> b.run, mon |-> x, reads |-> b.reads]
    BY <1>1
<1> HIDE DEF c1
<1>5. c = [run |-> b.run, mon |-> x, reads |-> b.reads + 1]
    BY <1>4
<1> HIDE DEF c
<1>6. c.run = b.run /\ c.mon = x /\ c.reads = b.reads + 1
    BY <1>5
<1>7. BillType(c, now)
    BY <1>1, <1>3, <1>5, <1>6 DEF RowCounted, BillType
<1>8. w.reconciledAt \in Int /\ w.reconciledAt <= now
    BY RowTimes
<1>9. w.reconciledAt - Guard <= c.mon
    BY <1>1, <1>3, <1>6, <1>8
<1>10. MonBills(w, c)
    BY <1>9 DEF MonBills
<1>11. c.run # NoBill.run => RunBills(w, c)
    BY <1>6 DEF RowCounted, RunBills
<1>12. RowCounted(w, c, now)
    BY <1>7, <1>10, <1>11 DEF RowCounted
<1>13. c = [b EXCEPT !.mon = x, !.reads = b.reads + 1]
    BY DEF c, c1
<1> QED BY <1>6, <1>12, <1>13 DEF x

\* Selector-4 calls of the row r that a process has counted and not sent.
Unsent(x, r) == IF x.pc = "monitor" /\ x.on = r THEN 1 ELSE 0
ProcCounted(x, rows, bills) ==
    /\ x.pc \in {"read", "read_sent"} => rows[x.on].status \in OpenStatus
    /\ x.pc \in {"monitor", "monitor_sent"} => rows[x.on].pending # NoTime
    /\ x.pc = "boot" => \A r \in Resv : bills[r].mon <= x.started + Guard
    /\ \A r \in Resv : bills[r].reads + Unsent(x, r) <= rows[r].corrReads

RowsCounted ==
    /\ billed = [r \in Resv |-> billed[r]]
    /\ \A r \in Resv : RowCounted(resv[r], billed[r], now) /\ Allowed(resv[r])
ProcsCounted == \A p \in Processes : ProcCounted(proc[p], resv, billed)
ChargeInv == BaseInv /\ RowsCounted /\ ProcsCounted

\* Only begin_monitoring_read counts a read.
LEMMA CorrReadsGrow ==
    ASSUME now \in Time, NEW w, NEW v, NEW d \in Past(now), NEW e,
           RowType(w, now), RowKept(w, d), RowMove(w, v, d, e), Allowed(w)
    PROVE  w.corrReads <= v.corrReads /\ w.corrReads \in Int /\ v.corrReads \in Int
<1>1. w.corrReads \in Int
    BY DEF RowType
<1>2. RowType(v, now)
    BY RowMoves
<1>3. v.corrReads \in Nat
    BY <1>2 DEF RowType
<1>4. CASE w.status # "reconciled"
    BY <1>1, <1>3, <1>4 DEF Allowed
<1>5. CASE Beginning(w, v)
    BY <1>1, <1>3, <1>5 DEF Beginning
<1>6. ASSUME NEW S, Keeps(v, w, S), "corrReads" \notin S
      PROVE  w.corrReads <= v.corrReads /\ w.corrReads \in Int /\ v.corrReads \in Int
    <2>1. v.corrReads = w.corrReads
        BY <1>6, FieldsOf
    <2> QED BY <1>1, <2>1
<1>7. CASE v = w
    BY <1>1, <1>7
<1>8. CASE Completing(w, v) \/ Failing(w, v)
    <2>1. Keeps(v, w, CompletedFields) \/ Keeps(v, w, {"pending", "monLast", "nextRead"})
        BY <1>8 DEF Completing, Failing
    <2>2. CASE Keeps(v, w, CompletedFields)
        <3>1. "corrReads" \notin CompletedFields
            BY DEF CompletedFields
        <3> QED BY <1>6, <2>2, <3>1, Zenon
    <2>3. CASE Keeps(v, w, {"pending", "monLast", "nextRead"})
        <3> DEFINE S == {"pending", "monLast", "nextRead"}
        <3>1. "corrReads" \notin S /\ Keeps(v, w, S)
            BY <2>3
        <3> HIDE DEF S
        <3> QED BY <1>6, <3>1, Zenon
    <2> QED BY <2>1, <2>2, <2>3
<1>9. CASE Finishing(w, v) \/ \E at \in 0 .. now : Resolving(w, v, at)
    <2>1. Keeps(v, w, {"anchor"}) \/ Keeps(v, w, {"pending", "monLast"})
        BY <1>9 DEF Finishing, Resolving
    <2>2. CASE Keeps(v, w, {"anchor"})
        <3> DEFINE S == {"anchor"}
        <3>1. "corrReads" \notin S /\ Keeps(v, w, S)
            BY <2>2
        <3> HIDE DEF S
        <3> QED BY <1>6, <3>1, Zenon
    <2>3. CASE Keeps(v, w, {"pending", "monLast"})
        <3> DEFINE S == {"pending", "monLast"}
        <3>1. "corrReads" \notin S /\ Keeps(v, w, S)
            BY <2>3
        <3> HIDE DEF S
        <3> QED BY <1>6, <3>1, Zenon
    <2> QED BY <2>1, <2>2, <2>3
<1>10. CASE w.status = "reconciled"
    <2>1. \/ v = w \/ Finishing(w, v) \/ Beginning(w, v) \/ Completing(w, v) \/ Failing(w, v)
          \/ \E at \in 0 .. now : Resolving(w, v, at)
        BY <1>10 DEF RowMove, PlainMove, OtherMove, Admission, Attaching, Releasing, OperatorSettling, Polling,
                     Seeing, Settling, Settles, OpenStatus
    <2> QED BY <1>5, <1>7, <1>8, <1>9, <2>1
<1> QED BY <1>1, <1>3, <1>4, <1>10

\* The rows of a step that is not a charge.
RowsStayCounted ==
    /\ RowsCounted'
    /\ \A r \in Resv : /\ resv[r].corrReads <= resv'[r].corrReads
                       /\ resv[r].corrReads \in Int /\ resv'[r].corrReads \in Int

LEMMA CountedLater ==
    ASSUME NEW w, NEW b, NEW t \in Nat, NEW s \in Nat, t <= s, RowCounted(w, b, t)
    PROVE  RowCounted(w, b, s)
<1>1. Guard \in Nat
    BY Amounts
<1>2. BillType(b, s)
    BY <1>1 DEF RowCounted, BillType
<1> QED BY <1>2 DEF RowCounted

LEMMA RowsCountedKept ==
    ASSUME ChargeInv, RowsMove, UNCHANGED billed
    PROVE  RowsStayCounted
<1>1. now \in Time /\ now' \in Time /\ now <= now' /\ now \in Nat /\ now' \in Nat
    BY Amounts DEF RowsMove, ChargeInv, BaseInv, RowsInv, Time
<1>2. ASSUME NEW r \in Resv
      PROVE  /\ RowCounted(resv'[r], billed'[r], now') /\ Allowed(resv'[r])
             /\ resv[r].corrReads <= resv'[r].corrReads
             /\ resv[r].corrReads \in Int /\ resv'[r].corrReads \in Int
    <2> DEFINE w == resv[r]
               v == resv'[r]
               b == billed[r]
    <2>1. /\ RowType(w, now) /\ done[r] \in Past(now) /\ RowKept(w, done[r])
          /\ RowMove(w, v, done[r], done'[r]) /\ RowCounted(w, b, now) /\ Allowed(w)
        BY DEF ChargeInv, RowsCounted, BaseInv, RowsInv, RowsMove
    <2>2. Allowed(v)
        BY <1>1, <2>1, MoveAllowed
    <2>3. w.corrReads <= v.corrReads /\ w.corrReads \in Int /\ v.corrReads \in Int
        BY <1>1, <2>1, CorrReadsGrow
    <2>4. RowCounted(v, b, now)
        <3>1. CASE PlainMove(w, v, done[r], done'[r])
            BY <1>1, <2>1, <3>1, PlainCounted
        <3>2. CASE ~PlainMove(w, v, done[r], done'[r])
            <4>1. PICK p \in Processes : ResolveMarkers(p)
                BY <3>2 DEF RowsMove, PlainMove, Begins
            <4>2. v = w \/ Resolving(w, v, proc[p].started)
                BY <4>1, ResolvingAt DEF ChargeInv
            <4>3. proc[p].pc = "boot"
                BY <4>1, Zenon DEF ResolveMarkers
            <4>4. b.mon <= proc[p].started + Guard
                BY <4>3 DEF ChargeInv, ProcsCounted, ProcCounted
            <4>5. proc[p].started \in Nat
                BY DEF ChargeInv, BaseInv, ProcsInv, ProcKept
            <4>6. CASE v = w
                BY <2>1, <4>6
            <4>7. CASE Resolving(w, v, proc[p].started)
                BY <1>1, <2>1, <4>4, <4>5, <4>7, ResolvingCounted
            <4> QED BY <4>2, <4>6, <4>7
        <3> QED BY <3>1, <3>2
    <2>5. RowCounted(v, b, now')
        BY <1>1, <2>4, CountedLater
    <2> QED BY <2>2, <2>3, <2>5
<1> QED BY <1>2 DEF RowsStayCounted, RowsCounted, ChargeInv

\* A process that goes to a control point with no call counted or sent.
LEMMA QuietCounted ==
    ASSUME ChargeInv, RowsStayCounted, UNCHANGED billed, NEW x, ProcCounted(x, resv, billed),
           NEW y, y.pc \in {"idle", "down"}
    PROVE  ProcCounted(y, resv', billed')
<1>1. ASSUME NEW r \in Resv
      PROVE  billed'[r].reads + Unsent(y, r) <= resv'[r].corrReads
    <2>1. Unsent(y, r) = 0 /\ Unsent(x, r) \in {0, 1}
        BY DEF Unsent
    <2>2. billed[r].reads + Unsent(x, r) <= resv[r].corrReads /\ billed[r].reads \in Nat
        BY DEF ProcCounted, ChargeInv, RowsCounted, RowCounted, BillType
    <2> QED BY <2>1, <2>2 DEF RowsStayCounted
<1> QED BY <1>1 DEF ProcCounted

\* The only process goes on to y.
LEMMA OnlyProc ==
    ASSUME OneProcess, NEW p \in Processes, NEW y, proc'[p] = y, ProcCounted(y, resv', billed')
    PROVE  ProcsCounted'
<1>2. \A q \in Processes : proc'[q] = y
    BY DEF OneProcess
<1> QED BY <1>2 DEF ProcsCounted

LEMMA ProcPut ==
    ASSUME BaseInv, NEW p \in Processes, NEW y, proc' = [proc EXCEPT ![p] = y]
    PROVE  proc'[p] = y
BY DEF BaseInv, ProcsInv

\* What a row a process is busy with keeps while the process stays as it is.
StillWorks(w, v) ==
    /\ w.status \in OpenStatus /\ w.attached => v.status \in OpenStatus
    /\ w.pending # NoTime => v.pending # NoTime

LEMMA WorkStays ==
    ASSUME NEW w, NEW v, NEW d, RowKept(w, d),
           \/ v = w \/ Admission(w, v) \/ Attaching(w, v) \/ Releasing(w, v)
           \/ OperatorSettling(w, v) \/ Finishing(w, v)
    PROVE  StillWorks(w, v)
<1>1. CASE v = w
    BY <1>1 DEF StillWorks
<1>2. CASE Admission(w, v)
    <2>1. w.status = "free"
        BY <1>2 DEF Admission
    <2>2. w.pending = NoTime /\ w.status \notin OpenStatus
        BY <2>1 DEF RowKept, OpenStatus
    <2> QED BY <2>2 DEF StillWorks
<1>3. CASE Attaching(w, v)
    <2>1. Keeps(v, w, {"attached"})
        BY <1>3 DEF Attaching
    <2>2. v.status = w.status /\ v.pending = w.pending
        BY <2>1, FieldsOf
    <2> QED BY <2>2 DEF StillWorks
<1>4. CASE Releasing(w, v)
    <2>1. Keeps(v, w, {"status"})
        BY <1>4 DEF Releasing
    <2>2. v.pending = w.pending
        BY <2>1, FieldsOf
    <2>3. ~w.attached
        BY <1>4 DEF Releasing
    <2> QED BY <2>2, <2>3 DEF StillWorks
<1>5. CASE OperatorSettling(w, v)
    <2>1. Keeps(v, w, OperatorFields) /\ w.class = "envelope"
        BY <1>5 DEF OperatorSettling
    <2>2. v.pending = w.pending
        BY <2>1, FieldsOf DEF OperatorFields
    <2>3. ~w.attached
        BY <2>1 DEF RowKept
    <2> QED BY <2>2, <2>3 DEF StillWorks
<1>6. CASE Finishing(w, v)
    <2>1. Keeps(v, w, {"anchor"})
        BY <1>6 DEF Finishing
    <2>2. v.status = w.status /\ v.pending = w.pending
        BY <2>1, FieldsOf
    <2> QED BY <2>2 DEF StillWorks
<1> QED BY <1>1, <1>2, <1>3, <1>4, <1>5, <1>6

LEMMA OneWorks ==
    ASSUME BaseInv, NEW r \in Resv, NEW v, resv' = [resv EXCEPT ![r] = v],
           StillWorks(resv[r], v)
    PROVE  \A q \in Resv : StillWorks(resv[q], resv'[q])
BY DEF BaseInv, RowsInv, StillWorks

LEMMA RowNextWorks ==
    ASSUME BaseInv, NEW r \in Resv, RowNext(r)
    PROVE  \A q \in Resv : StillWorks(resv[q], resv'[q])
<1>1. CASE \E class \in Classes : Reserve(r, class)
    <2>c. PICK class \in Class : Reserve(r, class)
        BY <1>1, ClassAssumption
    <2>1. PICK b : resv' = [resv EXCEPT ![r] = NewRow(class, b)]
        BY <2>c, Zenon DEF Reserve
    <2>2. resv[r].status = "free"
        BY <1>1, Zenon DEF Reserve
    <2>3. Admission(resv[r], NewRow(class, b))
        BY <2>2, NewRowPut
    <2>4. StillWorks(resv[r], NewRow(class, b))
        BY <2>3, RowShape, WorkStays
    <2> QED BY <2>1, <2>4, OneWorks
<1>2. CASE Attach(r)
    <2> DEFINE v == [resv[r] EXCEPT !.attached = TRUE]
    <2>1. resv' = [resv EXCEPT ![r] = v]
        BY <1>2 DEF Attach
    <2>2. Attaching(resv[r], v)
        BY <1>2, RowShape, OneFieldPut DEF Attach
    <2> HIDE DEF v
    <2>3. StillWorks(resv[r], v)
        BY <2>2, RowShape, WorkStays
    <2> QED BY <2>1, <2>3, OneWorks
<1>3. CASE ReleaseUnattached(r)
    <2> DEFINE v == [resv[r] EXCEPT !.status = "released"]
    <2>1. resv' = [resv EXCEPT ![r] = v]
        BY <1>3 DEF ReleaseUnattached
    <2>2. Releasing(resv[r], v)
        BY <1>3, RowShape, OneFieldPut DEF ReleaseUnattached
    <2> HIDE DEF v
    <2>3. StillWorks(resv[r], v)
        BY <2>2, RowShape, WorkStays
    <2> QED BY <2>1, <2>3, OneWorks
<1>4. CASE SettleOperator(r)
    <2>1. resv' = [resv EXCEPT ![r] = OperatorRow(resv[r])]
        BY <1>4, Zenon DEF SettleOperator, OperatorRow
    <2>2. OperatorSettling(resv[r], OperatorRow(resv[r]))
        BY <1>4, RowShape, OperatorPut DEF SettleOperator
    <2>3. StillWorks(resv[r], OperatorRow(resv[r]))
        BY <2>2, RowShape, WorkStays
    <2> QED BY <2>1, <2>3, OneWorks
<1>5. CASE Charge(r)
    BY <1>5 DEF Charge, StillWorks
<1>6. CASE WorkCompletes(r)
    <2>1. CASE resv[r].class \in RuntimeClass
        <3> DEFINE v == [resv[r] EXCEPT !.anchor = now]
        <3>1. resv' = [resv EXCEPT ![r] = v]
            BY <1>6, <2>1 DEF WorkCompletes
        <3>2. resv[r].attached
            BY <1>6 DEF WorkCompletes
        <3>3. Finishing(resv[r], v)
            BY <2>1, <3>2, RowShape, OneFieldPut
        <3> HIDE DEF v
        <3>4. StillWorks(resv[r], v)
            BY <3>3, RowShape, WorkStays
        <3> QED BY <3>1, <3>4, OneWorks
    <2>2. CASE resv[r].class \notin RuntimeClass
        BY <1>6, <2>2 DEF WorkCompletes, StillWorks
    <2> QED BY <2>1, <2>2
<1> QED BY <1>1, <1>2, <1>3, <1>4, <1>5, <1>6 DEF RowNext

\* The processes stand still.
LEMMA StandingCounted ==
    ASSUME ChargeInv, UNCHANGED proc, \A r \in Resv : StillWorks(resv[r], resv'[r]),
           \A r \in Resv : /\ billed'[r].mon = billed[r].mon /\ billed'[r].reads = billed[r].reads
                           /\ resv[r].corrReads <= resv'[r].corrReads
                           /\ resv[r].corrReads \in Int /\ resv'[r].corrReads \in Int
    PROVE  ProcsCounted'
<1>1. ASSUME NEW p \in Processes
      PROVE  ProcCounted(proc[p], resv', billed')
    <2> DEFINE x == proc[p]
    <2>1. ProcCounted(x, resv, billed) /\ ProcKept(x, now, resv)
        BY DEF ChargeInv, ProcsCounted, BaseInv, ProcsInv
    <2>2. x.on \in Resv
        BY <2>1 DEF ProcKept
    <2>3. x.pc \in {"read", "read_sent"} => resv'[x.on].status \in OpenStatus
        BY <2>1, <2>2 DEF ProcCounted, ProcKept, StillWorks
    <2>4. x.pc \in {"monitor", "monitor_sent"} => resv'[x.on].pending # NoTime
        BY <2>1, <2>2 DEF ProcCounted, StillWorks
    <2>5. x.pc = "boot" => \A r \in Resv : billed'[r].mon <= x.started + Guard
        BY <2>1 DEF ProcCounted
    <2>6. ASSUME NEW r \in Resv
          PROVE  billed'[r].reads + Unsent(x, r) <= resv'[r].corrReads
        <3>1. billed[r].reads + Unsent(x, r) <= resv[r].corrReads
            BY <2>1 DEF ProcCounted
        <3>2. billed[r].reads \in Nat /\ Unsent(x, r) \in Nat
            BY DEF ChargeInv, RowsCounted, RowCounted, BillType, Unsent
        <3> QED BY <3>1, <3>2
    <2> QED BY <2>3, <2>4, <2>5, <2>6 DEF ProcCounted
<1> QED BY <1>1 DEF ProcsCounted

LEMMA RowNextCounted ==
    ASSUME ChargeInv, RowsMove, NEW r \in Resv, RowNext(r), ~Charge(r)
    PROVE  RowsCounted' /\ ProcsCounted'
<1>1. UNCHANGED <<proc, billed>>
    BY Zenon DEF RowNext, Reserve, Attach, ReleaseUnattached, SettleOperator, WorkCompletes
<1>2. RowsStayCounted
    BY <1>1, RowsCountedKept
<1>3. \A q \in Resv : StillWorks(resv[q], resv'[q])
    BY RowNextWorks DEF ChargeInv
<1>4. ProcsCounted'
    BY <1>1, <1>2, <1>3, StandingCounted DEF RowsStayCounted
<1> QED BY <1>2, <1>4 DEF RowsStayCounted

\* Nothing but the clock, the cycles, the anchor or the latch moves.
LEMMA StillCounted ==
    ASSUME ChargeInv, RowsMove, UNCHANGED <<resv, proc, billed>>
    PROVE  RowsCounted' /\ ProcsCounted'
<1>1. RowsStayCounted
    BY RowsCountedKept
<1>2. \A q \in Resv : StillWorks(resv[q], resv'[q])
    BY DEF StillWorks
<1>3. ProcsCounted'
    BY <1>1, <1>2, StandingCounted DEF RowsStayCounted
<1> QED BY <1>1, <1>3 DEF RowsStayCounted

\* What the platform's charge does to the bills.
LEMMA BilledRun ==
    ASSUME NEW r, NEW at
    PROVE  Billed(r, TRUE, at) =
               [billed EXCEPT ![r] = [billed[r] EXCEPT !.run = Max({billed[r].run, at})]]
BY DEF Billed

LEMMA BilledMon ==
    ASSUME NEW r, NEW at
    PROVE  Billed(r, FALSE, at) =
               [billed EXCEPT ![r] = [billed[r] EXCEPT !.mon = Max({billed[r].mon, at}),
                                                       !.reads = billed[r].reads + 1]]
BY DEF Billed

\* The bill of one row grows.
LEMMA OneBilled ==
    ASSUME ChargeInv, NEW r \in Resv, NEW c, billed' = [billed EXCEPT ![r] = c],
           UNCHANGED <<resv, now>>, RowCounted(resv[r], c, now)
    PROVE  /\ RowsCounted'
           /\ \A q \in Resv : billed'[q] = IF q = r THEN c ELSE billed[q]
<1>1. billed' = [q \in Resv |-> billed'[q]] /\ \A q \in Resv : billed'[q] = IF q = r THEN c ELSE billed[q]
    BY DEF ChargeInv, RowsCounted
<1>2. ASSUME NEW q \in Resv
      PROVE  RowCounted(resv'[q], billed'[q], now') /\ Allowed(resv'[q])
    BY <1>1 DEF ChargeInv, RowsCounted
<1> QED BY <1>1, <1>2 DEF RowsCounted

LEMMA ChargeCounted ==
    ASSUME ChargeInv, NEW r \in Resv, Charge(r)
    PROVE  RowsCounted' /\ ProcsCounted'
<1> DEFINE w == resv[r]
           b == billed[r]
<1>1. PICK s \in Skew : billed' = [billed EXCEPT ![r] = [b EXCEPT !.run = Max({b.run, now + s})]]
    BY BilledRun, Zenon DEF Charge
<1>2. w.status \in OpenStatus /\ (w.attached \/ w.class = "envelope") /\ UNCHANGED <<now, resv, proc>>
    BY DEF Charge
<1>3. now \in Nat /\ RowType(w, now) /\ RowCounted(w, b, now)
    BY Amounts DEF ChargeInv, BaseInv, RowsInv, RowsCounted, Time
<1> DEFINE c == [b EXCEPT !.run = Max({b.run, now + s})]
<1>4. RowCounted(w, c, now) /\ c.reads = b.reads /\ c.mon = b.mon
    BY <1>2, <1>3, RunBilled
<1>5. billed' = [billed EXCEPT ![r] = c]
    BY <1>1
<1> HIDE DEF c
<1>6. RowsCounted' /\ \A q \in Resv : billed'[q] = IF q = r THEN c ELSE billed[q]
    BY <1>2, <1>4, <1>5, OneBilled
<1>7. ProcsCounted'
    <2>1. \A q \in Resv : StillWorks(resv[q], resv'[q])
        BY <1>2 DEF StillWorks
    <2>2. \A q \in Resv : billed'[q].mon = billed[q].mon /\ billed'[q].reads = billed[q].reads
        BY <1>4, <1>6
    <2>3. \A q \in Resv : /\ resv[q].corrReads <= resv'[q].corrReads
                          /\ resv[q].corrReads \in Int /\ resv'[q].corrReads \in Int
        <3>1. \A q \in Resv : resv[q].corrReads \in Int
            BY DEF ChargeInv, BaseInv, RowsInv, RowType
        <3> QED BY <1>2, <3>1
    <2> QED BY <1>2, <2>1, <2>2, <2>3, StandingCounted
<1> QED BY <1>6, <1>7

\* A counted call is sent, and charged.
LEMMA SendCounted ==
    ASSUME ChargeInv, OneProcess, NEW p \in Processes, Send(p)
    PROVE  RowsCounted' /\ ProcsCounted'
<1> DEFINE x == proc[p]
           r == x.on
           w == resv[r]
           b == billed[r]
<1>1. r \in Resv /\ UNCHANGED <<now, resv>>
    <2>1. r \in Resv
        BY DEF ChargeInv, BaseInv, ProcsInv, ProcKept
    <2> QED BY <2>1, Zenon DEF Send
<1>2. now \in Nat /\ RowType(w, now) /\ RowCounted(w, b, now)
    BY <1>1, Amounts DEF ChargeInv, BaseInv, RowsInv, RowsCounted, Time
<1>3. ProcCounted(x, resv, billed) /\ ProcKept(x, now, resv)
    BY DEF ChargeInv, ProcsCounted, BaseInv, ProcsInv
<1>4. \A q \in Resv : resv[q].corrReads \in Int /\ billed[q].reads \in Nat
    BY DEF ChargeInv, BaseInv, RowsInv, RowType, RowsCounted, RowCounted, BillType
<1>5. CASE x.pc = "read"
    <2>1. PICK s \in Skew : billed' = Billed(r, TRUE, now + s) /\ Goto(p, "read_sent", r)
        BY <1>5, Zenon DEF Send
    <2> DEFINE c == [b EXCEPT !.run = Max({b.run, now + s})]
    <2>2. billed' = [billed EXCEPT ![r] = c]
        BY <2>1, BilledRun, Zenon
    <2>3. w.status \in OpenStatus
        BY <1>3, <1>5 DEF ProcCounted
    <2>4. w.attached
        BY <1>3, <1>5 DEF ProcKept
    <2>5. RowCounted(w, c, now) /\ c.reads = b.reads /\ c.mon = b.mon
        BY <1>2, <2>3, <2>4, RunBilled
    <2> HIDE DEF c
    <2>6. RowsCounted' /\ \A q \in Resv : billed'[q] = IF q = r THEN c ELSE billed[q]
        <3>1. RowCounted(resv[r], c, now)
            BY <2>5
        <3>2. billed' = [billed EXCEPT ![r] = c] /\ UNCHANGED <<resv, now>>
            BY <1>1, <2>2
        <3> QED BY <1>1, <3>1, <3>2, OneBilled, Zenon
    <2> DEFINE y == At(x, "read_sent", r)
    <2>7. proc' = [proc EXCEPT ![p] = y]
        BY <2>1, GotoIs DEF ChargeInv
    <2>8. y.pc = "read_sent" /\ y.on = r
        BY DEF At
    <2> HIDE DEF y
    <2>9. ASSUME NEW q \in Resv
          PROVE  billed'[q].reads + Unsent(y, q) <= resv'[q].corrReads
        <3>1. Unsent(y, q) = 0 /\ Unsent(x, q) = 0
            BY <1>5, <2>8 DEF Unsent
        <3>2. billed[q].reads + Unsent(x, q) <= resv[q].corrReads
            BY <1>3 DEF ProcCounted
        <3>3. billed'[q].reads = billed[q].reads
            BY <2>5, <2>6
        <3> QED BY <1>1, <1>4, <3>1, <3>2, <3>3
    <2>10. ProcCounted(y, resv', billed')
        BY <1>1, <2>3, <2>8, <2>9 DEF ProcCounted
    <2>11. ProcsCounted'
        BY <2>7, <2>10, ProcPut, OnlyProc DEF ChargeInv
    <2> QED BY <2>6, <2>11
<1>6. CASE x.pc # "read"
    <2>1. PICK s \in Skew : billed' = Billed(r, FALSE, now + s) /\ Goto(p, "monitor_sent", r)
        BY <1>6, Zenon DEF Send
    <2>2. x.pc = "monitor"
        BY <1>6, Zenon DEF Send
    <2> DEFINE c == [b EXCEPT !.mon = Max({b.mon, now + s}), !.reads = b.reads + 1]
    <2>3. billed' = [billed EXCEPT ![r] = c]
        BY <2>1, BilledMon, Zenon
    <2>4. w.status = "reconciled" /\ w.pending # NoTime
        BY <1>3, <2>2 DEF ProcCounted, ProcKept
    <2>5. RowCounted(w, c, now) /\ c.reads = b.reads + 1
        BY <1>2, <2>4, MonBilled, Zenon
    <2> HIDE DEF c
    <2>6. RowsCounted' /\ \A q \in Resv : billed'[q] = IF q = r THEN c ELSE billed[q]
        <3>1. RowCounted(resv[r], c, now)
            BY <2>5
        <3>2. billed' = [billed EXCEPT ![r] = c] /\ UNCHANGED <<resv, now>>
            BY <1>1, <2>3
        <3> QED BY <1>1, <3>1, <3>2, OneBilled, Zenon
    <2> DEFINE y == At(x, "monitor_sent", r)
    <2>7. proc' = [proc EXCEPT ![p] = y]
        BY <2>1, GotoIs DEF ChargeInv
    <2>8. y.pc = "monitor_sent" /\ y.on = r
        BY DEF At
    <2> HIDE DEF y
    <2>9. ASSUME NEW q \in Resv
          PROVE  billed'[q].reads + Unsent(y, q) <= resv'[q].corrReads
        <3>1. Unsent(y, q) = 0 /\ Unsent(x, q) = IF q = r THEN 1 ELSE 0
            BY <2>2, <2>8 DEF Unsent
        <3>2. billed[q].reads + Unsent(x, q) <= resv[q].corrReads
            BY <1>3 DEF ProcCounted
        <3>3. billed'[q].reads = IF q = r THEN billed[q].reads + 1 ELSE billed[q].reads
            BY <2>5, <2>6
        <3> QED BY <1>1, <1>4, <3>1, <3>2, <3>3
    <2>10. ProcCounted(y, resv', billed')
        BY <1>1, <2>4, <2>8, <2>9 DEF ProcCounted
    <2>11. ProcsCounted'
        BY <2>7, <2>10, ProcPut, OnlyProc DEF ChargeInv
    <2> QED BY <2>6, <2>11
<1> QED BY <1>5, <1>6

\* The only process counts a settlement read, or a monitoring read.
LEMMA PlanReadCounted ==
    ASSUME ChargeInv, RowsStayCounted, UNCHANGED billed, OneProcess,
           NEW p \in Processes, NEW r \in Resv, PlanRead(p, r)
    PROVE  ProcsCounted'
<1> DEFINE x == proc[p]
           y == At(x, "read", r)
           v == [resv[r] EXCEPT !.polls = resv[r].polls + 1]
<1>1. /\ x.pc = "idle" /\ Goto(p, "read", r) /\ resv' = [resv EXCEPT ![r] = v]
      /\ resv[r].status \in OpenStatus /\ resv[r].polls < MaxRunPolls
    BY DEF PlanRead, Idle
<1>2. resv[r].attached
    BY DEF PlanRead
<1>3. Polling(resv[r], v)
    BY <1>1, <1>2, RowShape, OneFieldPut DEF ChargeInv
<1> HIDE DEF v
<1>4. Keeps(v, resv[r], {"polls"})
    BY <1>3 DEF Polling
<1>5. v.status = resv[r].status
    BY <1>4, FieldsOf
<1>6. resv'[r].status \in OpenStatus
    <2>1. resv = [q \in Resv |-> resv[q]]
        BY DEF ChargeInv, BaseInv, RowsInv
    <2>2. resv'[r] = v
        BY <1>1, <2>1
    <2> QED BY <1>1, <1>5, <2>2
<1>7. proc' = [proc EXCEPT ![p] = y]
    BY <1>1, GotoIs DEF ChargeInv
<1>8. y.pc = "read" /\ y.on = r
    BY DEF At
<1> HIDE DEF y
<1>9. ASSUME NEW q \in Resv
      PROVE  billed'[q].reads + Unsent(y, q) <= resv'[q].corrReads
    <2>1. Unsent(y, q) = 0 /\ Unsent(x, q) = 0
        BY <1>1, <1>8 DEF Unsent
    <2>2. billed[q].reads + Unsent(x, q) <= resv[q].corrReads /\ billed[q].reads \in Nat
        BY DEF ChargeInv, ProcsCounted, ProcCounted, RowsCounted, RowCounted, BillType
    <2> QED BY <2>1, <2>2 DEF RowsStayCounted
<1>10. ProcCounted(y, resv', billed')
    BY <1>6, <1>8, <1>9 DEF ProcCounted
<1> QED BY <1>7, <1>10, ProcPut, OnlyProc DEF ChargeInv

LEMMA BeginCounted ==
    ASSUME ChargeInv, RowsStayCounted, UNCHANGED billed, OneProcess,
           NEW p \in Processes, NEW r \in Resv, ReadBegun(p, r)
    PROVE  ProcsCounted'
<1> DEFINE x == proc[p]
           y == At(x, "monitor", r)
           v == BegunRow(resv[r])
<1>1. x.pc = "idle" /\ Goto(p, "monitor", r) /\ resv' = [resv EXCEPT ![r] = v]
    BY DEF ReadBegun
<1>2. v.corrReads = resv[r].corrReads + 1 /\ v.pending = now
    BY RowShape, BegunPut DEF ChargeInv
<1> HIDE DEF v
<1>3. resv'[r] = v
    BY <1>1 DEF ChargeInv, BaseInv, RowsInv
<1>4. resv'[r].pending # NoTime
    BY <1>2, <1>3 DEF ChargeInv, BaseInv, RowsInv, Time, NoTime
<1>5. proc' = [proc EXCEPT ![p] = y]
    BY <1>1, GotoIs DEF ChargeInv
<1>6. y.pc = "monitor" /\ y.on = r
    BY DEF At
<1> HIDE DEF y
<1>7. ASSUME NEW q \in Resv
      PROVE  billed'[q].reads + Unsent(y, q) <= resv'[q].corrReads
    <2>1. Unsent(x, q) = 0 /\ Unsent(y, q) = IF q = r THEN 1 ELSE 0
        BY <1>1, <1>6 DEF Unsent
    <2>2. billed[q].reads + Unsent(x, q) <= resv[q].corrReads /\ billed[q].reads \in Nat
        BY DEF ChargeInv, ProcsCounted, ProcCounted, RowsCounted, RowCounted, BillType
    <2>3. /\ resv[q].corrReads <= resv'[q].corrReads
          /\ resv[q].corrReads \in Int /\ resv'[q].corrReads \in Int
        BY DEF RowsStayCounted
    <2>4. q = r => resv'[q].corrReads = resv[q].corrReads + 1
        BY <1>2, <1>3
    <2> QED BY <2>1, <2>2, <2>3, <2>4
<1>8. ProcCounted(y, resv', billed')
    BY <1>4, <1>6, <1>7 DEF ProcCounted
<1> QED BY <1>5, <1>8, ProcPut, OnlyProc DEF ChargeInv

\* A process that starts: no call of this process lifetime has been sent.
LEMMA BootCounted ==
    ASSUME ChargeInv, OneProcess, NEW p \in Processes, Boot(p)
    PROVE  ProcsCounted'
<1>1. UNCHANGED <<resv, billed>> /\ proc[p].pc = "down"
    BY DEF Boot
<1>2. ProcCounted(proc[p], resv, billed)
    BY DEF ChargeInv, ProcsCounted
<1> DEFINE y == proc'[p]
<1>3. ASSUME y.pc \in {"boot", "idle"}, y.pc = "boot" => y.started = now
      PROVE  ProcsCounted'
    <2> HIDE DEF y
    <2>1. ASSUME NEW q \in Resv
          PROVE  billed'[q].reads + Unsent(y, q) <= resv'[q].corrReads
        <3>1. Unsent(proc[p], q) = 0 /\ Unsent(y, q) = 0
            BY <1>1, <1>3 DEF Unsent
        <3>2. billed[q].reads + Unsent(proc[p], q) <= resv[q].corrReads
            BY <1>2 DEF ProcCounted
        <3>3. billed'[q] = billed[q] /\ resv'[q] = resv[q]
            BY <1>1
        <3>4. billed'[q].reads = billed[q].reads /\ resv'[q].corrReads = resv[q].corrReads
            BY <3>3
        <3> QED BY <3>1, <3>2, <3>4
    <2>2. y.pc = "boot" => \A q \in Resv : billed'[q].mon <= y.started + Guard
        BY <1>1, <1>3 DEF ChargeInv, RowsCounted, RowCounted, BillType
    <2>3. ProcCounted(y, resv', billed')
        BY <1>3, <2>1, <2>2 DEF ProcCounted
    <2> QED BY <2>3, OnlyProc DEF y
<1>4. CASE p \in Pollers
    <2> DEFINE u == Booted(p)
    <2>1. proc' = [proc EXCEPT ![p] = u]
        BY <1>4, BootIs DEF ChargeInv
    <2>2. u.pc = "boot" /\ u.started = now
        BY DEF Booted
    <2> HIDE DEF u
    <2>3. proc'[p] = u
        BY <2>1, ProcPut DEF ChargeInv
    <2> QED BY <1>3, <2>2, <2>3
<1>5. CASE p \notin Pollers
    <2> DEFINE u == At(proc[p], "idle", proc[p].on)
    <2>1. proc' = [proc EXCEPT ![p] = u]
        BY <1>5, BootIs DEF ChargeInv
    <2>2. u.pc = "idle"
        BY DEF At
    <2> HIDE DEF u
    <2>3. proc'[p] = u
        BY <2>1, ProcPut DEF ChargeInv
    <2> QED BY <1>3, <2>2, <2>3
<1> QED BY <1>4, <1>5

LEMMA ProcNextCounted ==
    ASSUME ChargeInv, RowsMove, OneProcess, NEW p \in Processes, ProcNext(p)
    PROVE  RowsCounted' /\ ProcsCounted'
<1> DEFINE x == proc[p]
<1>1. BaseInv /\ ProcCounted(x, resv, billed)
    BY DEF ChargeInv, ProcsCounted
<1>2. CASE Send(p)
    BY <1>2, SendCounted
<1>3. CASE ~Send(p)
    <2>1. UNCHANGED billed
        BY <1>3, Zenon DEF ProcNext, PlanSettles, PlanRead, SelectMonitoring, BeginMonitoring, RecordUsage,
           ReadFails, CompleteMonitoring, MonitoringFails, Lose, Boot, ResolveMarkers
    <2>2. RowsStayCounted
        BY <2>1, RowsCountedKept
    <2>3. RowsCounted'
        BY <2>2 DEF RowsStayCounted
    <2>4. ASSUME proc'[p].pc \in {"idle", "down"}
          PROVE  RowsCounted' /\ ProcsCounted'
        <3> DEFINE y == proc'[p]
        <3>1. y.pc \in {"idle", "down"}
            BY <2>4
        <3> HIDE DEF y
        <3>2. ProcCounted(y, resv', billed')
            BY <1>1, <2>1, <2>2, <3>1, QuietCounted
        <3> QED BY <2>3, <3>2, OnlyProc DEF y
    <2>5. CASE \E r \in Resv : PlanSettles(p, r)
        <3>1. UNCHANGED proc /\ x.pc = "idle"
            BY <2>5, Zenon DEF PlanSettles, Idle
        <3>2. proc'[p].pc = "idle"
            BY <3>1
        <3> QED BY <2>4, <3>2
    <2>6. CASE \E r \in Resv : PlanRead(p, r)
        BY <2>1, <2>2, <2>3, <2>6, PlanReadCounted
    <2>7. CASE SelectMonitoring(p) \/ \E r \in Resv : BeginMonitoring(p, r)
        <3>1. CASE Quiet
            <4>1. UNCHANGED <<resv, proc, billed>>
                BY <3>1 DEF Quiet
            <4> QED BY <4>1, StillCounted
        <3>2. ASSUME NEW r \in Resv, ReadBegun(p, r)
              PROVE  RowsCounted' /\ ProcsCounted'
            BY <2>1, <2>2, <2>3, <3>2, BeginCounted
        <3> QED BY <2>7, <3>1, <3>2, MonitoringBegins
    <2>8. CASE \/ \E total \in Figures \union {NoFigure}, e \in {FALSE, Excess} : RecordUsage(p, total, e)
               \/ \E e \in {FALSE, Excess} : ReadFails(p, e)
               \/ \E total \in Figures, e \in {FALSE, Excess} : CompleteMonitoring(p, total, e)
               \/ \E e \in {FALSE, Excess} : MonitoringFails(p, e)
        <3>1. Goto(p, "idle", x.on)
            BY <2>8, Zenon DEF RecordUsage, ReadFails, CompleteMonitoring, MonitoringFails
        <3> DEFINE y == At(x, "idle", x.on)
        <3>2. proc' = [proc EXCEPT ![p] = y]
            BY <1>1, <3>1, GotoIs
        <3>3. y.pc = "idle"
            BY DEF At
        <3> HIDE DEF y
        <3>4. proc'[p].pc \in {"idle", "down"}
            BY <1>1, <3>2, <3>3, ProcPut
        <3> QED BY <2>4, <3>4
    <2>9. CASE Lose(p)
        <3> DEFINE y == At(x, "down", x.on)
        <3>1. proc' = [proc EXCEPT ![p] = y]
            BY <1>1, <2>9, LoseIs
        <3>2. y.pc = "down"
            BY DEF At
        <3> HIDE DEF y
        <3>4. proc'[p].pc \in {"idle", "down"}
            BY <1>1, <3>1, <3>2, ProcPut
        <3> QED BY <2>4, <3>4
    <2>10. CASE Boot(p)
        BY <2>3, <2>10, BootCounted
    <2>11. CASE ResolveMarkers(p)
        <3> DEFINE y == Ready(p)
        <3>1. proc' = [proc EXCEPT ![p] = y]
            BY <1>1, <2>11, ResolveIs
        <3>2. y.pc = "idle"
            BY DEF Ready
        <3> HIDE DEF y
        <3>4. proc'[p].pc \in {"idle", "down"}
            BY <1>1, <3>1, <3>2, ProcPut
        <3> QED BY <2>4, <3>4
    <2> QED BY <1>3, <2>5, <2>6, <2>7, <2>8, <2>9, <2>10, <2>11 DEF ProcNext
<1> QED BY <1>2, <1>3

LEMMA ChargeKept == OneProcess /\ ChargeInv /\ [Next]_vars => ChargeInv'
<1> SUFFICES ASSUME OneProcess, ChargeInv, [Next]_vars
             PROVE  ChargeInv'
    OBVIOUS
<1>1. RowsMove /\ BaseInv'
    BY BaseKept DEF Base, ChargeInv
<1>2. CASE UNCHANGED vars \/ OwnerNext \/ Tick
    <2>1. UNCHANGED <<resv, proc, billed>>
        BY <1>2, Zenon DEF vars, OwnerNext, ClaimOrigin, ClearLatch, ChangeAnchor, Tick
    <2> QED BY <1>1, <2>1, StillCounted DEF ChargeInv
<1>3. ASSUME NEW r \in Resv, RowNext(r)
      PROVE  ChargeInv'
    BY <1>1, <1>3, ChargeCounted, RowNextCounted DEF ChargeInv
<1>4. ASSUME NEW p \in Processes, ProcNext(p)
      PROVE  ChargeInv'
    BY <1>1, <1>4, ProcNextCounted DEF ChargeInv
<1> QED BY <1>2, <1>3, <1>4 DEF Next

LEMMA ChargeInit == Init => ChargeInv
<1> SUFFICES ASSUME Init
             PROVE  ChargeInv
    OBVIOUS
<1>1. now = 0 /\ billed = [r \in Resv |-> NoBill]
    BY DEF Init
<1>2. \A r \in Resv : billed[r] = NoBill
    BY <1>1
<1>3. /\ NoBill = [run |-> NoBill.run, mon |-> NoBill.mon, reads |-> NoBill.reads]
      /\ NoBill.run \in Int /\ NoBill.mon \in Int /\ NoBill.reads = 0
      /\ NoBill.run <= 0 + Guard /\ NoBill.mon <= 0 + Guard
    BY Amounts DEF NoBill
<1>4. ASSUME NEW r \in Resv
      PROVE  RowCounted(resv[r], billed[r], now) /\ Allowed(resv[r])
    <2>1. resv[r].status = "free" /\ resv[r].corrReads = 0 /\ resv[r].mon = 0
        BY DEF Init, FreeRow
    <2>2. 0 * Call = 0
        BY Amounts
    <2>3. resv[r].corrReads * Call <= resv[r].mon
        <3> DEFINE z == 0 * Call
        <3>1. resv[r].corrReads * Call = z /\ z = 0
            BY <2>1, <2>2
        <3> HIDE DEF z
        <3> QED BY <2>1, <3>1
    <2>4. Allowed(resv[r])
        BY <2>1, <2>3 DEF Allowed, OpenStatus
    <2>5. BillType(billed[r], now)
        BY <1>1, <1>2, <1>3 DEF BillType
    <2>6. RowCounted(resv[r], billed[r], now)
        BY <1>2, <2>5 DEF RowCounted
    <2> QED BY <2>4, <2>6
<1>5. RowsCounted
    BY <1>1, <1>4 DEF RowsCounted
<1>6. ProcsCounted
    <2>1. ASSUME NEW p \in Processes
          PROVE  ProcCounted(proc[p], resv, billed)
        <3>1. proc[p].pc \in {"idle", "down"}
            BY DEF Init
        <3>2. ASSUME NEW r \in Resv
              PROVE  billed[r].reads + Unsent(proc[p], r) <= resv[r].corrReads
            <4>1. billed[r].reads = 0 /\ Unsent(proc[p], r) = 0
                BY <1>2, <1>3, <3>1 DEF Unsent
            <4>2. resv[r].corrReads = 0
                BY DEF Init, FreeRow
            <4> QED BY <4>1, <4>2
        <3> QED BY <3>1, <3>2 DEF ProcCounted
    <2> QED BY <2>1 DEF ProcsCounted
<1> QED BY <1>5, <1>6, BaseInit DEF ChargeInv

LEMMA CountedIs == ChargeInv /\ OneProcess => (Processes # {} => ChargesCounted)
<1> SUFFICES ASSUME ChargeInv, OneProcess, NEW p \in Processes
             PROVE  ChargesCounted
    OBVIOUS
<1>1. ASSUME NEW r \in Resv, billed[r].run # NoBill.run
      PROVE  RunCounted(resv[r], billed[r].run, billed[r].run)
    <2> DEFINE w == resv[r]
               t == billed[r].run
    <2>1. RunBills(w, billed[r]) /\ t \in Int
        BY <1>1 DEF ChargeInv, RowsCounted, RowCounted, BillType
    <2>2. w.reservedAt \in Int /\ w.lastChargeAt \in Int /\ Guard \in Nat
        <3>1. RowType(w, now) /\ now \in Nat
            BY Amounts DEF ChargeInv, BaseInv, RowsInv, Time
        <3> HIDE DEF w, t
        <3>2. w.reservedAt \in Past(now) /\ w.lastChargeAt \in Past(now)
            BY <3>1 DEF RowType
        <3>3. w.reservedAt \in Int /\ w.lastChargeAt \in Int
            BY <3>1, <3>2 DEF Past
        <3> QED BY <3>3, Amounts
    <2>3. w.reservedAt <= t + Guard
        BY <2>1, <2>2 DEF RunBills
    <2> QED BY <2>1, <2>3 DEF RunBills, RunCounted, Touches
<1>2. ASSUME NEW r \in Resv, billed[r].mon # NoBill.mon
      PROVE  MonitoringCounted(resv[r], billed[r].mon, billed[r].mon)
    <2> DEFINE w == resv[r]
               t == billed[r].mon
    <2>1. MonBills(w, billed[r]) /\ t \in Int /\ t <= now + Guard
        BY <1>2 DEF ChargeInv, RowsCounted, RowCounted, BillType
    <2>2. now \in Nat /\ now <= MaxTime /\ MaxTime \in Nat /\ Guard \in Nat /\ CycleLen \in Nat
        BY Amounts, CycleAssumption DEF ChargeInv, BaseInv, RowsInv, Time
    <2>3. t <= Never
        BY <2>1, <2>2 DEF Never
    <2>4. t <= MonitoringEnd(w)
        <3>1. CASE MonitoringOpen(w)
            BY <2>3, <3>1 DEF MonitoringEnd
        <3>2. CASE ~MonitoringOpen(w)
            <4>1. w.pending = NoTime
                BY <3>2 DEF MonitoringOpen
            <4>2. w.monLast # NoTime /\ t <= w.monLast + Guard
                BY <2>1, <4>1 DEF MonBills
            <4> QED BY <3>2, <4>2 DEF MonitoringEnd
        <3> QED BY <3>1, <3>2
    <2> QED BY <2>1, <2>4 DEF MonBills, MonitoringCounted, Touches
<1>3. ASSUME NEW r \in Resv
      PROVE  billed[r].reads * Call <= resv[r].mon
    <2> DEFINE k == resv[r].corrReads
               j == billed[r].reads
    <2>1. k \in Nat /\ resv[r].mon \in Nat
        <3>1. k \in 0..MaxCorrReads /\ resv[r].mon \in Nat
            BY Zenon DEF ChargeInv, BaseInv, RowsInv, RowType
        <3> QED BY <3>1, Amounts
    <2>2. j \in Nat /\ Unsent(proc[p], r) \in Nat /\ j + Unsent(proc[p], r) <= k
        BY DEF ChargeInv, ProcsCounted, ProcCounted, RowsCounted, RowCounted, BillType, Unsent
    <2>3. k * Call <= resv[r].mon
        BY DEF ChargeInv, RowsCounted, Allowed
    <2> HIDE DEF k, j
    <2>4. j <= k
        BY <2>1, <2>2
    <2> DEFINE a == j * Call
               c == k * Call
    <2>5. a \in Nat /\ c \in Nat /\ a <= c /\ c <= resv[r].mon
        BY <2>1, <2>2, <2>3, <2>4, CallsType
    <2> HIDE DEF a, c
    <2>6. a <= resv[r].mon
        BY <2>1, <2>5
    <2> QED BY <2>6 DEF a, j
<1> QED BY <1>1, <1>2, <1>3 DEF ChargesCounted, RunChargesCounted, MonitoringChargesCounted,
                                ReadsWithinAllowance

\* With one process, whatever the platform charges for a row is counted in every
\* cycle the charge can fall in, and the selector-4 calls stay within the
\* allowance, however calls are lost with the process and however late it
\* resolves their markers (_try_settle, begin_monitoring_read,
\* complete_monitoring_read, resolve_stale_monitoring_markers).
THEOREM ChargesAlwaysCounted ==
    ASSUME OneProcess, Processes # {}
    PROVE  Spec => []ChargesCounted
<1>1. ChargeInv => ChargesCounted
    BY CountedIs
<1>2. ChargeInv /\ [Next]_vars => ChargeInv'
    BY ChargeKept
<1> QED BY <1>1, <1>2, ChargeInit, PTL DEF Spec

(* The caps: what the rows admitted by the end of a cycle debit to it.     *)

\* What a row admitted by the end of the cycle c debits to it, if its class is in
\* k: its run alone, or with full its monitoring allowance too.
Part(full, w, ys, ye) == IF full THEN Debit(w, ys, ye) ELSE RunDebit(w, ys, ye)
Share(full, w, k, c) ==
    IF w.class \in k /\ w.reservedAt <= c.end THEN Part(full, w, c.start, c.end) ELSE 0
ShareTotal(full, rows, k, c) == SumFunction([r \in Resv |-> Share(full, rows[r], k, c)])

Kinds == {RuntimeClass, Class \ RuntimeClass, Class}
CapOf(k) ==
    IF k = RuntimeClass THEN Allocation
    ELSE IF k = Class THEN Max({Usable - External, 0}) ELSE Allowance

Live(w) == w.status \notin {"free", "denied"}
Admits(rows, k, c) ==
    \E r \in Resv : Live(rows[r]) /\ rows[r].class \in k /\ Covers(c, rows[r].reservedAt)
CapsOf(full, rows, S) ==
    \A c \in S, k \in Kinds :
        (full => Admits(rows, k, c)) => ShareTotal(full, rows, k, c) <= CapOf(k)

LEMMA CapType ==
    /\ Allocation \in Nat /\ Allowance \in Nat /\ Usable \in Nat /\ External \in Nat
    /\ CapOf(RuntimeClass) = Allocation
    /\ CapOf(Class \ RuntimeClass) = Allowance
    /\ CapOf(Class) = Max({Usable - External, 0})
    /\ \A k \in Kinds : CapOf(k) \in Nat /\ k \subseteq Class
<1>1. /\ Allocation \in Nat /\ Allowance \in Nat /\ Usable \in Nat /\ External \in Nat
    BY AmountAssumption DEF Allocation
<1>2. /\ RuntimeClass # Class /\ Class \ RuntimeClass # RuntimeClass
      /\ Class \ RuntimeClass # Class /\ RuntimeClass \subseteq Class
    <2>1. "watch_refresh" \in RuntimeClass /\ "build" \notin RuntimeClass /\ "build" \in Class
          /\ "watch_refresh" \in Class /\ RuntimeClass \subseteq Class
        BY DEF RuntimeClass, Class
    <2> QED BY <2>1
<1>3. Max({Usable - External, 0}) \in Nat
    BY <1>1, MaxOfTwo
<1> QED BY <1>1, <1>2, <1>3 DEF CapOf, Kinds

\* What a row debits is an amount.
LEMMA DebitType ==
    ASSUME NEW w, NEW t, RowType(w, t), NEW ys, NEW ye
    PROVE  /\ RunDebit(w, ys, ye) \in Nat /\ MonitoringDebit(w, ys, ye) \in Nat
           /\ RunDebit(w, ys, ye) <= Debit(w, ys, ye) /\ Debit(w, ys, ye) \in Nat
<1>1. w.actual \in Nat /\ w.mon \in Nat
    BY DEF RowType
<1>2. Estimate(w) \in Nat
    BY Amounts DEF Estimate, EstimateOf, ExecBound, PostBound, MarginOf
<1>3. RunDebit(w, ys, ye) \in Nat /\ MonitoringDebit(w, ys, ye) \in Nat
    BY <1>1, <1>2 DEF RunDebit, MonitoringDebit
<1> QED BY <1>3 DEF Debit

LEMMA ShareType ==
    ASSUME NEW w, NEW t, RowType(w, t), NEW full \in BOOLEAN, NEW k, NEW c
    PROVE  /\ Share(full, w, k, c) \in Nat
           /\ Share(full, w, k, c) <= (IF w.class \in k THEN Debit(w, c.start, c.end) ELSE 0)
           /\ (IF w.class \in k THEN Debit(w, c.start, c.end) ELSE 0) \in Nat
<1> DEFINE d == Debit(w, c.start, c.end)
           p == Part(full, w, c.start, c.end)
<1>1. d \in Nat /\ p \in Nat /\ p <= d
    BY DebitType DEF Part
<1> HIDE DEF d, p
<1>2. Share(full, w, k, c) = IF w.class \in k /\ w.reservedAt <= c.end THEN p ELSE 0
    BY DEF Share, p
<1>3. /\ Share(full, w, k, c) \in Nat
      /\ Share(full, w, k, c) <= (IF w.class \in k THEN d ELSE 0)
      /\ (IF w.class \in k THEN d ELSE 0) \in Nat
    BY <1>1, <1>2
<1> QED BY <1>3 DEF d
-----------------------------------------------------------------------------
(* Moves that debit no more.                                               *)

\* v is no newly admitted row.
SameAdmission(w, v) == Live(v) => Live(w) /\ v.class = w.class /\ v.reservedAt = w.reservedAt
\* It is not, and no heavier than w in any cycle.
Lighter(full, w, v) ==
    /\ \A k, c : c \in Cycle => Share(full, v, k, c) <= Share(full, w, k, c)
    /\ SameAdmission(w, v)

LEMMA TotalFalls ==
    ASSUME NEW old, NEW new, NEW t, NEW s, NEW full \in BOOLEAN, NEW k, NEW c, NEW x,
           \A r \in Resv : RowType(old[r], t) /\ RowType(new[r], s),
           \A r \in Resv : Share(full, new[r], k, x) <= Share(full, old[r], k, c)
    PROVE  /\ ShareTotal(full, new, k, x) <= ShareTotal(full, old, k, c)
           /\ ShareTotal(full, new, k, x) \in Int /\ ShareTotal(full, old, k, c) \in Int
<1> DEFINE f == [r \in Resv |-> Share(full, old[r], k, c)]
           g == [r \in Resv |-> Share(full, new[r], k, x)]
<1>1. f \in [Resv -> Int] /\ g \in [Resv -> Int]
    BY ShareType
<1>2. \A r \in Resv : g[r] <= f[r]
    OBVIOUS
<1>3. IsFiniteSet(Resv)
    BY ReservationAssumption
<1>4. ShareTotal(full, old, k, c) = SumFunction(f) /\ ShareTotal(full, new, k, x) = SumFunction(g)
    BY DEF ShareTotal
<1> HIDE DEF f, g
<1> QED BY <1>1, <1>2, <1>3, <1>4, SumMonotone, SumType

LEMMA LighterSame == ASSUME NEW full \in BOOLEAN, NEW w, NEW t, RowType(w, t)  PROVE Lighter(full, w, w)
<1>1. \A k, c : Share(full, w, k, c) \in Nat
    BY ShareType
<1> QED BY <1>1 DEF Lighter, SameAdmission

\* It is enough that the debits of a row of one class and one admission fall.
LEMMA LighterParts ==
    ASSUME NEW full \in BOOLEAN, NEW w, NEW v, v.class = w.class, v.reservedAt = w.reservedAt,
           Live(w), NEW t, RowType(w, t), RowType(v, t),
           \A c \in Cycle : Part(full, v, c.start, c.end) <= Part(full, w, c.start, c.end)
    PROVE  Lighter(full, w, v)
<1>1. ASSUME NEW k, NEW c, c \in Cycle
      PROVE  Share(full, v, k, c) <= Share(full, w, k, c)
    <2> DEFINE p == Part(full, v, c.start, c.end)
               q == Part(full, w, c.start, c.end)
    <2>1. p <= q
        BY <1>1
    <2>2. /\ Share(full, v, k, c) = IF w.class \in k /\ w.reservedAt <= c.end THEN p ELSE 0
          /\ Share(full, w, k, c) = IF w.class \in k /\ w.reservedAt <= c.end THEN q ELSE 0
        BY DEF Share
    <2> HIDE DEF p, q
    <2> QED BY <2>1, <2>2
<1> QED BY <1>1 DEF Lighter, SameAdmission

\* Rows that agree on what a debit is made of.
LEMMA DebitFrame ==
    ASSUME NEW w, NEW v, v.class = w.class, v.reservedAt = w.reservedAt, v.status = w.status,
           v.actual = w.actual, v.lastChargeAt = w.lastChargeAt, v.mon = w.mon,
           v.reconciledAt = w.reconciledAt, v.closedAt = w.closedAt, v.pending = w.pending,
           v.monLast = w.monLast, v.corrReads = w.corrReads, NEW full, NEW ys, NEW ye
    PROVE  Part(full, v, ys, ye) = Part(full, w, ys, ye)
<1>1. RunDebit(v, ys, ye) = RunDebit(w, ys, ye)
    BY DEF RunDebit, RunCounted, Estimate
<1>2. MonitoringEnd(v) = MonitoringEnd(w)
    BY DEF MonitoringEnd, MonitoringOpen, HasObligation
<1>3. MonitoringDebit(v, ys, ye) = MonitoringDebit(w, ys, ye)
    BY <1>2 DEF MonitoringDebit, MonitoringCounted
<1> QED BY <1>1, <1>3 DEF Part, Debit

\* An open row that stays open debits what it did.
LEMMA OpenDebit ==
    ASSUME NEW w, NEW v, v.class = w.class, v.reservedAt = w.reservedAt, v.mon = w.mon,
           w.status \in OpenStatus, v.status \in OpenStatus, NEW full, NEW ys, NEW ye
    PROVE  Part(full, v, ys, ye) = Part(full, w, ys, ye)
<1>1. w.status # "reconciled" /\ v.status # "reconciled"
    BY DEF OpenStatus
<1>2. RunDebit(v, ys, ye) = RunDebit(w, ys, ye)
    BY <1>1 DEF RunDebit, RunCounted, Estimate
<1>3. MonitoringDebit(v, ys, ye) = MonitoringDebit(w, ys, ye)
    BY <1>1 DEF MonitoringDebit, MonitoringCounted
<1> QED BY <1>2, <1>3 DEF Part, Debit

\* A row that is neither open nor settled debits nothing.
LEMMA NoDebit ==
    ASSUME NEW w, w.status \notin OpenStatus, w.status # "reconciled", NEW ys, NEW ye
    PROVE  /\ RunDebit(w, ys, ye) = 0 /\ MonitoringDebit(w, ys, ye) = 0
           /\ Debit(w, ys, ye) = 0 /\ \A full : Part(full, w, ys, ye) = 0
<1>1. RunDebit(w, ys, ye) = 0 /\ MonitoringDebit(w, ys, ye) = 0
    BY DEF RunDebit, RunCounted, MonitoringDebit, MonitoringCounted
<1>2. Debit(w, ys, ye) = 0
    BY <1>1 DEF Debit
<1> QED BY <1>1, <1>2 DEF Part

\* A settlement within the estimate frees the rest of it: it counts where the
\* open row counted at most.
LEMMA SettledDebit ==
    ASSUME now \in Nat, NEW w, NEW v, RowType(w, now), RowType(v, now),
           w.status \in OpenStatus, v.status = "reconciled",
           v.class = w.class, v.reservedAt = w.reservedAt, v.mon = w.mon,
           v.reconciledAt = now, v.actual <= Estimate(w),
           NEW full \in BOOLEAN, NEW c \in Cycle
    PROVE  Part(full, v, c.start, c.end) <= Part(full, w, c.start, c.end)
<1> DEFINE ys == c.start
           ye == c.end
<1>1. /\ w.reservedAt \in Int /\ w.reservedAt <= now /\ Guard \in Nat
      /\ w.actual \in Nat /\ v.actual \in Nat /\ w.mon \in Nat
    <2>1. w.reservedAt \in Int /\ w.reservedAt <= now
        BY RowTimes
    <2>2. w.actual \in Nat /\ v.actual \in Nat /\ w.mon \in Nat
        BY DEF RowType
    <2> QED BY <2>1, <2>2, Amounts
<1>2. ye \in Int
    BY DEF Cycle
<1>3. Estimate(w) \in Nat
    BY Amounts DEF Estimate, EstimateOf, ExecBound, PostBound, MarginOf
<1>4. w.status # "reconciled"
    BY DEF OpenStatus
<1> HIDE DEF ys, ye
<1>5. RunCounted(v, ys, ye) => RunCounted(w, ys, ye)
    BY <1>1, <1>2 DEF RunCounted, Touches, OpenStatus
<1>6. MonitoringCounted(v, ys, ye) => MonitoringCounted(w, ys, ye)
    BY <1>1, <1>2 DEF MonitoringCounted, Touches, OpenStatus
<1>7. RunDebit(v, ys, ye) <= RunDebit(w, ys, ye)
    BY <1>1, <1>3, <1>4, <1>5 DEF RunDebit
<1>8. MonitoringDebit(v, ys, ye) <= MonitoringDebit(w, ys, ye)
    BY <1>1, <1>6 DEF MonitoringDebit
<1>9. /\ RunDebit(v, ys, ye) \in Nat /\ RunDebit(w, ys, ye) \in Nat
      /\ MonitoringDebit(v, ys, ye) \in Nat /\ MonitoringDebit(w, ys, ye) \in Nat
    BY DebitType
<1>10. Part(full, v, ys, ye) <= Part(full, w, ys, ye)
    BY <1>7, <1>8, <1>9 DEF Part, Debit
<1> QED BY <1>10 DEF ys, ye

\* While monitoring is open its interval has no end: whatever a monitoring step
\* does, the allowance counts in no further cycle, and never rises.
LEMMA MonitoringLess ==
    ASSUME now \in Time, NEW w, NEW v, RowType(w, now), RowType(v, now),
           w.status = "reconciled", v.status = "reconciled",
           v.reconciledAt = w.reconciledAt, v.mon <= w.mon, MonitoringOpen(w),
           NEW c \in Cycle
    PROVE  MonitoringDebit(v, c.start, c.end) <= MonitoringDebit(w, c.start, c.end)
<1> DEFINE ys == c.start
           ye == c.end
<1>1. ys \in Int /\ ye \in Int
    BY DEF Cycle
<1>2. /\ v.monLast \in Int /\ v.monLast <= now /\ v.reconciledAt \in Int /\ v.reconciledAt <= now
      /\ w.mon \in Nat /\ v.mon \in Nat
    <2>1. now \in Int
        BY Amounts DEF Time
    <2>2. v.reconciledAt \in Int /\ v.reconciledAt <= now /\ v.monLast \in Int
        BY <2>1, RowTimes
    <2>3. v.monLast <= now
        <3>1. v.monLast \in Past(now)
            BY DEF RowType
        <3> QED BY <2>1, <3>1 DEF Past
    <2>4. w.mon \in Nat /\ v.mon \in Nat
        BY DEF RowType
    <2> QED BY <2>2, <2>3, <2>4
<1>3. now <= MaxTime /\ now \in Nat /\ MaxTime \in Nat /\ Guard \in Nat /\ CycleLen \in Nat
    BY Amounts, CycleAssumption DEF Time
<1>4. MonitoringEnd(w) = Never /\ Never \in Int
    BY <1>3 DEF MonitoringEnd, Never
<1>5. MonitoringEnd(v) <= Never /\ MonitoringEnd(v) \in Int
    <2>1. CASE MonitoringOpen(v)
        BY <1>4, <2>1 DEF MonitoringEnd
    <2>2. CASE ~MonitoringOpen(v)
        <3>1. MonitoringEnd(v) = v.monLast + Guard \/ MonitoringEnd(v) = v.reconciledAt + Guard
            BY <2>2 DEF MonitoringEnd
        <3> QED BY <1>2, <1>3, <3>1 DEF Never
    <2> QED BY <2>1, <2>2
<1> HIDE DEF ys, ye
<1>6. MonitoringCounted(v, ys, ye) => MonitoringCounted(w, ys, ye)
    BY <1>1, <1>2, <1>4, <1>5 DEF MonitoringCounted, Touches, OpenStatus
<1>7. MonitoringDebit(v, ys, ye) <= MonitoringDebit(w, ys, ye)
    BY <1>2, <1>6 DEF MonitoringDebit
<1> QED BY <1>7 DEF ys, ye

\* A run debits what its row had settled at, unless the amount changes.
LEMMA RunDebitSame ==
    ASSUME NEW w, NEW v, v.class = w.class, v.reservedAt = w.reservedAt, v.status = w.status,
           v.actual = w.actual, v.lastChargeAt = w.lastChargeAt, NEW ys, NEW ye
    PROVE  RunDebit(v, ys, ye) = RunDebit(w, ys, ye)
BY DEF RunDebit, RunCounted, Estimate

LEMMA PartsLess ==
    ASSUME NEW w, NEW v, NEW t, NEW s, RowType(w, t), RowType(v, s), NEW ys, NEW ye,
           NEW full \in BOOLEAN,
           RunDebit(v, ys, ye) <= RunDebit(w, ys, ye),
           full => MonitoringDebit(v, ys, ye) <= MonitoringDebit(w, ys, ye)
    PROVE  Part(full, v, ys, ye) <= Part(full, w, ys, ye)
<1>1. /\ RunDebit(v, ys, ye) \in Nat /\ RunDebit(w, ys, ye) \in Nat
      /\ MonitoringDebit(v, ys, ye) \in Nat /\ MonitoringDebit(w, ys, ye) \in Nat
    BY DebitType
<1> QED BY <1>1 DEF Part, Debit

\* The allowance of a closed row is no more than it was.
LEMMA AllowanceFalls ==
    ASSUME NEW w, NEW t, RowType(w, t)
    PROVE  ClosedAllowance(w) <= w.mon
<1>1. w.mon \in Nat /\ w.corrReads \in Nat /\ Call \in Nat
    <2>1. w.mon \in Nat /\ w.corrReads \in 0..MaxCorrReads
        BY DEF RowType
    <2> QED BY <2>1, Amounts
<1> DEFINE x == w.corrReads * Call
<1>2. x \in Int
    BY <1>1, SMT
<1>3. ClosedAllowance(w) = IF CountedMode THEN Min({w.mon, x}) ELSE w.mon
    BY DEF ClosedAllowance
<1> HIDE DEF x
<1>4. w.mon \in Int
    BY <1>1
<1>5. Min({w.mon, x}) = IF w.mon <= x THEN w.mon ELSE x
    BY <1>2, <1>4, MinOfTwo
<1> QED BY <1>1, <1>2, <1>3, <1>5

\* The steps of monitoring of an unchanged amount.
LEMMA MonitoringLighter ==
    ASSUME now \in Time, NEW w, NEW v, RowType(w, now), RowType(v, now), NEW d, RowKept(w, d),
           NEW full \in BOOLEAN, v.actual = w.actual,
           \/ Beginning(w, v) \/ Completing(w, v) \/ Failing(w, v)
           \/ \E at \in 0 .. now : Resolving(w, v, at),
           full => w.pending # NoTime \/ Beginning(w, v)
    PROVE  Lighter(full, w, v)
<1>1. w.status = "reconciled" /\ (Beginning(w, v) => w.class # "envelope")
    BY DEF Beginning, Completing, Failing, Resolving, RowKept
<1>2. /\ v.status = w.status /\ v.class = w.class /\ v.reservedAt = w.reservedAt
      /\ v.reconciledAt = w.reconciledAt /\ v.lastChargeAt = w.lastChargeAt
    <2>1. CASE Beginning(w, v)
        <3>1. Keeps(v, w, {"corrReads", "pending", "monLast"})
            BY <2>1 DEF Beginning
        <3> QED BY <3>1, FieldsOf
    <2>2. CASE Completing(w, v)
        <3>1. Keeps(v, w, CompletedFields)
            BY <2>2 DEF Completing
        <3> QED BY <3>1, FieldsOf DEF CompletedFields
    <2>3. CASE Failing(w, v)
        <3>1. Keeps(v, w, {"pending", "monLast", "nextRead"})
            BY <2>3 DEF Failing
        <3> QED BY <3>1, FieldsOf
    <2>4. CASE \E at \in 0 .. now : Resolving(w, v, at)
        <3>1. Keeps(v, w, {"pending", "monLast"})
            BY <2>4 DEF Resolving
        <3> QED BY <3>1, FieldsOf
    <2> QED BY <2>1, <2>2, <2>3, <2>4
<1>3. v.mon <= w.mon
    <2>0. w.mon \in Nat /\ w.corrReads \in Nat /\ Call \in Nat
        <3>1. w.mon \in Nat /\ w.corrReads \in 0..MaxCorrReads
            BY DEF RowType
        <3> QED BY <3>1, Amounts
    <2>1. CASE Beginning(w, v)
        <3>1. Keeps(v, w, {"corrReads", "pending", "monLast"})
            BY <2>1 DEF Beginning
        <3>2. v.mon = w.mon
            BY <3>1, FieldsOf
        <3> QED BY <2>0, <3>2
    <2>2. CASE Completing(w, v)
        <3>1. v.mon = w.mon \/ v.mon = ClosedAllowance(w)
            BY <2>2 DEF Completing
        <3>2. ClosedAllowance(w) <= w.mon
            BY AllowanceFalls
        <3> QED BY <2>0, <3>1, <3>2
    <2>3. CASE Failing(w, v)
        <3>1. Keeps(v, w, {"pending", "monLast", "nextRead"})
            BY <2>3 DEF Failing
        <3>2. v.mon = w.mon
            BY <3>1, FieldsOf
        <3> QED BY <2>0, <3>2
    <2>4. CASE \E at \in 0 .. now : Resolving(w, v, at)
        <3>1. Keeps(v, w, {"pending", "monLast"})
            BY <2>4 DEF Resolving
        <3>2. v.mon = w.mon
            BY <3>1, FieldsOf
        <3> QED BY <2>0, <3>2
    <2> QED BY <2>1, <2>2, <2>3, <2>4
<1>4. full => MonitoringOpen(w)
    BY <1>1 DEF MonitoringOpen, HasObligation, Beginning
<1>5. ASSUME NEW c \in Cycle
      PROVE  Part(full, v, c.start, c.end) <= Part(full, w, c.start, c.end)
    <2>1. RunDebit(v, c.start, c.end) = RunDebit(w, c.start, c.end)
        BY <1>2, RunDebitSame
    <2>2. full => MonitoringDebit(v, c.start, c.end) <= MonitoringDebit(w, c.start, c.end)
        BY <1>1, <1>2, <1>3, <1>4, MonitoringLess
    <2>3. RunDebit(w, c.start, c.end) \in Nat
        BY DebitType
    <2>4. RunDebit(v, c.start, c.end) <= RunDebit(w, c.start, c.end)
        BY <2>1, <2>3
    <2> QED BY <2>2, <2>4, PartsLess
<1> QED BY <1>1, <1>2, <1>5, LighterParts DEF Live

\* A settlement of a row that was open.
LEMMA SettlementLighter ==
    ASSUME now \in Time, NEW w, NEW v, RowType(w, now), RowType(v, now),
           Settling(w, v) \/ OperatorSettling(w, v), v.actual <= Estimate(w),
           NEW full \in BOOLEAN
    PROVE  Lighter(full, w, v)
<1>1. w.status \in OpenStatus /\ v.status = "reconciled" /\ v.reconciledAt = now
    BY DEF Settling, Settles, OperatorSettling
<1>2. v.class = w.class /\ v.reservedAt = w.reservedAt /\ v.mon = w.mon
    <2>1. CASE Settling(w, v)
        <3>1. Keeps(v, w, SettledFields)
            BY <2>1 DEF Settling
        <3> QED BY <3>1, FieldsOf DEF SettledFields
    <2>2. CASE OperatorSettling(w, v)
        <3>1. Keeps(v, w, OperatorFields)
            BY <2>2 DEF OperatorSettling
        <3> QED BY <3>1, FieldsOf DEF OperatorFields
    <2> QED BY <2>1, <2>2
<1>3. \A c \in Cycle : Part(full, v, c.start, c.end) <= Part(full, w, c.start, c.end)
    BY <1>1, <1>2, Amounts, SettledDebit DEF Time
<1> QED BY <1>1, <1>2, <1>3, LighterParts DEF Live, OpenStatus

\* A further read.
LEMMA SeeingLighter ==
    ASSUME now \in Time, NEW w, NEW v, NEW d, RowType(w, now), RowType(v, now),
           Seeing(w, v, d), NEW full \in BOOLEAN
    PROVE  Lighter(full, w, v) /\ Estimate(v) = Estimate(w)
<1>1. w.status \in OpenStatus /\ v.status \in OpenStatus /\ Keeps(v, w, {"reads", "status", "anchor"})
    BY DEF Seeing
<1>2. v.class = w.class /\ v.reservedAt = w.reservedAt /\ v.mon = w.mon
    BY <1>1, FieldsOf
<1>3. ASSUME NEW c \in Cycle
      PROVE  Part(full, v, c.start, c.end) <= Part(full, w, c.start, c.end)
    <2>1. Part(full, v, c.start, c.end) = Part(full, w, c.start, c.end)
        BY <1>1, <1>2, OpenDebit
    <2>2. Part(full, w, c.start, c.end) \in Nat
        BY DebitType DEF Part
    <2> QED BY <2>1, <2>2
<1>4. Lighter(full, w, v)
    BY <1>1, <1>2, <1>3, LighterParts DEF Live, OpenStatus
<1> QED BY <1>2, <1>4 DEF Estimate

\* The other moves of a row that stays as heavy, or is given up.
LEMMA OtherLighter ==
    ASSUME now \in Time, NEW w, NEW v, RowType(w, now), RowType(v, now), NEW full \in BOOLEAN,
           \/ Attaching(w, v) \/ Polling(w, v) \/ Releasing(w, v)
           \/ Finishing(w, v) /\ Live(w)
    PROVE  Lighter(full, w, v)
<1>1. CASE Attaching(w, v) \/ Polling(w, v)
    <2>1. w.status \in OpenStatus /\ (Keeps(v, w, {"attached"}) \/ Keeps(v, w, {"polls"}))
        BY <1>1 DEF Attaching, Polling
    <2>2. v.status = w.status /\ v.class = w.class /\ v.reservedAt = w.reservedAt /\ v.mon = w.mon
        BY <2>1, FieldsOf
    <2>3. ASSUME NEW c \in Cycle
          PROVE  Part(full, v, c.start, c.end) <= Part(full, w, c.start, c.end)
        <3>1. Part(full, v, c.start, c.end) = Part(full, w, c.start, c.end)
            BY <2>1, <2>2, OpenDebit
        <3>2. Part(full, w, c.start, c.end) \in Nat
            BY DebitType DEF Part
        <3> QED BY <3>1, <3>2
    <2> QED BY <2>1, <2>2, <2>3, LighterParts DEF Live, OpenStatus
<1>2. CASE Releasing(w, v)
    <2>1. w.status = "reserved" /\ v.status = "released" /\ Keeps(v, w, {"status"})
        BY <1>2 DEF Releasing
    <2>2. v.class = w.class /\ v.reservedAt = w.reservedAt
        BY <2>1, FieldsOf
    <2>3. ASSUME NEW c \in Cycle
          PROVE  Part(full, v, c.start, c.end) <= Part(full, w, c.start, c.end)
        <3>1. Part(full, v, c.start, c.end) = 0
            BY <2>1, NoDebit DEF OpenStatus
        <3>2. Part(full, w, c.start, c.end) \in Nat
            BY DebitType DEF Part
        <3> QED BY <3>1, <3>2
    <2> QED BY <2>1, <2>2, <2>3, LighterParts DEF Live
<1>3. CASE Finishing(w, v) /\ Live(w)
    <2>1. Keeps(v, w, {"anchor"})
        BY <1>3 DEF Finishing
    <2>2. /\ v.class = w.class /\ v.reservedAt = w.reservedAt /\ v.status = w.status
          /\ v.actual = w.actual /\ v.lastChargeAt = w.lastChargeAt /\ v.mon = w.mon
          /\ v.reconciledAt = w.reconciledAt
        BY <2>1, FieldsOf
    <2>3. /\ v.closedAt = w.closedAt /\ v.pending = w.pending
          /\ v.monLast = w.monLast /\ v.corrReads = w.corrReads
        BY <2>1, FieldsOf
    <2>4. ASSUME NEW c \in Cycle
          PROVE  Part(full, v, c.start, c.end) <= Part(full, w, c.start, c.end)
        <3>1. Part(full, v, c.start, c.end) = Part(full, w, c.start, c.end)
            BY <2>2, <2>3, DebitFrame
        <3>2. Part(full, w, c.start, c.end) \in Nat
            BY DebitType DEF Part
        <3> QED BY <3>1, <3>2
    <2> QED BY <1>3, <2>2, <2>4, LighterParts
<1> QED BY <1>1, <1>2, <1>3

\* A refused row debits nothing; neither did the free one.
LEMMA AdmissionShares ==
    ASSUME now \in Time, NEW w, NEW v, RowType(w, now), RowType(v, now), Admission(w, v),
           NEW full \in BOOLEAN
    PROVE  /\ \A k, c : Share(full, w, k, c) = 0
           /\ \A ys, ye : Debit(w, ys, ye) = 0
           /\ ~Live(w)
           /\ v.status = "denied" => Lighter(full, w, v)
<1>1. w.status = "free"
    BY DEF Admission
<1>2. \A ys, ye : Debit(w, ys, ye) = 0 /\ Part(full, w, ys, ye) = 0
    BY <1>1, NoDebit DEF OpenStatus
<1>3. \A k, c : Share(full, w, k, c) = 0
    BY <1>2 DEF Share
<1>4. ASSUME v.status = "denied"
      PROVE  Lighter(full, w, v)
    <2>1. \A ys, ye : Part(full, v, ys, ye) = 0
        BY <1>4, NoDebit DEF OpenStatus
    <2>2. \A k, c : Share(full, v, k, c) = 0
        BY <2>1 DEF Share
    <2>3. ~Live(v)
        BY <1>4 DEF Live
    <2> QED BY <1>3, <2>2, <2>3 DEF Lighter, SameAdmission
<1> QED BY <1>1, <1>2, <1>3, <1>4 DEF Live
-----------------------------------------------------------------------------
(* What a step does to the recorded cycles.                               *)

\* The derived cycle contains its instant.
LEMMA DerivedCovers ==
    ASSUME NEW a \in Int, NEW t \in Int
    PROVE  Covers(Derived(a, t), t)
<1> DEFINE x == t - a
           q == x \div CycleLen
           m == q * CycleLen
<1>1. CycleLen \in Nat /\ CycleLen > 0
    BY CycleAssumption
<1>2. x \in Int
    OBVIOUS
<1>3. m \in Int /\ m <= x /\ x < m + CycleLen
    <2> HIDE DEF x
    <2> QED BY <1>1, <1>2, SMT
<1>4. Derived(a, t) = [start |-> a + m, end |-> a + m + CycleLen - 1]
    BY DEF Derived
<1>5. x = t - a
    OBVIOUS
<1> HIDE DEF m, x
<1>6. Derived(a, t).start = a + m /\ Derived(a, t).end = a + m + CycleLen - 1
    BY <1>4
<1> QED BY <1>1, <1>3, <1>5, <1>6 DEF Covers

\* Cells of one grid do not overlap.
LEMMA GridCells ==
    ASSUME NEW i \in Int, NEW j \in Int, NEW a \in Int, a + i * CycleLen < a + j * CycleLen
    PROVE  a + i * CycleLen + CycleLen - 1 < a + j * CycleLen
<1>1. CycleLen \in Nat /\ CycleLen > 0
    BY CycleAssumption
<1> DEFINE x == i * CycleLen
           y == j * CycleLen
           l == CycleLen
<1>2. x \in Int /\ y \in Int /\ x < y /\ l \in Nat /\ l > 0
    BY <1>1
<1>3. x + l <= y
    <2>1. i < j
        BY <1>1, <1>2, SMT
    <2>2. i + 1 \in Int /\ i + 1 <= j
        BY <2>1
    <2>3. (i + 1) * CycleLen <= j * CycleLen
        <3> DEFINE n == i + 1
        <3> HIDE DEF n
        <3>1. n \in Int /\ n <= j
            BY <2>2 DEF n
        <3>2. n * CycleLen <= j * CycleLen
            BY <1>1, <3>1, SMT
        <3> QED BY <3>2 DEF n
    <2>4. (i + 1) * CycleLen = x + l
        BY <1>1, SMT
    <2> QED BY <2>3, <2>4
<1> HIDE DEF x, y, l
<1>4. a + x + l - 1 < a + y
    BY <1>2, <1>3
<1> QED BY <1>4 DEF x, y, l

\* One anchor: the recorded cycles are the months from it on, and none is cut.
OneAnchor == \A a, b \in Anchors : a = b
Months(S) == \A c \in S : \E i \in Int : /\ c.start = anchor + i * CycleLen
                                         /\ c.end = anchor + i * CycleLen + CycleLen - 1

\* Every admission was made in a recorded cycle, and none without headroom.
HomesOf(rows, S, t) ==
    /\ \A c \in S : c.start <= t
    /\ \A r \in Resv : Live(rows[r]) => External <= Usable /\ \E c \in S : Covers(c, rows[r].reservedAt)

\* The recorded cycles once b is among them: a cycle keeps its start, and loses
\* what b takes of it.
Cut(S, T, b) ==
    /\ T \in SUBSET Cycle /\ b \in T
    /\ \A x \in T :
          \/ x = b
          \/ \E c \in S : /\ x.start = c.start /\ x.end <= c.end
                          /\ x = c \/ (c.start < b.start /\ b.start <= c.end)
    /\ \A c \in S :
          \E x \in T : /\ x.start = c.start
                       /\ \/ x = c
                          \/ c.start < b.start /\ b.start <= c.end /\ x.end = b.start - 1

LEMMA WithCycleCut ==
    ASSUME NEW S \in SUBSET Cycle, NEW b \in Cycle, b \notin S
    PROVE  Cut(S, WithCycle(S, b), b)
<1> DEFINE cut(c) == IF c.start < b.start /\ c.end >= b.start
                     THEN [c EXCEPT !.end = b.start - 1] ELSE c
           T == WithCycle(S, b)
<1>1. T = {cut(c) : c \in S} \union {b}
    BY DEF WithCycle
<1>2. ASSUME NEW c \in S
      PROVE  /\ cut(c) \in Cycle /\ cut(c).start = c.start /\ cut(c).end <= c.end
             /\ cut(c) = c \/ (c.start < b.start /\ b.start <= c.end /\ cut(c).end = b.start - 1)
    <2>1. c \in Cycle
        OBVIOUS
    <2> QED BY <2>1, SMT DEF Cycle
<1> HIDE DEF cut, T
<1>3. T \in SUBSET Cycle /\ b \in T
    BY <1>1, <1>2
<1>4. ASSUME NEW x \in T, x # b
      PROVE  \E c \in S : /\ x.start = c.start /\ x.end <= c.end
                          /\ x = c \/ (c.start < b.start /\ b.start <= c.end)
    <2>1. PICK c \in S : x = cut(c)
        BY <1>1, <1>4
    <2> QED BY <1>2, <2>1
<1>5. ASSUME NEW c \in S
      PROVE  \E x \in T : /\ x.start = c.start
                          /\ x = c \/ (c.start < b.start /\ b.start <= c.end /\ x.end = b.start - 1)
    <2>1. cut(c) \in T
        BY <1>1
    <2> QED BY <1>2, <2>1
<1> QED BY <1>3, <1>4, <1>5 DEF Cut, T

\* A cycle that does not conflict starts apart from the recorded ones.
LEMMA StartsApart ==
    ASSUME NEW S \in SUBSET Cycle, NEW b \in Cycle, b \notin S, ~Conflicts(S, b), NEW c \in S
    PROVE  c.start < b.start \/ b.end < c.start
<1>1. c \in Cycle /\ c # b
    OBVIOUS
<1>2. c.start = b.start => c.end = b.end
    BY DEF Conflicts
<1>3. ~(b.start < c.start /\ c.start <= b.end)
    BY DEF Conflicts
<1>4. c.start # b.start
    BY <1>1, <1>2, SMT DEF Cycle
<1> QED BY <1>1, <1>3, <1>4, SMT DEF Cycle

\* In a shorter cycle a row debits no more.
LEMMA ShorterCycle ==
    ASSUME NEW t, NEW w, RowType(w, t), NEW full \in BOOLEAN, NEW k, NEW c \in Cycle, NEW x \in Cycle,
           x.start = c.start, x.end <= c.end, t \in Int
    PROVE  Share(full, w, k, x) <= Share(full, w, k, c)
<1> DEFINE s == c.start
           e == c.end
           f == x.end
<1>1. s \in Int /\ e \in Int /\ f \in Int /\ f <= e
    BY DEF Cycle
<1>2. w.reservedAt \in Int /\ w.reconciledAt \in Int /\ Guard \in Nat
    BY RowTimes, Amounts
<1>3. x.start = s
    OBVIOUS
<1>4. w.lastChargeAt \in Int
    <2>1. w.lastChargeAt \in Past(t)
        BY DEF RowType
    <2> QED BY <2>1 DEF Past
<1> HIDE DEF s, e, f
<1>5. RunCounted(w, s, f) => RunCounted(w, s, e)
    BY <1>1, <1>2, <1>4 DEF RunCounted, Touches
<1>6. MonitoringCounted(w, s, f) => MonitoringCounted(w, s, e)
    BY <1>1, <1>2 DEF MonitoringCounted, Touches
<1>7. /\ RunDebit(w, s, f) \in Nat /\ RunDebit(w, s, e) \in Nat
      /\ MonitoringDebit(w, s, f) \in Nat /\ MonitoringDebit(w, s, e) \in Nat
    BY DebitType
<1>8. RunDebit(w, s, f) <= RunDebit(w, s, e)
    BY <1>5, <1>7 DEF RunDebit
<1>9. MonitoringDebit(w, s, f) <= MonitoringDebit(w, s, e)
    BY <1>6, <1>7 DEF MonitoringDebit
<1> DEFINE p == Part(full, w, s, f)
           q == Part(full, w, s, e)
<1>10. p <= q /\ p \in Nat /\ q \in Nat
    BY <1>7, <1>8, <1>9 DEF Part, Debit
<1>11. /\ Share(full, w, k, x) = IF w.class \in k /\ w.reservedAt <= f THEN p ELSE 0
       /\ Share(full, w, k, c) = IF w.class \in k /\ w.reservedAt <= e THEN q ELSE 0
    BY <1>3 DEF Share, s, e, f
<1> HIDE DEF p, q
<1> QED BY <1>1, <1>2, <1>10, <1>11

RowsTyped == \A r \in Resv : RowType(resv[r], now)

\* What the runs debit to a cycle b that starts after every recorded one that
\* admitted any of them: no more than to the last of those.
LEMMA NewCycleRuns ==
    ASSUME RowsTyped, now \in Nat, NEW S \in SUBSET Cycle, NEW b \in Cycle, b \notin S,
           ~Conflicts(S, b), Covers(b, now), HomesOf(resv, S, now),
           NEW full \in BOOLEAN, ~full, CapsOf(full, resv, S), NEW k \in Kinds
    PROVE  ShareTotal(full, resv, k, b) <= CapOf(k)
<1> DEFINE Z == {r \in Resv : Share(full, resv[r], k, b) # 0}
<1>1. /\ b.start \in Int /\ b.end \in Int /\ now <= b.end /\ Guard \in Nat /\ CapOf(k) \in Nat
      /\ IsFiniteSet(Resv)
    BY Amounts, CapType, ReservationAssumption DEF Cycle, Covers
<1>2. \A r \in Resv : /\ resv[r].reservedAt \in Int /\ resv[r].reservedAt <= now
                      /\ RowType(resv[r], now) /\ Share(full, resv[r], k, b) \in Nat
    <2> SUFFICES ASSUME NEW r \in Resv
                 PROVE  /\ resv[r].reservedAt \in Int /\ resv[r].reservedAt <= now
                        /\ RowType(resv[r], now) /\ Share(full, resv[r], k, b) \in Nat
        OBVIOUS
    <2>1. RowType(resv[r], now)
        BY DEF RowsTyped
    <2>2. resv[r].reservedAt \in Int /\ resv[r].reservedAt <= now
        BY <2>1, RowTimes
    <2>3. Share(full, resv[r], k, b) \in Nat
        BY <2>1, ShareType
    <2> QED BY <2>1, <2>2, <2>3
<1>3. CASE Z = {}
    <2> DEFINE f == [r \in Resv |-> Share(full, resv[r], k, b)]
    <2>1. f \in [Resv -> Int] /\ \A r \in Resv : f[r] = 0
        BY <1>2, <1>3
    <2>2. ShareTotal(full, resv, k, b) = SumFunction(f)
        BY DEF ShareTotal
    <2> HIDE DEF f
    <2>3. SumFunction(f) = 0
        BY <1>1, <2>1, SumZero
    <2> QED BY <1>1, <2>2, <2>3
<1>4. CASE Z # {}
    <2> DEFINE T == {resv[r].reservedAt : r \in Z}
    <2>1. IsFiniteSet(T) /\ T # {} /\ T \subseteq Int
        <3>1. Z \subseteq Resv
            OBVIOUS
        <3>2. T \subseteq -1 .. now
            <4>1. \A r \in Resv : resv[r].reservedAt \in Past(now)
                BY <1>2 DEF RowType
            <4> QED BY <3>1, <4>1 DEF Past
        <3>3. IsFiniteSet(-1 .. now)
            <4>1. -1 \in Int /\ now \in Int
                OBVIOUS
            <4> QED BY <4>1, FS_Interval
        <3>4. IsFiniteSet(T)
            BY <3>2, <3>3, FS_Subset
        <3> QED BY <1>2, <1>4, <3>1, <3>4
    <2>2. PICK m \in T : \A x \in T : x <= m
        <3> HIDE DEF T
        <3> QED BY <2>1, GreatestOfFinite
    <2>3. PICK z \in Z : resv[z].reservedAt = m
        OBVIOUS
    <2>4. ASSUME NEW r \in Z
          PROVE  /\ r \in Resv /\ resv[r].class \in k /\ resv[r].reservedAt <= m
                 /\ RunCounted(resv[r], b.start, b.end)
                 /\ Share(full, resv[r], k, b) = RunDebit(resv[r], b.start, b.end)
        <3>1. r \in Resv /\ Share(full, resv[r], k, b) # 0 /\ resv[r].reservedAt <= m
            BY <2>2
        <3>2. resv[r].class \in k /\ Share(full, resv[r], k, b) = RunDebit(resv[r], b.start, b.end)
            BY <3>1 DEF Share, Part
        <3>3. RunCounted(resv[r], b.start, b.end)
            BY <3>1, <3>2 DEF RunDebit
        <3> QED BY <3>1, <3>2, <3>3
    <2>5. Live(resv[z])
        BY <2>4 DEF Live, RunCounted, OpenStatus
    <2>6. PICK c \in S : Covers(c, resv[z].reservedAt)
        BY <2>4, <2>5 DEF HomesOf
    <2>7. c \in Cycle /\ c.start \in Int /\ c.end \in Int /\ c.start <= now /\ m <= c.end
        BY <2>3, <2>6 DEF Cycle, HomesOf, Covers
    <2>8. c.start < b.start
        BY <1>1, <2>7, StartsApart
    <2>9. ASSUME NEW r \in Resv
          PROVE  Share(full, resv[r], k, b) <= Share(full, resv[r], k, c)
        <3>0. Share(full, resv[r], k, c) \in Nat
            BY <1>2, ShareType
        <3>1. CASE r \notin Z
            BY <3>0, <3>1
        <3>2. CASE r \in Z
            <4> DEFINE v == resv[r]
            <4>1. /\ v.class \in k /\ v.reservedAt <= m /\ RunCounted(v, b.start, b.end)
                  /\ Share(full, v, k, b) = RunDebit(v, b.start, b.end)
                BY <2>4, <3>2
            <4>2. v.reservedAt <= c.end /\ v.reservedAt \in Int
                <5>1. m \in Int
                    BY <2>1
                <5> QED BY <1>2, <2>7, <4>1, <5>1
            <4>3. v.lastChargeAt \in Int
                <5>1. v.lastChargeAt \in Past(now)
                    BY <1>2 DEF RowType
                <5> QED BY <5>1 DEF Past
            <4> HIDE DEF v
            <4>4. RunCounted(v, c.start, c.end)
                BY <1>1, <2>7, <2>8, <4>1, <4>2, <4>3 DEF RunCounted, Touches
            <4>5. RunDebit(v, c.start, c.end) = RunDebit(v, b.start, b.end)
                BY <4>1, <4>4 DEF RunDebit
            <4>6. Share(full, v, k, c) = RunDebit(v, c.start, c.end)
                BY <4>1, <4>2 DEF Share, Part
            <4>7. Share(full, v, k, c) \in Nat
                BY <3>0 DEF v
            <4>8. Share(full, v, k, b) <= Share(full, v, k, c)
                BY <4>1, <4>5, <4>6, <4>7
            <4> QED BY <4>8 DEF v
        <3> QED BY <3>1, <3>2
    <2>10. ShareTotal(full, resv, k, c) <= CapOf(k)
        BY DEF CapsOf
    <2> DEFINE f == [r \in Resv |-> Share(full, resv[r], k, b)]
               g == [r \in Resv |-> Share(full, resv[r], k, c)]
    <2>11. f \in [Resv -> Int] /\ g \in [Resv -> Int]
        BY <1>2, ShareType
    <2>12. \A r \in Resv : f[r] <= g[r]
        BY <2>9
    <2>13. ShareTotal(full, resv, k, b) = SumFunction(f) /\ ShareTotal(full, resv, k, c) = SumFunction(g)
        BY DEF ShareTotal
    <2> HIDE DEF f, g
    <2>14. SumFunction(f) <= SumFunction(g) /\ SumFunction(f) \in Int /\ SumFunction(g) \in Int
        BY <1>1, <2>11, <2>12, SumMonotone, SumType
    <2> QED BY <1>1, <2>10, <2>13, <2>14
<1> QED BY <1>3, <1>4

\* Under one anchor a new month has admitted nothing yet.
LEMMA NewMonthEmpty ==
    ASSUME RowsTyped, now \in Nat, anchor \in Nat, NEW S \in SUBSET Cycle, Months(S),
           NEW b \in Cycle, Months({b}), b \notin S, ~Conflicts(S, b), HomesOf(resv, S, now), NEW k
    PROVE  ~Admits(resv, k, b)
<1> SUFFICES ASSUME NEW r \in Resv, Live(resv[r]), Covers(b, resv[r].reservedAt)
             PROVE  FALSE
    BY DEF Admits
<1> DEFINE t == resv[r].reservedAt
<1>1. PICK c \in S : Covers(c, t)
    BY DEF HomesOf
<1>2. t \in Int
    BY RowTimes DEF RowsTyped
<1>3. c.start < b.start \/ b.end < c.start
    BY StartsApart
<1>4. c.start \in Int /\ c.end \in Int /\ b.start \in Int /\ b.end \in Int
    BY DEF Cycle
<1>5. PICK i \in Int : c.start = anchor + i * CycleLen /\ c.end = anchor + i * CycleLen + CycleLen - 1
    BY DEF Months
<1>6. PICK j \in Int : b.start = anchor + j * CycleLen
    BY DEF Months
<1>7. c.start < b.start => c.end < b.start
    BY <1>5, <1>6, GridCells
<1> HIDE DEF t
<1> QED BY <1>1, <1>2, <1>3, <1>4, <1>7 DEF Covers, t

\* ensure_cycle keeps what holds of the recorded cycles.
Recorded(full, rows, S) ==
    /\ S \in SUBSET Cycle /\ HomesOf(rows, S, now)
    /\ full => Months(S)

LEMMA CyclesGrow ==
    ASSUME RowsTyped, now \in Nat, anchor \in Nat, NEW full \in BOOLEAN,
           Recorded(full, resv, cycles)
    PROVE  /\ Recorded(full, resv, EnsureCycle(cycles, anchor, now))
           /\ CapsOf(full, resv, cycles) => CapsOf(full, resv, EnsureCycle(cycles, anchor, now))
<1> DEFINE b == Derived(anchor, now)
           T == EnsureCycle(cycles, anchor, now)
<1>1. cycles \in SUBSET Cycle /\ HomesOf(resv, cycles, now) /\ (full => Months(cycles))
    BY DEF Recorded
<1>2. b \in Cycle /\ Covers(b, now)
    BY DerivedCycle, DerivedCovers
<1>3. Months({b})
    <2>1. CycleLen \in Nat \ {0}
        BY CycleAssumption
    <2>2. (now - anchor) \div CycleLen \in Int
        BY <2>1, SMT
    <2>3. b.start = anchor + ((now - anchor) \div CycleLen) * CycleLen
          /\ b.end = anchor + ((now - anchor) \div CycleLen) * CycleLen + CycleLen - 1
        BY DEF Derived
    <2> HIDE DEF b
    <2> QED BY <2>2, <2>3 DEF Months
<1>4. T = cycles \/ (b \notin cycles /\ ~Conflicts(cycles, b) /\ T = WithCycle(cycles, b))
    BY DEF EnsureCycle, CycleKnown, WithCycle
<1> HIDE DEF b, T
<1>5. CASE T = cycles
    BY <1>5 DEF T
<1>6. CASE b \notin cycles /\ ~Conflicts(cycles, b) /\ T = WithCycle(cycles, b)
    <2>1. Cut(cycles, T, b)
        BY <1>1, <1>2, <1>6, WithCycleCut
    <2>2. T \in SUBSET Cycle /\ b \in T
        BY <2>1 DEF Cut
    <2>7. ASSUME NEW x \in T, x # b
          PROVE  \E c \in cycles : /\ x.start = c.start /\ x.end <= c.end
                                   /\ x = c \/ (c.start < b.start /\ b.start <= c.end)
        BY <2>1, <2>7 DEF Cut
    <2>3. b.start \in Int /\ b.end \in Int /\ b.start <= now /\ now <= b.end
        BY <1>2 DEF Cycle, Covers
    <2>4. HomesOf(resv, T, now)
        <3>1. ASSUME NEW x \in T
              PROVE  x.start <= now
            <4>1. x = b \/ \E c \in cycles : x.start = c.start
                BY <2>7
            <4>2. \A c \in cycles : c.start <= now
                BY <1>1 DEF HomesOf
            <4> QED BY <2>3, <4>1, <4>2
        <3>2. ASSUME NEW r \in Resv, Live(resv[r])
              PROVE  External <= Usable /\ \E x \in T : Covers(x, resv[r].reservedAt)
            <4> DEFINE t == resv[r].reservedAt
            <4>1. PICK c \in cycles : Covers(c, t)
                BY <1>1, <3>2 DEF HomesOf
            <4>2. t \in Int /\ t <= now
                BY RowTimes DEF RowsTyped
            <4>3. c.start \in Int /\ c.end \in Int
                BY <1>1 DEF Cycle
            <4>4. PICK x \in T : /\ x.start = c.start
                                 /\ x = c \/ (c.start < b.start /\ b.start <= c.end /\ x.end = b.start - 1)
                BY <2>1 DEF Cut
            <4> HIDE DEF t
            <4>5. Covers(x, t) \/ Covers(b, t)
                BY <2>3, <4>1, <4>2, <4>3, <4>4 DEF Covers
            <4>6. External <= Usable
                BY <1>1, <3>2 DEF HomesOf
            <4> QED BY <2>2, <4>5, <4>6 DEF t
        <3> QED BY <3>1, <3>2 DEF HomesOf
    <2>5. ASSUME full
          PROVE  Months(T)
        <3> SUFFICES ASSUME NEW x \in T
                     PROVE  \E i \in Int : /\ x.start = anchor + i * CycleLen
                                           /\ x.end = anchor + i * CycleLen + CycleLen - 1
            BY DEF Months
        <3>1. CASE x = b
            BY <1>3, <3>1 DEF Months
        <3>2. CASE x # b
            <4>1. PICK c \in cycles : x = c \/ (c.start < b.start /\ b.start <= c.end)
                BY <2>7, <3>2
            <4>2. PICK i \in Int : /\ c.start = anchor + i * CycleLen
                                   /\ c.end = anchor + i * CycleLen + CycleLen - 1
                BY <1>1, <2>5 DEF Months
            <4>3. PICK j \in Int : b.start = anchor + j * CycleLen
                BY <1>3 DEF Months
            <4>4. c.start < b.start => c.end < b.start
                BY <4>2, <4>3, GridCells
            <4>5. c.end \in Int
                BY <1>1 DEF Cycle
            <4>6. x = c
                BY <2>3, <4>1, <4>4, <4>5
            <4> QED BY <4>2, <4>6
        <3> QED BY <3>1, <3>2
    <2>6. ASSUME CapsOf(full, resv, cycles), NEW x \in T, NEW k \in Kinds, full => Admits(resv, k, x)
          PROVE  ShareTotal(full, resv, k, x) <= CapOf(k)
        <3>1. CASE x = b
            <4>1. CASE full
                BY <1>1, <1>2, <1>3, <1>6, <2>6, <3>1, <4>1, NewMonthEmpty
            <4>2. CASE ~full
                BY <1>1, <1>2, <1>6, <2>6, <3>1, <4>2, NewCycleRuns
            <4> QED BY <4>1, <4>2
        <3>2. CASE x # b
            <4>1. PICK c \in cycles : x.start = c.start /\ x.end <= c.end
                BY <2>7, <3>2
            <4>2. c \in Cycle /\ x \in Cycle
                BY <1>1, <2>2
            <4>3. full => Admits(resv, k, c)
                <5> SUFFICES ASSUME full  PROVE Admits(resv, k, c)
                    OBVIOUS
                <5>1. PICK r \in Resv : /\ Live(resv[r]) /\ resv[r].class \in k
                                        /\ Covers(x, resv[r].reservedAt)
                    BY <2>6 DEF Admits
                <5>2. resv[r].reservedAt \in Int
                    BY RowTimes DEF RowsTyped
                <5>3. Covers(c, resv[r].reservedAt)
                    <6> DEFINE t == resv[r].reservedAt
                    <6>1. c.start \in Int /\ c.end \in Int /\ x.start \in Int /\ x.end \in Int
                        BY <4>2 DEF Cycle
                    <6>2. t \in Int /\ Covers(x, t)
                        BY <5>1, <5>2
                    <6> HIDE DEF t
                    <6>3. Covers(c, t)
                        BY <4>1, <6>1, <6>2 DEF Covers
                    <6> QED BY <6>3 DEF t
                <5> QED BY <5>1, <5>3 DEF Admits
            <4>4. \A r \in Resv : Share(full, resv[r], k, x) <= Share(full, resv[r], k, c)
                BY <4>1, <4>2, ShorterCycle DEF RowsTyped
            <4>5. /\ ShareTotal(full, resv, k, x) <= ShareTotal(full, resv, k, c)
                  /\ ShareTotal(full, resv, k, x) \in Int /\ ShareTotal(full, resv, k, c) \in Int
                BY <4>4, TotalFalls DEF RowsTyped
            <4>6. ShareTotal(full, resv, k, c) <= CapOf(k) /\ CapOf(k) \in Int
                BY <2>6, <4>3, CapType DEF CapsOf
            <4> QED BY <4>5, <4>6
        <3> QED BY <3>1, <3>2
    <2> QED BY <2>2, <2>4, <2>5, <2>6 DEF Recorded, CapsOf, T
<1> QED BY <1>4, <1>5, <1>6
-----------------------------------------------------------------------------
(* The latch remembers.                                                    *)

TripInv == trip = [r \in Resv |-> trip[r]]
TripsKept == TripInv' /\ (Overran => Overran')
TripsOne == \E r \in Resv : \E reasons : trip' = Tripped(trip, r, reasons)

LEMMA TrippedIs ==
    ASSUME TripInv, NEW r \in Resv, NEW reasons, trip' = Tripped(trip, r, reasons)
    PROVE  /\ TripInv'
           /\ \A c \in Reason : trip'[r][c] = IF c \in reasons THEN "open" ELSE trip[r][c]
           /\ \A q \in Resv : q # r => trip'[q] = trip[q]
BY DEF TripInv, Tripped

\* A reason that is open or was once stays on record.
LEMMA TripsStay ==
    ASSUME TripInv, UNCHANGED trip \/ TripsOne \/ ClearLatch
    PROVE  TripsKept
<1> DEFINE two == {"overrun", "post_admission_invariant_breach"}
<1>1. two \subseteq Reason
    BY DEF Reason
<1>2. CASE UNCHANGED trip
    BY <1>2 DEF TripInv, TripsKept, Overran
<1>3. CASE TripsOne
    <2>1. PICK r \in Resv : \E reasons : trip' = Tripped(trip, r, reasons)
        BY <1>3 DEF TripsOne
    <2>2. PICK reasons : trip' = Tripped(trip, r, reasons)
        BY <2>1
    <2>3. /\ TripInv'
          /\ \A c \in Reason : trip'[r][c] = IF c \in reasons THEN "open" ELSE trip[r][c]
          /\ \A q \in Resv : q # r => trip'[q] = trip[q]
        BY <2>2, TrippedIs
    <2>4. ASSUME NEW q \in Resv, NEW c \in two, trip[q][c] # "never"
          PROVE  trip'[q][c] # "never"
        BY <1>1, <2>3, <2>4
    <2> QED BY <2>3, <2>4 DEF TripsKept, Overran
<1>4. CASE ClearLatch
    <2>1. trip' = [r \in Resv |-> [c \in Reason |->
                      IF trip[r][c] = "open" THEN "cleared" ELSE trip[r][c]]]
        BY <1>4 DEF ClearLatch
    <2>2. \A q \in Resv, c \in Reason : trip'[q][c] = IF trip[q][c] = "open" THEN "cleared" ELSE trip[q][c]
        BY <2>1
    <2>3. TripInv'
        BY <2>1 DEF TripInv
    <2>4. ASSUME NEW q \in Resv, NEW c \in two, trip[q][c] # "never"
          PROVE  trip'[q][c] # "never"
        BY <1>1, <2>2, <2>4
    <2> QED BY <2>3, <2>4 DEF TripsKept, Overran
<1> QED BY <1>2, <1>3, <1>4

LEMMA TrySettleTrips ==
    ASSUME NEW r \in Resv, NEW w, NEW reasons, TrySettle(r, w, reasons)
    PROVE  TripsOne
<1>1. CASE Settles(w)
    <2>1. PICK post \in PostCosts(w) :
             trip' = Tripped(trip, r, reasons \union OverrunTrip(Reconciled(w, post)))
        BY <1>1, Zenon DEF TrySettle
    <2> QED BY <2>1, Zenon DEF TripsOne
<1>2. CASE ~Settles(w)
    <2>1. trip' = Tripped(trip, r, reasons)
        BY <1>2, Zenon DEF TrySettle
    <2> QED BY <2>1, Zenon DEF TripsOne
<1> QED BY <1>1, <1>2

LEMMA TripsAlways ==
    ASSUME BaseInv, TripInv, [Next]_vars
    PROVE  TripsKept
<1>1. CASE UNCHANGED vars \/ Tick \/ ClaimOrigin \/ ChangeAnchor
    <2>1. UNCHANGED trip
        BY <1>1, Zenon DEF vars, Tick, ClaimOrigin, ChangeAnchor
    <2> QED BY <2>1, TripsStay
<1>2. CASE ClearLatch
    BY <1>2, TripsStay
<1>3. ASSUME NEW r \in Resv, RowNext(r)
      PROVE  TripsKept
    <2>1. UNCHANGED trip
        BY <1>3, Zenon DEF RowNext, Reserve, Attach, ReleaseUnattached, SettleOperator, Charge,
                           WorkCompletes
    <2> QED BY <2>1, TripsStay
<1>4. ASSUME NEW p \in Processes, ProcNext(p)
      PROVE  TripsKept
    <2> DEFINE r == proc[p].on
    <2>1. r \in Resv
        BY DEF BaseInv, ProcsInv, ProcKept
    <2> HIDE DEF r
    <2>2. CASE \E q \in Resv : PlanSettles(p, q)
        <3>1. PICK q \in Resv : TrySettle(q, resv[q], {})
            BY <2>2, Zenon DEF PlanSettles
        <3> QED BY <3>1, TrySettleTrips, TripsStay
    <2>3. CASE \/ \E q \in Resv : PlanRead(p, q) \/ BeginMonitoring(p, q)
               \/ SelectMonitoring(p) \/ Send(p) \/ Lose(p) \/ Boot(p) \/ ResolveMarkers(p)
        <3>1. UNCHANGED trip
            BY <2>3, Zenon DEF PlanRead, SelectMonitoring, BeginMonitoring, Send, Lose, Boot,
                              ResolveMarkers
        <3> QED BY <3>1, TripsStay
    <2>4. ASSUME NEW total, NEW e, RecordUsage(p, total, e)
          PROVE  TripsKept
        <3>1. TripsOne
            <4>1. (\E w : TrySettle(r, w, ExcessTrip(e))) \/ trip' = Tripped(trip, r, ExcessTrip(e))
                BY <2>4, Zenon DEF RecordUsage, r
            <4>2. CASE \E w : TrySettle(r, w, ExcessTrip(e))
                BY <2>1, <4>2, TrySettleTrips
            <4>3. CASE trip' = Tripped(trip, r, ExcessTrip(e))
                BY <2>1, <4>3, Zenon DEF TripsOne
            <4> QED BY <4>1, <4>2, <4>3
        <3> QED BY <3>1, TripsStay
    <2>5. ASSUME NEW e, ReadFails(p, e) \/ MonitoringFails(p, e)
          PROVE  TripsKept
        <3>1. trip' = Tripped(trip, r, ExcessTrip(e))
            BY <2>5, Zenon DEF ReadFails, MonitoringFails, r
        <3>2. TripsOne
            BY <2>1, <3>1, Zenon DEF TripsOne
        <3> QED BY <3>2, TripsStay
    <2>6. ASSUME NEW total, NEW e, CompleteMonitoring(p, total, e)
          PROVE  TripsKept
        <3>1. \E reasons : trip' = Tripped(trip, r, reasons)
            BY <2>6, Zenon DEF CompleteMonitoring, r
        <3>2. TripsOne
            BY <2>1, <3>1, Zenon DEF TripsOne
        <3> QED BY <3>2, TripsStay
    <2> QED BY <1>4, <2>2, <2>3, <2>4, <2>5, <2>6, Zenon DEF ProcNext
<1> QED BY <1>1, <1>2, <1>3, <1>4 DEF Next, OwnerNext
-----------------------------------------------------------------------------
(* The caps through every step.                                            *)

\* With full, a single process and a single anchor are assumed.
CapsHold(full) == Overran \/ CapsOf(full, resv, cycles)
CapsInv(full) ==
    /\ BaseInv /\ CycleInv /\ TripInv
    /\ full => ChargeInv
    /\ Recorded(full, resv, cycles)
    /\ CapsHold(full)
\* What remains to show of a step.
CapsStep(full) == Recorded(full, resv, cycles)' /\ CapsHold(full)'

LEMMA CapsTypes ==
    ASSUME NEW full, CapsInv(full)
    PROVE  /\ RowsTyped /\ now \in Nat /\ now \in Time /\ anchor \in Nat
           /\ cycles \in SUBSET Cycle /\ TripInv /\ BaseInv
           /\ full => ChargeInv
<1>1. \A r \in Resv : RowType(resv[r], now)
    BY DEF CapsInv, BaseInv, RowsInv
<1>2. now \in Time
    BY DEF CapsInv, BaseInv, RowsInv
<1> QED BY <1>1, <1>2, LimitAssumption DEF CapsInv, CycleInv, RowsTyped

\* The rows' own share of a step that admits nothing.
LEMMA HomesStay ==
    ASSUME NEW S, HomesOf(resv, S, now), now <= now', now \in Nat, now' \in Nat, S \in SUBSET Cycle,
           \A r \in Resv : SameAdmission(resv[r], resv'[r])
    PROVE  HomesOf(resv', S, now')
<1>1. ASSUME NEW c \in S
      PROVE  c.start <= now'
    <2>1. c.start <= now /\ c.start \in Int
        BY DEF HomesOf, Cycle
    <2> QED BY <2>1
<1>2. ASSUME NEW r \in Resv, Live(resv'[r])
      PROVE  External <= Usable /\ \E c \in S : Covers(c, resv'[r].reservedAt)
    <2>1. Live(resv[r]) /\ resv'[r].reservedAt = resv[r].reservedAt
        BY <1>2 DEF SameAdmission
    <2> QED BY <2>1 DEF HomesOf
<1> QED BY <1>1, <1>2 DEF HomesOf

LEMMA CapsFall ==
    ASSUME RowsTyped, RowsTyped', NEW full \in BOOLEAN, NEW S \in SUBSET Cycle,
           CapsOf(full, resv, S), \A r \in Resv : Lighter(full, resv[r], resv'[r])
    PROVE  CapsOf(full, resv', S)
<1> SUFFICES ASSUME NEW c \in S, NEW k \in Kinds, full => Admits(resv', k, c)
             PROVE  ShareTotal(full, resv', k, c) <= CapOf(k)
    BY DEF CapsOf
<1>1. c \in Cycle
    OBVIOUS
<1>2. \A r \in Resv : /\ Share(full, resv'[r], k, c) <= Share(full, resv[r], k, c)
                      /\ SameAdmission(resv[r], resv'[r])
    BY <1>1 DEF Lighter
<1>3. full => Admits(resv, k, c)
    BY <1>2 DEF Admits, SameAdmission
<1>4. ShareTotal(full, resv, k, c) <= CapOf(k) /\ CapOf(k) \in Int
    BY <1>3, CapType DEF CapsOf
<1>5. \A r \in Resv : RowType(resv[r], now) /\ RowType(resv'[r], now')
    BY DEF RowsTyped
<1>6. /\ ShareTotal(full, resv', k, c) <= ShareTotal(full, resv, k, c)
      /\ ShareTotal(full, resv', k, c) \in Int /\ ShareTotal(full, resv, k, c) \in Int
    BY <1>2, <1>5, TotalFalls
<1> QED BY <1>4, <1>6

\* A step that records no cycle and admits nothing.
LEMMA CapsStays ==
    ASSUME NEW full \in BOOLEAN, CapsInv(full), RowsTyped', TripsKept, now <= now', now' \in Nat,
           UNCHANGED cycles, full => UNCHANGED anchor,
           \A r \in Resv : SameAdmission(resv[r], resv'[r]),
           \/ Overran' \/ \A r \in Resv : Lighter(full, resv[r], resv'[r])
           \/ CapsOf(full, resv', cycles)
    PROVE  CapsStep(full)
<1>1. /\ RowsTyped /\ now \in Nat /\ cycles \in SUBSET Cycle
    BY CapsTypes
<1>2. HomesOf(resv', cycles, now')
    BY <1>1, HomesStay DEF CapsInv, Recorded
<1>3. full => Months(cycles)'
    BY DEF CapsInv, Recorded, Months
<1>4. Recorded(full, resv, cycles)'
    BY <1>1, <1>2, <1>3 DEF Recorded
<1>5. CapsOf(full, resv, cycles)' <=> CapsOf(full, resv', cycles)
    BY DEF CapsOf, Admits
<1>6. Overran' \/ CapsOf(full, resv', cycles)
    <2>1. CASE Overran
        BY <2>1 DEF TripsKept
    <2>2. CASE ~Overran
        <3>1. CapsOf(full, resv, cycles)
            BY <2>2 DEF CapsInv, CapsHold
        <3> QED BY <1>1, <3>1, CapsFall
    <2> QED BY <2>1, <2>2
<1> QED BY <1>4, <1>5, <1>6 DEF CapsStep, CapsHold

LEMMA QuietCaps ==
    ASSUME NEW full \in BOOLEAN, CapsInv(full), Base, TripsKept,
           UNCHANGED <<resv, cycles>>, full => UNCHANGED anchor
    PROVE  CapsStep(full)
<1>1. RowsTyped /\ now \in Nat
    BY CapsTypes
<1>2. RowsTyped' /\ now <= now' /\ now' \in Nat
    BY Amounts DEF Base, BaseInv, RowsInv, RowsMove, RowsTyped, Time
<1>3. ASSUME NEW r \in Resv
      PROVE  Lighter(full, resv[r], resv'[r])
    BY <1>1, LighterSame DEF RowsTyped
<1> QED BY <1>2, <1>3, CapsStays DEF Lighter

LEMMA OneRowCaps ==
    ASSUME NEW full \in BOOLEAN, CapsInv(full), Base, TripsKept,
           UNCHANGED <<cycles, anchor>>, NEW r \in Resv, NEW v, resv' = [resv EXCEPT ![r] = v],
           SameAdmission(resv[r], v),
           Overran' \/ Lighter(full, resv[r], v) \/ CapsOf(full, resv', cycles)
    PROVE  CapsStep(full)
<1>1. RowsTyped /\ now \in Nat /\ resv = [q \in Resv |-> resv[q]]
    BY CapsTypes DEF CapsInv, BaseInv, RowsInv
<1>2. RowsTyped' /\ now <= now' /\ now' \in Nat
    BY Amounts DEF Base, BaseInv, RowsInv, RowsMove, RowsTyped, Time
<1>3. \A q \in Resv : resv'[q] = IF q = r THEN v ELSE resv[q]
    BY <1>1
<1>4. \A q \in Resv : Lighter(full, resv[q], resv[q])
    BY <1>1, LighterSame DEF RowsTyped
<1>5. \A q \in Resv : SameAdmission(resv[q], resv'[q])
    BY <1>3, <1>4 DEF Lighter
<1>6. Lighter(full, resv[r], v) => \A q \in Resv : Lighter(full, resv[q], resv'[q])
    BY <1>3, <1>4
<1> QED BY <1>2, <1>5, <1>6, CapsStays

\* The type of a row that has moved.
LEMMA NewRowType ==
    ASSUME BaseInv, Base, UNCHANGED now, NEW r \in Resv, NEW v, resv' = [resv EXCEPT ![r] = v]
    PROVE  RowType(resv[r], now) /\ RowType(v, now) /\ RowKept(resv[r], done[r]) /\ now \in Time
<1>1. RowType(resv'[r], now') /\ now' = now
    BY DEF Base, BaseInv, RowsInv
<1>2. resv'[r] = v /\ RowType(resv[r], now) /\ RowKept(resv[r], done[r]) /\ now \in Time
    BY DEF BaseInv, RowsInv
<1> QED BY <1>1, <1>2

\* A settlement above the estimate trips.
LEMMA TrySettleCaps ==
    ASSUME TripInv, NEW r \in Resv, NEW w, IsRow(w), NEW reasons, TrySettle(r, w, reasons)
    PROVE  \E v : /\ resv' = [resv EXCEPT ![r] = v]
                  /\ \/ Settling(w, v) /\ (Overran' \/ ~(v.actual > Estimate(v)))
                     \/ ~Settles(w) /\ v = w
<1>1. CASE Settles(w)
    <2>1. PICK post \in PostCosts(w) :
             /\ resv' = [resv EXCEPT ![r] = Reconciled(w, post)]
             /\ trip' = Tripped(trip, r, reasons \union OverrunTrip(Reconciled(w, post)))
        BY <1>1, Zenon DEF TrySettle
    <2> DEFINE v == Reconciled(w, post)
               s == reasons \union OverrunTrip(v)
    <2>2. Settling(w, v)
        BY <1>1, ReconciledPut
    <2> HIDE DEF v
    <2>3. ASSUME v.actual > Estimate(v)
          PROVE  Overran'
        <3>1. OverrunTrip(v) = {"overrun"}
            BY <2>3 DEF OverrunTrip
        <3>2. "overrun" \in s /\ "overrun" \in Reason
            BY <3>1 DEF Reason
        <3>3. trip' = Tripped(trip, r, s)
            BY <2>1 DEF v
        <3> HIDE DEF s
        <3>4. trip'[r]["overrun"] = "open"
            BY <3>2, <3>3, TrippedIs
        <3> QED BY <3>4 DEF Overran
    <2> QED BY <2>1, <2>2, <2>3 DEF v
<1>2. CASE ~Settles(w)
    BY <1>2, Zenon DEF TrySettle
<1> QED BY <1>1, <1>2

LEMMA SettlementSame ==
    ASSUME NEW w, NEW v, Settling(w, v) \/ OperatorSettling(w, v)
    PROVE  SameAdmission(w, v) /\ Estimate(v) = Estimate(w)
<1>1. w.status \in OpenStatus
    BY DEF Settling, Settles, OperatorSettling
<1>2. v.class = w.class /\ v.reservedAt = w.reservedAt
    <2>1. CASE Settling(w, v)
        <3>1. Keeps(v, w, SettledFields)
            BY <2>1 DEF Settling
        <3> QED BY <3>1, FieldsOf DEF SettledFields
    <2>2. CASE OperatorSettling(w, v)
        <3>1. Keeps(v, w, OperatorFields)
            BY <2>2 DEF OperatorSettling
        <3> QED BY <3>1, FieldsOf DEF OperatorFields
    <2> QED BY <2>1, <2>2
<1> QED BY <1>1, <1>2 DEF SameAdmission, Live, OpenStatus, Estimate

\* A settlement is within the estimate or trips.
LEMMA SettlementCaps ==
    ASSUME now \in Time, NEW w, NEW v, RowType(w, now), RowType(v, now), NEW full \in BOOLEAN,
           Settling(w, v) \/ OperatorSettling(w, v), Overran' \/ ~(v.actual > Estimate(v))
    PROVE  SameAdmission(w, v) /\ (Overran' \/ Lighter(full, w, v))
<1>1. SameAdmission(w, v) /\ Estimate(v) = Estimate(w)
    BY SettlementSame
<1>2. v.actual \in Int /\ Estimate(w) \in Int
    <2>1. v.actual \in Nat
        BY DEF RowType
    <2> QED BY <2>1, Amounts DEF Estimate, EstimateOf, ExecBound, PostBound, MarginOf
<1>3. CASE ~(v.actual > Estimate(v))
    <2>1. v.actual <= Estimate(w)
        BY <1>1, <1>2, <1>3
    <2> QED BY <1>1, <2>1, SettlementLighter
<1> QED BY <1>1, <1>3

LEMMA LighterChain ==
    ASSUME NEW full \in BOOLEAN, NEW u, NEW v, NEW w, NEW t, NEW s,
           RowType(u, t), RowType(v, t), RowType(w, t),
           Lighter(full, w, u), Lighter(full, u, v)
    PROVE  Lighter(full, w, v)
<1>1. ASSUME NEW k, NEW c, c \in Cycle
      PROVE  Share(full, v, k, c) <= Share(full, w, k, c)
    <2>1. /\ Share(full, v, k, c) <= Share(full, u, k, c) /\ Share(full, u, k, c) <= Share(full, w, k, c)
          /\ Share(full, u, k, c) \in Nat /\ Share(full, v, k, c) \in Nat /\ Share(full, w, k, c) \in Nat
        BY <1>1, ShareType DEF Lighter
    <2> QED BY <2>1
<1>2. SameAdmission(w, v)
    BY DEF Lighter, SameAdmission
<1> QED BY <1>1, <1>2 DEF Lighter

\* One row gets lighter.
LEMMA LighterCaps ==
    ASSUME NEW full \in BOOLEAN, CapsInv(full), Base, TripsKept,
           UNCHANGED <<cycles, anchor>>, NEW r \in Resv, NEW v, resv' = [resv EXCEPT ![r] = v],
           Lighter(full, resv[r], v)
    PROVE  CapsStep(full)
<1>1. SameAdmission(resv[r], v)
    BY DEF Lighter
<1> QED BY <1>1, OneRowCaps

LEMMA RowCaps ==
    ASSUME NEW full \in BOOLEAN, CapsInv(full), Base, TripsKept, NEW r \in Resv,
           \/ Attach(r) \/ ReleaseUnattached(r) \/ SettleOperator(r) \/ Charge(r)
           \/ WorkCompletes(r)
    PROVE  CapsStep(full)
<1>1. BaseInv /\ IsRow(resv[r])
    BY CapsTypes, RowShape
<1>2. UNCHANGED <<now, cycles, anchor>>
    BY Zenon DEF Attach, ReleaseUnattached, SettleOperator, Charge, WorkCompletes
<1>3. ASSUME NEW v, resv' = [resv EXCEPT ![r] = v],
             \/ Attaching(resv[r], v) \/ Releasing(resv[r], v)
             \/ Finishing(resv[r], v) /\ Live(resv[r])
      PROVE  CapsStep(full)
    <2>1. now \in Time /\ RowType(resv[r], now) /\ RowType(v, now)
        BY <1>1, <1>2, <1>3, NewRowType
    <2>2. Lighter(full, resv[r], v)
        BY <1>3, <2>1, OtherLighter
    <2> QED BY <1>2, <1>3, <2>2, LighterCaps
<1>4. CASE Attach(r)
    <2>1. resv' = [resv EXCEPT ![r] = [resv[r] EXCEPT !.attached = TRUE]]
        BY <1>4 DEF Attach
    <2>2. Attaching(resv[r], [resv[r] EXCEPT !.attached = TRUE])
        BY <1>1, <1>4, OneFieldPut DEF Attach
    <2> QED BY <1>3, <2>1, <2>2
<1>5. CASE ReleaseUnattached(r)
    <2>1. resv' = [resv EXCEPT ![r] = [resv[r] EXCEPT !.status = "released"]]
        BY <1>5 DEF ReleaseUnattached
    <2>2. Releasing(resv[r], [resv[r] EXCEPT !.status = "released"])
        BY <1>1, <1>5, OneFieldPut DEF ReleaseUnattached
    <2> QED BY <1>3, <2>1, <2>2
<1>6. CASE SettleOperator(r)
    <2> DEFINE v == OperatorRow(resv[r])
    <2>1. resv' = [resv EXCEPT ![r] = v]
        BY <1>6, Zenon DEF SettleOperator, OperatorRow
    <2>2. OperatorSettling(resv[r], v)
        BY <1>1, <1>6, OperatorPut DEF SettleOperator
    <2> HIDE DEF v
    <2>3. now \in Time /\ RowType(resv[r], now) /\ RowType(v, now)
        BY <1>1, <1>2, <2>1, NewRowType
    <2>4. Estimate(resv[r]) \in Int
        BY Amounts DEF Estimate, EstimateOf, ExecBound, PostBound, MarginOf
    <2>5. v.actual <= Estimate(resv[r])
        BY <2>2, <2>4 DEF OperatorSettling
    <2>6. Lighter(full, resv[r], v)
        BY <2>2, <2>3, <2>5, SettlementLighter
    <2> QED BY <1>2, <2>1, <2>6, LighterCaps
<1>7. CASE Charge(r)
    <2>1. UNCHANGED <<resv, cycles, anchor>>
        BY <1>7, Zenon DEF Charge
    <2> QED BY <2>1, QuietCaps
<1>8. CASE WorkCompletes(r)
    <2>1. CASE resv[r].class \in RuntimeClass
        <3> DEFINE v == [resv[r] EXCEPT !.anchor = now]
        <3>1. resv' = [resv EXCEPT ![r] = v]
            BY <1>8, <2>1 DEF WorkCompletes
        <3>2. Finishing(resv[r], v)
            BY <1>1, <1>8, <2>1, OneFieldPut DEF WorkCompletes
        <3> HIDE DEF v
        <3>3. resv[r].attached /\ RowKept(resv[r], done[r])
            BY <1>1, <1>8, RowShape DEF WorkCompletes
        <3>4. Live(resv[r])
            BY <3>3 DEF RowKept, Live
        <3> QED BY <1>3, <3>1, <3>2, <3>4
    <2>2. CASE resv[r].class \notin RuntimeClass
        <3>1. UNCHANGED <<resv, cycles, anchor>>
            BY <1>2, <1>8, <2>2 DEF WorkCompletes
        <3> QED BY <3>1, QuietCaps
    <2> QED BY <2>1, <2>2
<1> QED BY <1>4, <1>5, <1>6, <1>7, <1>8

\* Settlement, and the reads that lead to it.
LEMMA UsageCaps ==
    ASSUME NEW full \in BOOLEAN, CapsInv(full), Base, TripsKept, NEW p \in Processes,
           \/ \E r \in Resv : PlanSettles(p, r) \/ PlanRead(p, r)
           \/ \E total \in Figures \union {NoFigure} : \E e : RecordUsage(p, total, e)
    PROVE  CapsStep(full)
<1>1. BaseInv /\ TripInv
    BY CapsTypes
<1>2. UNCHANGED <<now, cycles, anchor>>
    BY Zenon DEF PlanSettles, PlanRead, RecordUsage
<1>3. ASSUME NEW r \in Resv, PlanSettles(p, r)
      PROVE  CapsStep(full)
    <2> DEFINE w == resv[r]
    <2>1. Settles(w) /\ TrySettle(r, w, {}) /\ IsRow(w)
        BY <1>1, <1>3, RowShape DEF PlanSettles
    <2>2. PICK v : /\ resv' = [resv EXCEPT ![r] = v]
                   /\ Settling(w, v) /\ (Overran' \/ ~(v.actual > Estimate(v)))
        BY <1>1, <2>1, TrySettleCaps
    <2>3. now \in Time /\ RowType(w, now) /\ RowType(v, now)
        BY <1>1, <1>2, <2>2, NewRowType
    <2>4. SameAdmission(w, v) /\ (Overran' \/ Lighter(full, w, v))
        BY <2>2, <2>3, SettlementCaps
    <2> QED BY <1>2, <2>2, <2>4, OneRowCaps
<1>4. ASSUME NEW r \in Resv, PlanRead(p, r)
      PROVE  CapsStep(full)
    <2> DEFINE w == resv[r]
               v == [w EXCEPT !.polls = w.polls + 1]
    <2>1. resv' = [resv EXCEPT ![r] = v]
        BY <1>4 DEF PlanRead
    <2>2. w.status \in OpenStatus /\ w.attached /\ w.polls < MaxRunPolls
        BY <1>4, Zenon DEF PlanRead
    <2>3. Polling(w, v)
        BY <1>1, <2>2, RowShape, OneFieldPut
    <2> HIDE DEF v
    <2>4. now \in Time /\ RowType(w, now) /\ RowType(v, now)
        BY <1>1, <1>2, <2>1, NewRowType
    <2>5. Lighter(full, w, v)
        BY <2>3, <2>4, OtherLighter
    <2> QED BY <1>2, <2>1, <2>5, LighterCaps
<1>5. ASSUME NEW total \in Figures \union {NoFigure}, NEW e, RecordUsage(p, total, e)
      PROVE  CapsStep(full)
    <2> DEFINE r == proc[p].on
               w == resv[r]
               u == SeenRow(w, total, done[r])
    <2>1. r \in Resv
        BY <1>1 DEF BaseInv, ProcsInv, ProcKept
    <2>2. CASE w.status \in OpenStatus
        <3>1. TrySettle(r, u, ExcessTrip(e))
            BY <1>5, <2>2, Zenon DEF RecordUsage, SeenRow
        <3>2. Seeing(w, u, done[r])
            BY <1>1, <2>1, <2>2, RowShape, SeenPut
        <3> HIDE DEF u
        <3>3. IsRow(u)
            BY <3>2 DEF Seeing, Keeps
        <3>4. PICK v : /\ resv' = [resv EXCEPT ![r] = v]
                       /\ \/ Settling(u, v) /\ (Overran' \/ ~(v.actual > Estimate(v)))
                          \/ ~Settles(u) /\ v = u
            BY <1>1, <2>1, <3>1, <3>3, TrySettleCaps
        <3>5. now \in Time /\ RowType(w, now) /\ RowType(v, now) /\ RowKept(w, done[r])
            BY <1>1, <1>2, <2>1, <3>4, NewRowType
        <3>6. RowType(u, now)
            BY <2>1, <3>2, <3>5, <1>1, SeeingMoves DEF Moved, BaseInv, RowsInv
        <3>7. Lighter(full, w, u)
            BY <3>2, <3>5, <3>6, SeeingLighter
        <3>8. CASE ~Settles(u) /\ v = u
            BY <1>2, <2>1, <3>4, <3>7, <3>8, LighterCaps
        <3>9. CASE Settling(u, v) /\ (Overran' \/ ~(v.actual > Estimate(v)))
            <4>1. SameAdmission(u, v) /\ (Overran' \/ Lighter(full, u, v))
                BY <3>5, <3>6, <3>9, SettlementCaps
            <4>2. SameAdmission(w, v)
                BY <3>7, <4>1 DEF Lighter, SameAdmission
            <4>3. Overran' \/ Lighter(full, w, v)
                BY <3>5, <3>6, <3>7, <4>1, LighterChain
            <4> QED BY <1>2, <2>1, <3>4, <4>2, <4>3, OneRowCaps
        <3> QED BY <3>4, <3>8, <3>9
    <2>3. CASE w.status \notin OpenStatus
        <3>1. UNCHANGED resv
            BY <1>5, <2>3, Zenon DEF RecordUsage
        <3> QED BY <1>2, <3>1, QuietCaps
    <2> QED BY <2>2, <2>3
<1> QED BY <1>3, <1>4, <1>5

\* A worker that is about to answer a read has its marker still set.
LEMMA MarkerSet ==
    ASSUME NEW full, CapsInv(full), full, NEW p \in Processes, proc[p].pc = "monitor_sent"
    PROVE  resv[proc[p].on].pending # NoTime
<1>1. ChargeInv
    BY CapsTypes
<1>2. ProcCounted(proc[p], resv, billed)
    BY <1>1 DEF ChargeInv, ProcsCounted
<1> QED BY <1>2 DEF ProcCounted

LEMMA MonitoringCaps ==
    ASSUME NEW full \in BOOLEAN, CapsInv(full), Base, TripsKept, NEW p \in Processes,
           \/ \E r \in Resv : ReadBegun(p, r)
           \/ \E e : MonitoringFails(p, e)
           \/ ResolveMarkers(p)
    PROVE  CapsStep(full)
<1>1. BaseInv /\ TripInv /\ now \in Time
    BY CapsTypes
<1>2. UNCHANGED <<now, cycles, anchor>>
    BY Zenon DEF ReadBegun, MonitoringFails, ResolveMarkers
<1>3. ASSUME NEW r \in Resv, ReadBegun(p, r)
      PROVE  CapsStep(full)
    <2> DEFINE w == resv[r]
               v == BegunRow(w)
    <2>1. /\ w.status = "reconciled" /\ w.until # NoTime /\ w.closedAt = NoTime
          /\ w.pending = NoTime /\ w.corrReads < MaxCorrReads
        BY <1>3, Zenon DEF ReadBegun, Readable
    <2>2. resv' = [resv EXCEPT ![r] = v]
        BY <1>3, Zenon DEF ReadBegun
    <2>3. Beginning(w, v)
        BY <1>1, <2>1, RowShape, BegunPut DEF Beginning
    <2> HIDE DEF v
    <2>4. RowType(w, now) /\ RowType(v, now) /\ RowKept(w, done[r])
        BY <1>1, <1>2, <2>2, NewRowType
    <2>5. v.actual = w.actual
        <3>1. Keeps(v, w, {"corrReads", "pending", "monLast"})
            BY <2>3 DEF Beginning
        <3> QED BY <3>1, FieldsOf
    <2>6. Lighter(full, w, v)
        BY <1>1, <2>3, <2>4, <2>5, MonitoringLighter
    <2> QED BY <1>2, <2>2, <2>6, LighterCaps
<1>4. ASSUME NEW e, MonitoringFails(p, e)
      PROVE  CapsStep(full)
    <2> DEFINE r == proc[p].on
               w == resv[r]
               v == FailedRow(w)
    <2>1. r \in Resv /\ proc[p].pc = "monitor_sent" /\ w.status = "reconciled" /\ w.until # NoTime
        BY <1>1, <1>4 DEF MonitoringFails, BaseInv, ProcsInv, ProcKept
    <2>2. resv' = [resv EXCEPT ![r] = v]
        BY <1>4, Zenon DEF MonitoringFails, FailedRow
    <2>3. Failing(w, v)
        BY <1>1, <2>1, RowShape, FailedPut DEF Failing
    <2> HIDE DEF v
    <2>4. RowType(w, now) /\ RowType(v, now) /\ RowKept(w, done[r])
        BY <1>1, <1>2, <2>1, <2>2, NewRowType
    <2>5. v.actual = w.actual
        <3>1. Keeps(v, w, {"pending", "monLast", "nextRead"})
            BY <2>3 DEF Failing
        <3> QED BY <3>1, FieldsOf
    <2>6. full => w.pending # NoTime
        BY <2>1, MarkerSet
    <2>7. Lighter(full, w, v)
        BY <1>1, <2>3, <2>4, <2>5, <2>6, MonitoringLighter
    <2> QED BY <1>2, <2>1, <2>2, <2>7, LighterCaps
<1>5. CASE ResolveMarkers(p)
    <2>1. proc[p].started \in 0 .. now
        BY <1>1 DEF BaseInv, ProcsInv, ProcKept
    <2>2. RowsTyped /\ RowsTyped' /\ now <= now' /\ now' \in Nat /\ now' = now
        <3>1. RowsTyped /\ RowsTyped'
            BY DEF Base, CapsInv, BaseInv, RowsInv, RowsTyped
        <3>2. now' = now /\ now \in Nat
            BY <1>2, CapsTypes
        <3> QED BY <3>1, <3>2
    <2>3. ASSUME NEW r \in Resv
          PROVE  Lighter(full, resv[r], resv'[r])
        <3>1. RowType(resv[r], now) /\ RowType(resv'[r], now) /\ RowKept(resv[r], done[r])
            BY <1>1, <2>2, RowShape DEF RowsTyped
        <3>2. CASE resv'[r] = resv[r]
            BY <3>1, <3>2, LighterSame
        <3>3. CASE Resolving(resv[r], resv'[r], proc[p].started)
            <4>1. resv[r].pending # NoTime /\ Keeps(resv'[r], resv[r], {"pending", "monLast"})
                BY <3>3 DEF Resolving
            <4>2. resv'[r].actual = resv[r].actual
                BY <4>1, FieldsOf
            <4> QED BY <1>1, <2>1, <3>1, <3>3, <4>1, <4>2, MonitoringLighter
        <3> QED BY <1>1, <1>5, <3>2, <3>3, ResolvingAt
    <2> QED BY <1>2, <2>2, <2>3, CapsStays DEF Lighter
<1> QED BY <1>3, <1>4, <1>5

\* Steps that leave the rows and the cycles alone.
LEMMA QuietStepCaps ==
    ASSUME NEW full \in BOOLEAN, CapsInv(full), Base, TripsKept, full => OneAnchor,
           \/ UNCHANGED vars \/ Tick \/ ClearLatch \/ ChangeAnchor \/ Quiet
           \/ \E p \in Processes : \/ Send(p) \/ Lose(p) \/ Boot(p)
                                   \/ \E e : ReadFails(p, e)
    PROVE  CapsStep(full)
<1>1. UNCHANGED <<resv, cycles>>
    BY Zenon DEF vars, Tick, ClearLatch, ChangeAnchor, Quiet, Send, Lose, Boot, ReadFails
<1>2. UNCHANGED anchor \/ anchor' \in Anchors
    BY DEF vars, Tick, ClearLatch, ChangeAnchor, Quiet, Send, Lose, Boot, ReadFails
<1>3. full => UNCHANGED anchor
    BY <1>2 DEF OneAnchor, CapsInv, CycleInv
<1> QED BY <1>1, <1>3, QuietCaps

\* What a settled row's run costs after a correction, and the breach check's
\* own rows, which still bear the marker.
LEMMA CompletedAmounts ==
    ASSUME NEW w, IsRow(w), NEW total
    PROVE  CompletedRow(w, total).actual = Corrected(w, total).actual
<1> DEFINE u == AnsweredRow(w, total)
           t == Corrected(w, total)
<1>1. Rises(w, u, total) /\ Rises(w, t, total) /\ Keeps(u, w, AnsweredFields)
    BY AnsweredPut, CorrectedPut
<1>2. u.actual = t.actual /\ IsRow(u)
    BY <1>1 DEF Rises, Keeps
<1>3. CASE now >= w.until
    <2> DEFINE a == ClosedAllowance(u)
               u1 == [u EXCEPT !.closedAt = now]
               u2 == [u1 EXCEPT !.mon = a]
    <2>1. CompletedRow(w, total) = u2
        BY <1>3 DEF CompletedRow
    <2> HIDE DEF a, u
    <2>2. Puts(u1, u, "closedAt", now)
        BY <1>2, PutField DEF RowFields
    <2> HIDE DEF u1
    <2>3. Puts(u2, u1, "mon", a)
        BY <2>2, PutMore DEF RowFields
    <2>4. u2.actual = u.actual
        BY <2>2, <2>3 DEF Puts, RowFields
    <2> QED BY <1>2, <2>1, <2>4
<1>4. CASE ~(now >= w.until)
    <2> DEFINE n == NextRead(u)
               u1 == [u EXCEPT !.nextRead = n]
    <2>1. CompletedRow(w, total) = u1
        BY <1>4 DEF CompletedRow
    <2> HIDE DEF n, u
    <2>2. Puts(u1, u, "nextRead", n)
        BY <1>2, PutField DEF RowFields
    <2>3. u1.actual = u.actual
        BY <2>2 DEF Puts, RowFields
    <2> QED BY <1>2, <2>1, <2>3
<1> QED BY <1>3, <1>4

\* The breach check's row: t, corrected; the row as saved: v.  In a cycle that
\* t's charge interval meets, v debits no more than t; elsewhere no more than
\* the row did before, w.
LEMMA CorrectionParts ==
    ASSUME now \in Time, NEW w, NEW v, NEW t, RowType(w, now), RowType(v, now), RowType(t, now),
           Completing(w, v), Keeps(t, w, CorrectedFields), v.actual = t.actual,
           NEW full \in BOOLEAN, full => w.pending # NoTime, NEW c \in Cycle
    PROVE  /\ Touches(t.reservedAt - Guard, t.lastChargeAt + Guard, c.start, c.end) =>
                 Part(full, v, c.start, c.end) <= Part(full, t, c.start, c.end)
           /\ ~Touches(t.reservedAt - Guard, t.lastChargeAt + Guard, c.start, c.end) =>
                 Part(full, v, c.start, c.end) <= Part(full, w, c.start, c.end)
<1>1. w.status = "reconciled" /\ Keeps(v, w, CompletedFields)
    BY DEF Completing
<1>2. /\ v.status = "reconciled" /\ v.class = w.class /\ v.reservedAt = w.reservedAt
      /\ v.reconciledAt = w.reconciledAt /\ v.lastChargeAt = w.lastChargeAt
    BY <1>1, FieldsOf DEF CompletedFields
<1>3. /\ t.status = "reconciled" /\ t.class = w.class /\ t.reservedAt = w.reservedAt
      /\ t.reconciledAt = w.reconciledAt /\ t.lastChargeAt = w.lastChargeAt
      /\ t.mon = w.mon /\ t.pending = w.pending
    BY <1>1, FieldsOf DEF CorrectedFields
<1>4. v.mon <= w.mon
    <2>1. w.mon \in Nat /\ (v.mon = w.mon \/ v.mon = ClosedAllowance(w))
        BY DEF Completing, RowType
    <2> QED BY <2>1, AllowanceFalls
<1>5. full => /\ MonitoringDebit(v, c.start, c.end) <= MonitoringDebit(w, c.start, c.end)
              /\ MonitoringDebit(v, c.start, c.end) <= MonitoringDebit(t, c.start, c.end)
    <2> SUFFICES ASSUME full
                 PROVE  /\ MonitoringDebit(v, c.start, c.end) <= MonitoringDebit(w, c.start, c.end)
                        /\ MonitoringDebit(v, c.start, c.end) <= MonitoringDebit(t, c.start, c.end)
        OBVIOUS
    <2>1. MonitoringOpen(w) /\ MonitoringOpen(t)
        BY <1>3 DEF MonitoringOpen
    <2>2. MonitoringDebit(v, c.start, c.end) <= MonitoringDebit(w, c.start, c.end)
        BY <1>1, <1>2, <1>4, <2>1, MonitoringLess
    <2>3. v.mon <= t.mon /\ v.reconciledAt = t.reconciledAt
        BY <1>2, <1>3, <1>4
    <2>4. MonitoringDebit(v, c.start, c.end) <= MonitoringDebit(t, c.start, c.end)
        BY <1>2, <1>3, <2>1, <2>3, MonitoringLess
    <2> QED BY <2>2, <2>4
<1>6. RunDebit(v, c.start, c.end) = RunDebit(t, c.start, c.end)
    BY <1>2, <1>3, RunDebitSame
<1>7. /\ RunDebit(v, c.start, c.end) \in Nat /\ RunDebit(t, c.start, c.end) \in Nat
      /\ RunDebit(w, c.start, c.end) \in Nat
    BY DebitType
<1>8. ASSUME Touches(t.reservedAt - Guard, t.lastChargeAt + Guard, c.start, c.end)
      PROVE  Part(full, v, c.start, c.end) <= Part(full, t, c.start, c.end)
    <2>1. RunDebit(v, c.start, c.end) <= RunDebit(t, c.start, c.end)
        BY <1>6, <1>7
    <2> QED BY <1>5, <2>1, PartsLess
<1>9. ASSUME ~Touches(t.reservedAt - Guard, t.lastChargeAt + Guard, c.start, c.end)
      PROVE  Part(full, v, c.start, c.end) <= Part(full, w, c.start, c.end)
    <2>1. ~RunCounted(t, c.start, c.end)
        BY <1>3, <1>9 DEF RunCounted, OpenStatus
    <2>2. RunDebit(v, c.start, c.end) = 0
        BY <1>6, <2>1 DEF RunDebit
    <2>3. RunDebit(v, c.start, c.end) <= RunDebit(w, c.start, c.end)
        BY <1>7, <2>2
    <2> QED BY <1>5, <2>3, PartsLess
<1> QED BY <1>8, <1>9

\* A cycle that passes the breach check keeps its caps, whatever admitted a row.
LEMMA CommittedType ==
    ASSUME NEW rows, NEW t, \A r \in Resv : RowType(rows[r], t), NEW k, NEW ys, NEW ye
    PROVE  Committed(rows, k, ys, ye) \in Nat
<1> DEFINE f == [r \in Resv |-> IF rows[r].class \in k THEN Debit(rows[r], ys, ye) ELSE 0]
<1>1. f \in [Resv -> Nat]
    <2>1. \A r \in Resv : Debit(rows[r], ys, ye) \in Nat
        BY DebitType
    <2> QED BY <2>1
<1>2. Committed(rows, k, ys, ye) = SumFunction(f)
    BY DEF Committed
<1> HIDE DEF f
<1> QED BY <1>1, <1>2, SumNat, ReservationAssumption

LEMMA NotBreached ==
    ASSUME NEW rows, NEW t, \A r \in Resv : RowType(rows[r], t), NEW class, NEW c,
           ~Breached(rows, class, c), NEW k \in Kinds
    PROVE  Committed(rows, k, c.start, c.end) <= CapOf(k)
<1> DEFINE x(j) == Committed(rows, j, c.start, c.end)
<1>1. x(RuntimeClass) \in Int /\ x(Class \ RuntimeClass) \in Int /\ x(Class) \in Int
    BY CommittedType
<1>2. /\ ~(x(RuntimeClass) > Allocation) /\ ~(x(Class \ RuntimeClass) > Allowance)
      /\ ~(x(Class) + External > Usable)
    BY DEF Breached, Runtime, Operator, HRCycle
<1>3. Allocation \in Nat /\ Allowance \in Nat /\ Usable \in Nat /\ External \in Nat
    BY CapType
<1> HIDE DEF x
<1>4. Max({Usable - External, 0}) = IF Usable - External >= 0 THEN Usable - External ELSE 0
    BY <1>3, MaxOfTwo
<1>5. /\ x(RuntimeClass) <= Allocation /\ x(Class \ RuntimeClass) <= Allowance
      /\ x(Class) <= Max({Usable - External, 0})
    BY <1>1, <1>2, <1>3, <1>4
<1>6. x(k) <= CapOf(k)
    <2>1. CASE k = RuntimeClass
        BY <1>5, <2>1, CapType
    <2>2. CASE k = Class \ RuntimeClass
        BY <1>5, <2>2, CapType
    <2>3. CASE k = Class
        BY <1>5, <2>3, CapType
    <2> QED BY <2>1, <2>2, <2>3 DEF Kinds
<1> QED BY <1>6 DEF x

LEMMA SharesWithin ==
    ASSUME NEW old, NEW new, NEW t, NEW s, NEW full \in BOOLEAN, NEW k, NEW c,
           \A r \in Resv : RowType(old[r], t) /\ RowType(new[r], s),
           \A r \in Resv : Share(full, new[r], k, c)
                             <= (IF old[r].class \in k THEN Debit(old[r], c.start, c.end) ELSE 0)
    PROVE  ShareTotal(full, new, k, c) <= Committed(old, k, c.start, c.end)
<1> DEFINE f == [r \in Resv |-> Share(full, new[r], k, c)]
           g == [r \in Resv |-> IF old[r].class \in k THEN Debit(old[r], c.start, c.end) ELSE 0]
<1>1. f \in [Resv -> Int] /\ g \in [Resv -> Int]
    BY ShareType, DebitType
<1>2. \A r \in Resv : f[r] <= g[r]
    OBVIOUS
<1>3. IsFiniteSet(Resv)
    BY ReservationAssumption
<1>4. ShareTotal(full, new, k, c) = SumFunction(f) /\ Committed(old, k, c.start, c.end) = SumFunction(g)
    BY DEF ShareTotal, Committed
<1> HIDE DEF f, g
<1> QED BY <1>1, <1>2, <1>3, <1>4, SumMonotone

\* A share from its parts.
LEMMA PartShare ==
    ASSUME NEW full \in BOOLEAN, NEW w, NEW v, v.class = w.class, v.reservedAt = w.reservedAt,
           NEW t, RowType(w, t), RowType(v, t), NEW k, NEW c,
           Part(full, v, c.start, c.end) <= Part(full, w, c.start, c.end)
    PROVE  Share(full, v, k, c) <= Share(full, w, k, c)
<1>1. Share(full, v, k, c) \in Nat
    BY ShareType
<1> QED BY <1>1 DEF Share

LEMMA CompletionCaps ==
    ASSUME NEW full \in BOOLEAN, CapsInv(full), Base, TripsKept, NEW p \in Processes,
           NEW total \in Figures, NEW e, CompleteMonitoring(p, total, e)
    PROVE  CapsStep(full)
<1> DEFINE r == proc[p].on
           w == resv[r]
           t == Corrected(w, total)
           v == CompletedRow(w, total)
           fixed == [resv EXCEPT ![r] = t]
           reasons == ExcessTrip(e) \union CorrectionTrip(fixed, r, total > w.settled)
<1>1. BaseInv /\ TripInv /\ now \in Time /\ RowsTyped /\ cycles \in SUBSET Cycle
    BY CapsTypes
<1>2. r \in Resv /\ proc[p].pc = "monitor_sent" /\ w.status = "reconciled" /\ w.until # NoTime
    BY <1>1 DEF CompleteMonitoring, BaseInv, ProcsInv, ProcKept
<1>3. UNCHANGED <<now, cycles, anchor>>
    BY Zenon DEF CompleteMonitoring
<1>4. resv' = [resv EXCEPT ![r] = v]
    BY Zenon DEF CompleteMonitoring, CompletedRow, AnsweredRow
<1>5. trip' = Tripped(trip, r, reasons)
    BY Zenon DEF CompleteMonitoring
<1>6. IsRow(w) /\ resv = [q \in Resv |-> resv[q]]
    BY <1>1, <1>2, RowShape DEF BaseInv, RowsInv
<1>7. Completing(w, v) /\ v.actual = t.actual
    BY <1>2, <1>6, CompletedPut, CompletedAmounts
<1>8. Keeps(t, w, CorrectedFields) /\ Rises(w, t, total)
    BY <1>6, CorrectedPut
<1>9. fixed[r] = t /\ \A q \in Resv : fixed[q] = IF q = r THEN t ELSE resv[q]
    BY <1>2, <1>6
<1>10. total <= w.settled => t = w
    BY DEF Corrected
<1> HIDE DEF v, t, fixed, reasons
<1>11. RowType(w, now) /\ RowType(v, now) /\ RowKept(w, done[r])
    BY <1>1, <1>2, <1>3, <1>4, NewRowType
<1>12. RowType(t, now)
    <2>1. w.settled \in Nat /\ w.actual \in Nat /\ total \in Nat
        BY <1>11, Amounts DEF RowType
    <2>2. t.settled \in Nat /\ t.actual \in Nat
        BY <1>8, <2>1 DEF Rises
    <2>3. /\ IsRow(t) /\ t.status = w.status /\ t.class = w.class /\ t.attached = w.attached
          /\ t.reservedAt = w.reservedAt /\ t.anchor = w.anchor /\ t.reads = w.reads
          /\ t.corrected = w.corrected /\ t.polls = w.polls /\ t.mon = w.mon
          /\ t.reconciledAt = w.reconciledAt /\ t.lastChargeAt = w.lastChargeAt
          /\ t.until = w.until /\ t.closedAt = w.closedAt /\ t.pending = w.pending
          /\ t.monLast = w.monLast /\ t.nextRead = w.nextRead /\ t.corrReads = w.corrReads
        BY <1>8, FieldsOf DEF CorrectedFields
    <2> QED BY <1>11, <2>2, <2>3 DEF RowType
<1>13. full => w.pending # NoTime
    BY <1>2, MarkerSet
<1>14. /\ v.class = w.class /\ v.reservedAt = w.reservedAt /\ v.status = w.status
       /\ t.class = w.class /\ t.reservedAt = w.reservedAt
    <2>1. Keeps(v, w, CompletedFields)
        BY <1>7 DEF Completing
    <2> QED BY <1>8, <2>1, FieldsOf DEF CompletedFields, CorrectedFields
<1>15. SameAdmission(w, v)
    BY <1>14 DEF SameAdmission, Live
<1>16. CASE total <= w.settled
    <2>1. v.actual = w.actual
        BY <1>7, <1>10, <1>16
    <2>2. Lighter(full, w, v)
        BY <1>1, <1>7, <1>11, <1>13, <2>1, MonitoringLighter
    <2> QED BY <1>2, <1>3, <1>4, <2>2, LighterCaps
<1>17. CASE ~(total <= w.settled)
    <2> DEFINE met(c) == Touches(t.reservedAt - Guard, t.lastChargeAt + Guard, c.start, c.end)
    <2>1. total > w.settled
        <3>1. total \in Nat /\ w.settled \in Nat
            BY <1>11, Amounts DEF RowType
        <3> QED BY <1>17, <3>1
    <2>2. BreachTrip(fixed, r) \subseteq reasons
        BY <2>1 DEF reasons, CorrectionTrip
    <2>3. CASE \E c \in cycles : met(c) /\ Breached(fixed, t.class, c)
        <3>1. BreachTrip(fixed, r) = {"post_admission_invariant_breach"}
            BY <1>9, <2>3, Zenon DEF BreachTrip
        <3>2. "post_admission_invariant_breach" \in reasons /\ "post_admission_invariant_breach" \in Reason
            BY <2>2, <3>1 DEF Reason
        <3>3. trip'[r]["post_admission_invariant_breach"] = "open"
            BY <1>1, <1>2, <1>5, <3>2, TrippedIs
        <3>4. Overran'
            BY <1>2, <3>3 DEF Overran
        <3> QED BY <1>2, <1>3, <1>4, <1>15, <3>4, OneRowCaps
    <2>4. CASE ~\E c \in cycles : met(c) /\ Breached(fixed, t.class, c)
        <3>1. CASE Overran
            <4>1. Overran'
                BY <3>1 DEF TripsKept
            <4> QED BY <1>2, <1>3, <1>4, <1>15, <4>1, OneRowCaps
        <3>2. CASE ~Overran
            <4>1. CapsOf(full, resv, cycles)
                BY <3>2 DEF CapsInv, CapsHold
            <4>2. \A q \in Resv : resv'[q] = IF q = r THEN v ELSE resv[q]
                BY <1>4, <1>6
            <4>3. \A q \in Resv : RowType(resv[q], now) /\ RowType(resv'[q], now) /\ RowType(fixed[q], now)
                BY <1>1, <1>9, <1>11, <1>12, <4>2 DEF RowsTyped
            <4> SUFFICES ASSUME NEW c \in cycles, NEW k \in Kinds, full => Admits(resv', k, c)
                         PROVE  ShareTotal(full, resv', k, c) <= CapOf(k)
                <5>1. CapsOf(full, resv', cycles) => CapsStep(full)
                    BY <1>2, <1>3, <1>4, <1>15, OneRowCaps
                <5> QED BY <5>1 DEF CapsOf
            <4>4. c \in Cycle /\ CapOf(k) \in Int
                BY <1>1, CapType
            <4>5. CASE met(c)
                <5>1. Committed(fixed, k, c.start, c.end) <= CapOf(k)
                    <6>1. ~Breached(fixed, t.class, c)
                        BY <2>4, <4>5
                    <6> QED BY <4>3, <6>1, NotBreached
                <5>2. Committed(fixed, k, c.start, c.end) \in Int
                    BY <4>3, CommittedType
                <5>3. ASSUME NEW q \in Resv
                      PROVE  Share(full, resv'[q], k, c)
                                <= (IF fixed[q].class \in k THEN Debit(fixed[q], c.start, c.end) ELSE 0)
                    <6> DEFINE z == IF fixed[q].class \in k THEN Debit(fixed[q], c.start, c.end) ELSE 0
                    <6>1. Share(full, fixed[q], k, c) <= z /\ z \in Nat /\ Share(full, fixed[q], k, c) \in Nat
                        BY <4>3, ShareType
                    <6>2. Share(full, resv'[q], k, c) <= Share(full, fixed[q], k, c)
                        <7>1. CASE q = r
                            <8>1. Part(full, v, c.start, c.end) <= Part(full, t, c.start, c.end)
                                BY <1>1, <1>7, <1>8, <1>11, <1>12, <1>13, <4>4, <4>5, CorrectionParts
                            <8>2. Share(full, v, k, c) <= Share(full, t, k, c)
                                BY <1>11, <1>12, <1>14, <8>1, PartShare
                            <8> QED BY <1>9, <4>2, <7>1, <8>2
                        <7>2. CASE q # r
                            <8>1. resv'[q] = fixed[q]
                                BY <1>9, <4>2, <7>2
                            <8> QED BY <6>1, <8>1
                        <7> QED BY <7>1, <7>2
                    <6>3. Share(full, resv'[q], k, c) \in Nat
                        BY <4>3, ShareType
                    <6> HIDE DEF z
                    <6>4. Share(full, resv'[q], k, c) <= z
                        BY <6>1, <6>2, <6>3
                    <6> QED BY <6>4 DEF z
                <5>4. ShareTotal(full, resv', k, c) <= Committed(fixed, k, c.start, c.end)
                    BY <4>3, <5>3, SharesWithin
                <5>5. ShareTotal(full, resv', k, c) \in Int
                    <6>1. \A q \in Resv : Share(full, resv'[q], k, c) <= Share(full, resv'[q], k, c)
                        BY <4>3, ShareType
                    <6> QED BY <4>3, <6>1, TotalFalls
                <5> QED BY <4>4, <5>1, <5>2, <5>4, <5>5
            <4>6. CASE ~met(c)
                <5>1. ASSUME NEW q \in Resv
                      PROVE  Share(full, resv'[q], k, c) <= Share(full, resv[q], k, c)
                    <6>1. CASE q = r
                        <7>1. Part(full, v, c.start, c.end) <= Part(full, w, c.start, c.end)
                            BY <1>1, <1>7, <1>8, <1>11, <1>12, <1>13, <4>4, <4>6, CorrectionParts
                        <7>2. Share(full, v, k, c) <= Share(full, w, k, c)
                            BY <1>11, <1>14, <7>1, PartShare
                        <7> QED BY <4>2, <6>1, <7>2
                    <6>2. CASE q # r
                        <7>1. resv'[q] = resv[q] /\ Share(full, resv[q], k, c) \in Nat
                            BY <4>2, <4>3, <6>2, ShareType
                        <7> QED BY <7>1
                    <6> QED BY <6>1, <6>2
                <5>2. /\ ShareTotal(full, resv', k, c) <= ShareTotal(full, resv, k, c)
                      /\ ShareTotal(full, resv', k, c) \in Int /\ ShareTotal(full, resv, k, c) \in Int
                    BY <4>3, <5>1, TotalFalls
                <5>3. full => Admits(resv, k, c)
                    <6>1. \A q \in Resv : /\ Live(resv'[q]) => Live(resv[q])
                                          /\ resv'[q].class = resv[q].class
                                          /\ resv'[q].reservedAt = resv[q].reservedAt
                        BY <1>14, <4>2 DEF Live
                    <6> QED BY <6>1 DEF Admits
                <5>4. ShareTotal(full, resv, k, c) <= CapOf(k)
                    BY <4>1, <5>3 DEF CapsOf
                <5> QED BY <4>4, <5>2, <5>4
            <4> QED BY <4>5, <4>6
        <3> QED BY <3>1, <3>2
    <2> QED BY <2>3, <2>4
<1> QED BY <1>16, <1>17

\* Rows and cycles of a step that records a cycle.
LEMMA GrownCaps ==
    ASSUME NEW full \in BOOLEAN, UNCHANGED <<now, anchor>>, TripsKept,
           NEW S \in SUBSET Cycle, cycles' = S, Recorded(full, resv, S),
           HomesOf(resv', S, now), Overran \/ CapsOf(full, resv', S)
    PROVE  CapsStep(full)
<1>1. full => Months(cycles)'
    BY DEF Recorded, Months
<1>2. HomesOf(resv', cycles', now')
    OBVIOUS
<1>3. Recorded(full, resv, cycles)'
    BY <1>1, <1>2 DEF Recorded
<1>4. CapsOf(full, resv, cycles)' <=> CapsOf(full, resv', S)
    BY DEF CapsOf, Admits
<1> QED BY <1>3, <1>4 DEF CapsStep, CapsHold, TripsKept

LEMMA ClaimCaps ==
    ASSUME NEW full \in BOOLEAN, CapsInv(full), TripsKept, ClaimOrigin
    PROVE  CapsStep(full)
<1> DEFINE S == EnsureCycle(cycles, anchor, now)
<1>1. cycles' = S /\ UNCHANGED <<now, anchor, resv>>
    BY Zenon DEF ClaimOrigin
<1>2. Recorded(full, resv, S) /\ (CapsOf(full, resv, cycles) => CapsOf(full, resv, S))
    BY CapsTypes, CyclesGrow DEF CapsInv
<1> HIDE DEF S
<1>3. S \in SUBSET Cycle /\ HomesOf(resv', S, now)
    BY <1>1, <1>2 DEF Recorded
<1>4. Overran \/ CapsOf(full, resv', S)
    BY <1>1, <1>2 DEF CapsInv, CapsHold
<1> QED BY <1>1, <1>2, <1>3, <1>4, GrownCaps

\* What a new row may debit.
Asked(class) == EstimateOf(class) + MonitoringBound(class)
LEMMA AskedType == \A class : Asked(class) \in Nat
<1>1. \A class : EstimateOf(class) \in Nat /\ MonitoringBound(class) \in Nat
    BY Amounts DEF EstimateOf, ExecBound, PostBound, MarginOf, MonitoringBound
<1> QED BY <1>1 DEF Asked

LEMMA NewDebit ==
    ASSUME NEW w, NEW v, Admission(w, v), v.status = "reserved", NEW ys, NEW ye
    PROVE  Debit(v, ys, ye) <= Asked(v.class)
<1>1. v.mon = MonitoringBound(v.class)
    BY DEF Admission
<1>2. RunDebit(v, ys, ye) = 0 \/ RunDebit(v, ys, ye) = EstimateOf(v.class)
    BY DEF RunDebit, Estimate
<1>3. MonitoringDebit(v, ys, ye) = 0 \/ MonitoringDebit(v, ys, ye) = MonitoringBound(v.class)
    BY <1>1 DEF MonitoringDebit
<1>4. EstimateOf(v.class) \in Nat /\ MonitoringBound(v.class) \in Nat
    BY Amounts DEF EstimateOf, ExecBound, PostBound, MarginOf, MonitoringBound
<1> QED BY <1>2, <1>3, <1>4 DEF Debit, Asked

\* decide_admission leaves room for the new row in the cycle of the request.
LEMMA FitsCaps ==
    ASSUME RowsTyped, NEW class \in Class, NEW c, Fits(resv, class, c), NEW k \in Kinds, class \in k
    PROVE  /\ Committed(resv, k, c.start, c.end) + Asked(class) <= CapOf(k)
           /\ External <= Usable
<1> DEFINE x(j) == Committed(resv, j, c.start, c.end)
           n == Asked(class)
<1>1. /\ IF class \in RuntimeClass THEN x(RuntimeClass) + n <= ClassCap(class)
         ELSE x(Class \ RuntimeClass) + n <= Allowance
      /\ x(Class) + n + External <= Usable
    BY DEF Fits, Asked, Runtime, Operator, HRCycle
<1>2. /\ x(RuntimeClass) \in Nat /\ x(Class \ RuntimeClass) \in Nat /\ x(Class) \in Nat
    BY CommittedType DEF RowsTyped
<1>3. n \in Nat
    BY AskedType
<1>4. Allocation \in Nat /\ Allowance \in Nat /\ Usable \in Nat /\ External \in Nat
    BY CapType
<1>5. ClassCap(class) <= Allocation /\ ClassCap(class) \in Int
    BY <1>4, AmountAssumption DEF ClassCap
<1> HIDE DEF x, n
<1>6. Max({Usable - External, 0}) = IF Usable - External >= 0 THEN Usable - External ELSE 0
    BY <1>4, MaxOfTwo
<1>7. External <= Usable /\ x(Class) + n <= Max({Usable - External, 0})
    BY <1>1, <1>2, <1>3, <1>4, <1>6
<1>8. x(k) + n <= CapOf(k)
    <2>1. CASE k = RuntimeClass
        BY <1>1, <1>2, <1>3, <1>4, <1>5, <2>1, CapType
    <2>2. CASE k = Class \ RuntimeClass
        BY <1>1, <2>2, CapType
    <2>3. CASE k = Class
        BY <1>7, <2>3, CapType
    <2> QED BY <2>1, <2>2, <2>3 DEF Kinds
<1> QED BY <1>7, <1>8 DEF x, n

\* One row joins what is committed.
LEMMA NewRowTotal ==
    ASSUME NEW r \in Resv, NEW t, NEW v, RowsTyped, RowType(v, t), NEW new,
           \A q \in Resv : new[q] = IF q = r THEN v ELSE resv[q],
           NEW full \in BOOLEAN, NEW k, NEW c, v.class \in k,
           Debit(resv[r], c.start, c.end) = 0, Debit(v, c.start, c.end) <= Asked(v.class)
    PROVE  /\ ShareTotal(full, new, k, c)
                 <= Committed(resv, k, c.start, c.end) + Asked(v.class)
           /\ ShareTotal(full, new, k, c) \in Int
<1> DEFINE D(w) == Debit(w, c.start, c.end)
           f == [q \in Resv |-> IF resv[q].class \in k THEN D(resv[q]) ELSE 0]
           g == [q \in Resv |-> IF q = r THEN Asked(v.class) ELSE f[q]]
           h == [q \in Resv |-> Share(full, new[q], k, c)]
<1>1. Committed(resv, k, c.start, c.end) = SumFunction(f) /\ ShareTotal(full, new, k, c) = SumFunction(h)
    BY DEF Committed, ShareTotal
<1>2. Asked(v.class) \in Nat
    BY AskedType
<1>3. ASSUME NEW q \in Resv
      PROVE  f[q] \in Nat /\ g[q] \in Nat /\ h[q] \in Nat /\ h[q] <= g[q]
    <2>1. f[q] \in Nat
        BY DebitType DEF RowsTyped
    <2>2. CASE q = r
        <3>1. new[q] = v /\ g[q] = Asked(v.class) /\ h[q] = Share(full, v, k, c)
            BY <2>2
        <3>2. Share(full, v, k, c) \in Nat /\ Share(full, v, k, c) <= Debit(v, c.start, c.end)
            BY ShareType
        <3>3. Debit(v, c.start, c.end) \in Nat
            BY DebitType
        <3> HIDE DEF f, g, h, D
        <3> QED BY <1>2, <2>1, <3>1, <3>2, <3>3
    <2>3. CASE q # r
        <3>1. new[q] = resv[q] /\ g[q] = f[q] /\ h[q] = Share(full, resv[q], k, c)
            BY <2>3
        <3>2. /\ Share(full, resv[q], k, c) \in Nat
              /\ Share(full, resv[q], k, c) <= (IF resv[q].class \in k THEN D(resv[q]) ELSE 0)
            BY ShareType DEF RowsTyped
        <3>3. f[q] = IF resv[q].class \in k THEN D(resv[q]) ELSE 0
            OBVIOUS
        <3> HIDE DEF f, g, h, D
        <3> QED BY <2>1, <3>1, <3>2, <3>3
    <2> QED BY <2>2, <2>3
<1>4. f \in [Resv -> Int] /\ g \in [Resv -> Int] /\ h \in [Resv -> Int]
    <2>1. \A q \in Resv : f[q] \in Int /\ g[q] \in Int /\ h[q] \in Int
        BY <1>3
    <2>2. f = [q \in Resv |-> f[q]] /\ g = [q \in Resv |-> g[q]] /\ h = [q \in Resv |-> h[q]]
        OBVIOUS
    <2> HIDE DEF f, g, h
    <2> QED BY <2>1, <2>2
<1>5. f[r] = 0 /\ g[r] = Asked(v.class) /\ \A q \in Resv \ {r} : g[q] = f[q]
    OBVIOUS
<1>6. IsFiniteSet(Resv)
    BY ReservationAssumption
<1>7. \A q \in Resv : h[q] <= g[q]
    BY <1>3
<1> HIDE DEF f, g, h
<1>8. SumFunction(g) = SumFunction(f) + g[r] - f[r]
    BY <1>4, <1>5, <1>6, SumChanged
<1>9. SumFunction(h) <= SumFunction(g)
    BY <1>4, <1>6, <1>7, SumMonotone
<1>10. SumFunction(f) \in Int /\ SumFunction(g) \in Int /\ SumFunction(h) \in Int
    BY <1>4, <1>6, SumType
<1> QED BY <1>1, <1>2, <1>5, <1>8, <1>9, <1>10

\* An admission: the new row v fits the cycle of the request, and no other
\* recorded cycle lasts to the instant of the request.
LEMMA AdmittedCaps ==
    ASSUME NEW full \in BOOLEAN, RowsTyped, now \in Time, NEW S \in SUBSET Cycle, Disjoint(S),
           HomesOf(resv, S, now), CapsOf(full, resv, S),
           NEW r \in Resv, NEW v, RowType(v, now), Admission(resv[r], v), v.status = "reserved",
           NEW c \in S, Covers(c, now), Fits(resv, v.class, c),
           NEW new, \A q \in Resv : new[q] = IF q = r THEN v ELSE resv[q]
    PROVE  CapsOf(full, new, S)
<1> SUFFICES ASSUME NEW d \in S, NEW k \in Kinds, full => Admits(new, k, d)
             PROVE  ShareTotal(full, new, k, d) <= CapOf(k)
    BY DEF CapsOf
<1>1. /\ \A j, e : Share(full, resv[r], j, e) = 0
      /\ \A ys, ye : Debit(resv[r], ys, ye) = 0
    BY AdmissionShares DEF RowsTyped
<1>2. v.reservedAt = now /\ now \in Int /\ v.class \in Class
    BY Amounts DEF Admission, Time
<1>3. CapOf(k) \in Int /\ d \in Cycle /\ c \in Cycle
    BY CapType
<1>4. \A q \in Resv : RowType(resv[q], now) /\ RowType(new[q], now)
    BY DEF RowsTyped
<1>5. CASE d = c /\ v.class \in k
    <2>1. Debit(resv[r], c.start, c.end) = 0 /\ Debit(v, c.start, c.end) <= Asked(v.class)
        BY <1>1, NewDebit
    <2>2. /\ ShareTotal(full, new, k, c) <= Committed(resv, k, c.start, c.end) + Asked(v.class)
          /\ ShareTotal(full, new, k, c) \in Int
        BY <1>5, <2>1, NewRowTotal
    <2>3. Committed(resv, k, c.start, c.end) + Asked(v.class) <= CapOf(k)
        BY <1>2, <1>5, FitsCaps
    <2>4. Committed(resv, k, c.start, c.end) \in Int /\ Asked(v.class) \in Int
        <3>1. Committed(resv, k, c.start, c.end) \in Nat
            BY <1>4, CommittedType
        <3>2. Asked(v.class) \in Nat
            BY AskedType
        <3> QED BY <3>1, <3>2
    <2> QED BY <1>3, <1>5, <2>2, <2>3, <2>4
<1>6. CASE ~(d = c /\ v.class \in k)
    <2>1. Share(full, v, k, d) = 0 /\ ~(v.class \in k /\ Covers(d, v.reservedAt))
        <3>1. CASE v.class \notin k
            BY <3>1 DEF Share
        <3>2. CASE d # c
            <4>1. /\ d.start \in Int /\ d.end \in Int /\ c.start \in Int /\ c.end \in Int
                  /\ c.start <= now /\ now <= c.end /\ d.start <= now
                BY <1>3 DEF Cycle, Covers, HomesOf
            <4>2. d.end < c.start \/ c.end < d.start
                BY <3>2 DEF Disjoint
            <4>3. ~(now <= d.end)
                BY <1>2, <4>1, <4>2
            <4> QED BY <1>2, <4>3 DEF Share, Covers
        <3> QED BY <1>6, <3>1, <3>2
    <2>2. full => Admits(resv, k, d)
        <3> SUFFICES ASSUME full  PROVE Admits(resv, k, d)
            OBVIOUS
        <3>1. PICK q \in Resv : Live(new[q]) /\ new[q].class \in k /\ Covers(d, new[q].reservedAt)
            BY DEF Admits
        <3>2. q # r
            BY <2>1, <3>1
        <3> QED BY <3>1, <3>2 DEF Admits
    <2>3. ShareTotal(full, resv, k, d) <= CapOf(k)
        BY <2>2 DEF CapsOf
    <2>4. ASSUME NEW q \in Resv
          PROVE  Share(full, new[q], k, d) <= Share(full, resv[q], k, d)
        <3>1. Share(full, resv[q], k, d) \in Nat
            BY <1>4, ShareType
        <3>2. CASE q = r
            BY <2>1, <3>1, <3>2
        <3>3. CASE q # r
            BY <3>1, <3>3
        <3> QED BY <3>2, <3>3
    <2>5. /\ ShareTotal(full, new, k, d) <= ShareTotal(full, resv, k, d)
          /\ ShareTotal(full, new, k, d) \in Int /\ ShareTotal(full, resv, k, d) \in Int
        BY <1>4, <2>4, TotalFalls
    <2> QED BY <1>3, <2>3, <2>5
<1> QED BY <1>5, <1>6

LEMMA ReserveCaps ==
    ASSUME NEW full \in BOOLEAN, CapsInv(full), Base, TripsKept,
           NEW r \in Resv, NEW class \in Class, Reserve(r, class)
    PROVE  CapsStep(full)
<1> DEFINE S == EnsureCycle(cycles, anchor, now)
           c == Derived(anchor, now)
           known == CycleKnown(cycles, anchor, now)
           admitted == /\ ~LatchTripped
                       /\ known
                       /\ c.start \in held'
                       /\ Covers(c, now)
                       /\ Fits(resv, class, c)
           v == NewRow(class, admitted)
           w == resv[r]
<1>1. BaseInv /\ RowsTyped /\ now \in Time /\ now \in Nat /\ anchor \in Nat /\ cycles \in SUBSET Cycle
    BY CapsTypes
<1>2. /\ w.status = "free" /\ cycles' = S /\ resv' = [resv EXCEPT ![r] = v]
      /\ UNCHANGED <<now, anchor>>
    BY Zenon DEF Reserve
<1>3. v.status = (IF admitted THEN "reserved" ELSE "denied") /\ v.class = class /\ Admission(w, v)
    <2> HIDE DEF admitted
    <2> QED BY <1>2, NewRowPut
<1>4. Recorded(full, resv, S) /\ (CapsOf(full, resv, cycles) => CapsOf(full, resv, S))
    BY <1>1, CyclesGrow DEF CapsInv
<1>5. S \in SUBSET Cycle /\ Disjoint(S)
    <2>1. Disjoint(cycles)
        BY DEF CapsInv, CycleInv, CyclesDisjoint, Disjoint
    <2> QED BY <1>1, <2>1, EnsureCycleDisjoint
<1>6. known => c \in S
    <2>1. CASE c \in cycles
        BY <2>1 DEF EnsureCycle, WithCycle
    <2>2. CASE c \notin cycles
        BY <2>2 DEF EnsureCycle, WithCycle
    <2> QED BY <2>1, <2>2
<1>7. admitted => known /\ Covers(c, now) /\ Fits(resv, class, c)
    OBVIOUS
<1> HIDE DEF S, c, known, admitted, v
<1>8. HomesOf(resv, S, now)
    BY <1>4 DEF Recorded
<1>9. \A q \in Resv : resv'[q] = IF q = r THEN v ELSE resv[q]
    BY <1>1, <1>2 DEF BaseInv, RowsInv
<1>10. RowType(w, now) /\ RowType(v, now)
    BY <1>1, <1>2, NewRowType
<1>11. RowsTyped'
    BY DEF Base, BaseInv, RowsInv, RowsTyped
<1>12. now <= now' /\ now' \in Nat
    BY <1>1, <1>2
<1>13. CASE v.status = "denied"
    <2>1. Lighter(full, w, v)
        BY <1>1, <1>3, <1>10, <1>13, AdmissionShares
    <2>2. ASSUME NEW q \in Resv
          PROVE  Lighter(full, resv[q], resv'[q])
        <3>1. CASE q = r
            BY <1>9, <2>1, <3>1
        <3>2. CASE q # r
            <4>1. Lighter(full, resv[q], resv[q])
                BY <1>1, LighterSame DEF RowsTyped
            <4> QED BY <1>9, <3>2, <4>1
        <3> QED BY <3>1, <3>2
    <2>3. HomesOf(resv', S, now)
        <3>1. \A q \in Resv : SameAdmission(resv[q], resv'[q])
            BY <2>2 DEF Lighter
        <3>2. HomesOf(resv', S, now')
            BY <1>1, <1>5, <1>8, <1>12, <3>1, HomesStay
        <3> QED BY <1>2, <3>2
    <2>4. CapsOf(full, resv, S) => CapsOf(full, resv', S)
        BY <1>1, <1>5, <1>11, <2>2, CapsFall
    <2>5. Overran \/ CapsOf(full, resv', S)
        BY <1>4, <2>4 DEF CapsInv, CapsHold
    <2> QED BY <1>2, <1>4, <1>5, <2>3, <2>5, GrownCaps
<1>14. CASE v.status # "denied"
    <2>1. admitted
        BY <1>3, <1>14
    <2>2. v.status = "reserved"
        BY <1>3, <2>1
    <2>3. c \in S /\ Covers(c, now) /\ Fits(resv, v.class, c)
        BY <1>3, <1>6, <1>7, <2>1
    <2>4. External <= Usable
        <3>1. Class \in Kinds /\ class \in Class
            BY DEF Kinds
        <3> QED BY <1>1, <1>3, <2>3, <3>1, FitsCaps
    <2>5. HomesOf(resv', S, now)
        <3>1. ASSUME NEW q \in Resv, Live(resv'[q])
              PROVE  External <= Usable /\ \E x \in S : Covers(x, resv'[q].reservedAt)
            <4>1. CASE q = r
                <5>1. resv'[q].reservedAt = now
                    BY <1>3, <1>9, <4>1 DEF Admission
                <5> QED BY <2>3, <2>4, <5>1
            <4>2. CASE q # r
                BY <1>8, <1>9, <3>1, <4>2 DEF HomesOf
            <4> QED BY <4>1, <4>2
        <3> QED BY <1>8, <3>1 DEF HomesOf
    <2>6. CapsOf(full, resv, S) => CapsOf(full, resv', S)
        <3> SUFFICES ASSUME CapsOf(full, resv, S)
                     PROVE  CapsOf(full, resv', S)
            OBVIOUS
        <3> QED BY <1>1, <1>3, <1>5, <1>8, <1>9, <1>10, <2>2, <2>3, AdmittedCaps
    <2>7. Overran \/ CapsOf(full, resv', S)
        BY <1>4, <2>6 DEF CapsInv, CapsHold
    <2> QED BY <1>2, <1>4, <1>5, <2>5, <2>7, GrownCaps
<1> QED BY <1>13, <1>14

LEMMA CapsSteps ==
    ASSUME NEW full \in BOOLEAN, full => OneAnchor, CapsInv(full), Base, TripsKept, [Next]_vars
    PROVE  CapsStep(full)
<1>1. CASE UNCHANGED vars \/ Tick \/ ClearLatch \/ ChangeAnchor
    BY <1>1, QuietStepCaps
<1>2. CASE ClaimOrigin
    BY <1>2, ClaimCaps
<1>3. ASSUME NEW r \in Resv, RowNext(r)
      PROVE  CapsStep(full)
    <2>1. CASE \E class \in Classes : Reserve(r, class)
        <3>1. PICK class \in Class : Reserve(r, class)
            BY <2>1, ClassAssumption
        <3> QED BY <3>1, ReserveCaps
    <2>2. CASE \/ Attach(r) \/ ReleaseUnattached(r) \/ SettleOperator(r) \/ Charge(r)
               \/ WorkCompletes(r)
        BY <2>2, RowCaps
    <2> QED BY <1>3, <2>1, <2>2, Zenon DEF RowNext
<1>4. ASSUME NEW p \in Processes, ProcNext(p)
      PROVE  CapsStep(full)
    <2>1. CASE \/ \E r \in Resv : PlanSettles(p, r)
               \/ \E r \in Resv : PlanRead(p, r)
               \/ \E total \in Figures \union {NoFigure}, e \in {FALSE, Excess} :
                     RecordUsage(p, total, e)
        BY <2>1, UsageCaps
    <2>2. CASE \/ \E e \in {FALSE, Excess} : MonitoringFails(p, e)
               \/ ResolveMarkers(p)
        BY <2>2, MonitoringCaps
    <2>5. CASE SelectMonitoring(p) \/ \E r \in Resv : BeginMonitoring(p, r)
        BY <2>5, MonitoringBegins, MonitoringCaps, QuietStepCaps
    <2>3. CASE \/ Send(p) \/ Lose(p) \/ Boot(p)
               \/ \E e \in {FALSE, Excess} : ReadFails(p, e)
        BY <2>3, QuietStepCaps
    <2>4. CASE \E total \in Figures, e \in {FALSE, Excess} : CompleteMonitoring(p, total, e)
        BY <2>4, CompletionCaps
    <2> QED BY <1>4, <2>1, <2>2, <2>3, <2>4, <2>5, Zenon DEF ProcNext
<1> QED BY <1>1, <1>2, <1>3, <1>4, Zenon DEF Next, OwnerNext

LEMMA CapsKeptOn ==
    ASSUME NEW full \in BOOLEAN, full => OneProcess /\ OneAnchor, CapsInv(full), [Next]_vars
    PROVE  CapsInv(full)'
<1>1. BaseInv /\ CycleInv /\ TripInv /\ (full => ChargeInv)
    BY DEF CapsInv
<1>2. Base /\ TripsKept /\ CycleInv'
    BY <1>1, BaseKept, TripsAlways, CycleKept
<1>3. full => ChargeInv'
    BY <1>1, ChargeKept
<1>4. CapsStep(full)
    BY <1>2, CapsSteps
<1> QED BY <1>2, <1>3, <1>4 DEF CapsInv, CapsStep, Base, TripsKept

LEMMA CapsInit ==
    ASSUME NEW full \in BOOLEAN, Init
    PROVE  CapsInv(full)
<1>1. BaseInv /\ CycleInv /\ ChargeInv
    BY BaseInit, CycleInit, ChargeInit
<1>2. TripInv
    BY DEF Init, TripInv
<1>3. cycles = {} /\ \A r \in Resv : resv[r] = FreeRow
    BY DEF Init
<1>4. \A r \in Resv : ~Live(resv[r])
    BY <1>3 DEF Live, FreeRow
<1>5. Recorded(full, resv, cycles)
    BY <1>3, <1>4 DEF Recorded, HomesOf, Months
<1>6. CapsHold(full)
    BY <1>3 DEF CapsHold, CapsOf
<1> QED BY <1>1, <1>2, <1>5, <1>6 DEF CapsInv
-----------------------------------------------------------------------------
(* What the invariant says of the caps.                                    *)

LEMMA RunShares ==
    ASSUME NEW full, ~full, NEW k, NEW c
    PROVE  AdmittedRuns(k, c) = ShareTotal(full, resv, k, c)
<1>1. ASSUME NEW r \in Resv
      PROVE  (IF resv[r].class \in k /\ resv[r].reservedAt <= c.end
              THEN RunDebit(resv[r], c.start, c.end) ELSE 0) = Share(full, resv[r], k, c)
    BY DEF Share, Part
<1>2. [r \in Resv |-> IF resv[r].class \in k /\ resv[r].reservedAt <= c.end
                      THEN RunDebit(resv[r], c.start, c.end) ELSE 0]
         = [r \in Resv |-> Share(full, resv[r], k, c)]
    BY <1>1, Zenon
<1> QED BY <1>2, Zenon DEF AdmittedRuns, ShareTotal

LEMMA RunCapsFollow ==
    ASSUME NEW full \in BOOLEAN, ~full, CapsInv(full)
    PROVE  RunCapsOrLatch
<1> SUFFICES ASSUME ~Overran, NEW c \in cycles
             PROVE  RunCapsKept(c)
    BY DEF RunCapsOrLatch
<1>1. CapsOf(full, resv, cycles)
    BY DEF CapsInv, CapsHold
<1>2. \A k \in Kinds : AdmittedRuns(k, c) <= CapOf(k)
    BY <1>1, RunShares DEF CapsOf
<1>3. RuntimeClass \in Kinds /\ Class \ RuntimeClass \in Kinds /\ Class \in Kinds
    BY DEF Kinds
<1>4. AdmittedRuns(RuntimeClass, c) <= CapOf(RuntimeClass)
    BY <1>2, <1>3, Zenon
<1>5. AdmittedRuns(Class \ RuntimeClass, c) <= CapOf(Class \ RuntimeClass)
    BY <1>2, <1>3, Zenon
<1>6. AdmittedRuns(Class, c) <= CapOf(Class)
    BY <1>2, <1>3, Zenon
<1> QED BY <1>4, <1>5, <1>6, CapType, Zenon DEF RunCapsKept

LEMMA AllShares ==
    ASSUME NEW full, full, NEW k, NEW c
    PROVE  Committed(AdmittedBy(c.end), k, c.start, c.end) = ShareTotal(full, resv, k, c)
<1> DEFINE rows == AdmittedBy(c.end)
<1>1. ASSUME NEW r \in Resv
      PROVE  (IF rows[r].class \in k THEN Debit(rows[r], c.start, c.end) ELSE 0)
                 = Share(full, resv[r], k, c)
    <2>1. rows[r] = IF resv[r].reservedAt <= c.end THEN resv[r] ELSE FreeRow
        BY DEF AdmittedBy
    <2> HIDE DEF rows
    <2>2. CASE resv[r].reservedAt <= c.end
        BY <2>1, <2>2 DEF Share, Part
    <2>3. CASE ~(resv[r].reservedAt <= c.end)
        <3>1. FreeRow.status \notin OpenStatus /\ FreeRow.status # "reconciled"
            BY DEF FreeRow, OpenStatus
        <3>2. Debit(FreeRow, c.start, c.end) = 0
            BY <3>1, NoDebit
        <3> QED BY <2>1, <2>3, <3>2 DEF Share
    <2> QED BY <2>2, <2>3
<1> HIDE DEF rows
<1>2. [r \in Resv |-> IF rows[r].class \in k THEN Debit(rows[r], c.start, c.end) ELSE 0]
         = [r \in Resv |-> Share(full, resv[r], k, c)]
    BY <1>1, Zenon
<1> QED BY <1>2, Zenon DEF Committed, ShareTotal, rows

LEMMA ShareTotalType ==
    ASSUME NEW rows, NEW t, \A r \in Resv : RowType(rows[r], t), NEW full \in BOOLEAN, NEW k, NEW c
    PROVE  ShareTotal(full, rows, k, c) \in Int
<1> DEFINE f == [r \in Resv |-> Share(full, rows[r], k, c)]
<1>1. f \in [Resv -> Int]
    BY ShareType
<1>2. ShareTotal(full, rows, k, c) = SumFunction(f)
    BY DEF ShareTotal
<1> HIDE DEF f
<1> QED BY <1>1, <1>2, SumType, ReservationAssumption

LEMMA AllCapsFollow ==
    ASSUME NEW full \in BOOLEAN, full, CapsInv(full)
    PROVE  Overran \/ \A c \in cycles : AdmittingCapsKept(AdmittedBy(c.end), c)
<1> SUFFICES ASSUME ~Overran, NEW c \in cycles
             PROVE  AdmittingCapsKept(AdmittedBy(c.end), c)
    OBVIOUS
<1> DEFINE x(k) == Committed(AdmittedBy(c.end), k, c.start, c.end)
<1>1. CapsOf(full, resv, cycles) /\ RowsTyped
    BY CapsTypes DEF CapsInv, CapsHold
<1>2. ASSUME NEW k \in Kinds, AdmittedIn(k, c)
      PROVE  x(k) <= CapOf(k)
    <2>1. Admits(resv, k, c)
        BY <1>2 DEF Admits, AdmittedIn, Live
    <2>2. ShareTotal(full, resv, k, c) <= CapOf(k)
        BY <1>1, <2>1 DEF CapsOf
    <2> QED BY <2>2, AllShares
<1>3. RuntimeClass \in Kinds /\ Class \ RuntimeClass \in Kinds /\ Class \in Kinds
    BY DEF Kinds
<1>4. AdmittedIn(RuntimeClass, c) => x(RuntimeClass) <= Allocation
    BY <1>2, <1>3, CapType
<1>5. AdmittedIn(Class \ RuntimeClass, c) => x(Class \ RuntimeClass) <= Allowance
    BY <1>2, <1>3, CapType
<1>6. AdmittedIn(Class, c) => x(Class) + External <= Usable
    <2> SUFFICES ASSUME AdmittedIn(Class, c)  PROVE x(Class) + External <= Usable
        OBVIOUS
    <2>1. External <= Usable
        BY DEF AdmittedIn, Live, CapsInv, Recorded, HomesOf
    <2>2. External \in Nat /\ Usable \in Nat
        BY CapType
    <2>3. Max({Usable - External, 0}) = Usable - External
        BY <2>1, <2>2, MaxOfTwo
    <2>4. x(Class) <= Usable - External
        BY <1>2, <1>3, <2>3, CapType
    <2>5. x(Class) \in Int
        <3>1. ShareTotal(full, resv, Class, c) \in Int
            BY <1>1, ShareTotalType DEF RowsTyped
        <3> QED BY <3>1, AllShares
    <2> HIDE DEF x
    <2> QED BY <2>2, <2>4, <2>5
<1> QED BY <1>4, <1>5, <1>6 DEF AdmittingCapsKept, Runtime, Operator, HRCycle

RunCapsInv == \E full \in BOOLEAN : ~full /\ CapsInv(full)
AllCapsInv == \E full \in BOOLEAN : full /\ CapsInv(full)

\* What the runs admitted by the end of a recorded cycle debit to it never
\* exceeds the runtime allocation, the operator allowance or the account, unless
\* a settlement or a correction beyond what was reserved for it tripped the
\* latch: through admission, settlement and correction, for any number of
\* processes, losses and changes of the anchor (reserve, _try_settle,
\* _apply_correction, ensure_cycle).
THEOREM RunCapsAlwaysKept == Spec => []RunCapsOrLatch
<1>1. Init => RunCapsInv
    <2>1. \E full \in BOOLEAN : ~full
        OBVIOUS
    <2> QED BY <2>1, CapsInit DEF RunCapsInv
<1>2. RunCapsInv /\ [Next]_vars => RunCapsInv'
    BY CapsKeptOn DEF RunCapsInv
<1>3. RunCapsInv => RunCapsOrLatch
    BY RunCapsFollow DEF RunCapsInv
<1> QED BY <1>1, <1>2, <1>3, PTL DEF Spec

\* With their monitoring allowances, in every cycle that admitted a row, while
\* one process works and the anchor stays.
THEOREM CapsAlwaysKept ==
    ASSUME OneProcess, OneAnchor
    PROVE  Spec => []CapsOrLatch
<1>1. Init => AllCapsInv
    <2>1. \E full \in BOOLEAN : full
        OBVIOUS
    <2> QED BY <2>1, CapsInit DEF AllCapsInv
<1>2. AllCapsInv /\ [Next]_vars => AllCapsInv'
    BY CapsKeptOn DEF AllCapsInv
<1>3. AllCapsInv /\ RunCapsOrLatch => CapsOrLatch
    BY AllCapsFollow DEF AllCapsInv, CapsOrLatch
<1> QED BY <1>1, <1>2, <1>3, RunCapsAlwaysKept, PTL DEF Spec
=============================================================================
