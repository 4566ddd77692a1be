------------------------- MODULE LedgerHandoffProofs -------------------------
(***************************************************************************)
(* At most one environment has, in any cycle, a right to authority: it     *)
(* holds the cycle, or would on its next use of the ledger (continuation), *)
(* or a record bound to it may still arrive.  OneAuthority alone is not    *)
(* inductive: it does not see the record in transit or the rollover.       *)
(*                                                                         *)
(* On these rights rests the rest: what is carried from ledger to ledger   *)
(* counts what the others have spent (Pooled), so that one cap holds for   *)
(* all of them, and the ledgers together behave as the one of              *)
(* CycleAuthority.                                                         *)
(***************************************************************************)
EXTENDS LedgerHandoff, FiniteSums

Row(a) ==
    a = [kind |-> a.kind, carried |-> a.carried, exported |-> a.exported, imported |-> a.imported]

\* The authority table has a row per environment and cycle; nothing is written
\* beyond the current cycle, and a record says which cycle it was exported from.
Shape ==
    /\ cycle \in Cycles
    /\ known = [e \in Env |-> known[e]]
    /\ auth = [e \in Env |-> [k \in Cycles |-> auth[e][k]]]
    /\ \A e \in Env, k \in Cycles :
          /\ Row(auth[e][k])
          /\ k > cycle => auth[e][k] = NoAuthority
          /\ auth[e][k].exported # NoRecord => auth[e][k].exported.cycle = k

\* A record for cycle k bound to e exists, and may yet be imported.
Bound(e, k) == \E g \in Env : auth[g][k].exported # NoRecord /\ auth[g][k].exported.dest = e

Right(e, k) ==
    \/ Holds(auth, e, k)
    \/ auth[e][k].kind = "none" /\ (Bound(e, k) \/ (k = cycle /\ Continues(e)))

OneRight == \A k \in Cycles, e, f \in Env : Right(e, k) /\ Right(f, k) => e = f
AuthorityInv == Shape /\ OneRight
-----------------------------------------------------------------------------
(* Writing one row.                                                        *)

\* A transaction of e that leaves the table as it was except for e's row of the
\* current cycle, which is now v.
Writes(e, v) ==
    /\ Row(v)
    /\ v.exported # NoRecord => v.exported.cycle = cycle
    /\ cycle' = cycle
    /\ known' = WithCycle(e)
    /\ auth' = [f \in Env |-> [k \in Cycles |-> auth'[f][k]]]
    /\ \A f \in Env, k \in Cycles :
          auth'[f][k] = IF f = e /\ k = cycle THEN v ELSE auth[f][k]

ContinuedRow == [NoAuthority EXCEPT !.kind = "continued"]
OriginRow == [NoAuthority EXCEPT !.kind = "origin"]
HandoffRow(r) ==
    [kind |-> "handoff", carried |-> r.total, exported |-> NoRecord, imported |-> r]
\* e's row of the current cycle once authority has been continued into it.
CurrentRow(e) == WithContinued(e)[e][cycle]
ExportRecord(e, dest) == BuildRecord(WithContinued(e), e, dest)
ExportedRow(e, dest) == [CurrentRow(e) EXCEPT !.exported = ExportRecord(e, dest)]

LEMMA Rows ==
  /\ Row(NoAuthority) /\ NoAuthority.kind = "none" /\ NoAuthority.exported = NoRecord
  /\ Row(ContinuedRow) /\ ContinuedRow.kind = "continued" /\ ContinuedRow.exported = NoRecord
  /\ Row(OriginRow) /\ OriginRow.kind = "origin" /\ OriginRow.exported = NoRecord
  /\ \A r : /\ Row(HandoffRow(r)) /\ HandoffRow(r).kind = "handoff"
            /\ HandoffRow(r).carried = r.total /\ HandoffRow(r).exported = NoRecord
  /\ NoAuthority.carried = 0 /\ ContinuedRow.carried = 0 /\ OriginRow.carried = 0
  BY DEF Row, NoAuthority, ContinuedRow, OriginRow, HandoffRow

LEMMA CycleFacts == ASSUME Shape
                    PROVE  cycle \in Nat /\ (cycle > 0 => cycle - 1 \in Cycles /\ cycle - 1 # cycle)
  BY HandoffAssumption DEF Shape, Cycles

\* The table after continuation differs at most in e's row of the current cycle.
LEMMA ContinuedTable ==
  ASSUME Shape, NEW e \in Env
  PROVE  /\ WithContinued(e) = [f \in Env |-> [k \in Cycles |-> WithContinued(e)[f][k]]]
         /\ \A f \in Env, k \in Cycles :
               WithContinued(e)[f][k] = IF f = e /\ k = cycle /\ Continues(e) THEN ContinuedRow
                                        ELSE auth[f][k]
<1>1. CASE Continues(e)
  <2>1. WithContinued(e) = [auth EXCEPT ![e][cycle] = ContinuedRow]
    BY <1>1 DEF WithContinued, ContinuedRow
  <2>2. cycle \in Cycles /\ auth = [f \in Env |-> [k \in Cycles |-> auth[f][k]]]  BY DEF Shape
  <2> DEFINE T == [auth EXCEPT ![e][cycle] = ContinuedRow]
  <2>3. \A f \in Env, k \in Cycles : T[f][k] = IF f = e /\ k = cycle THEN ContinuedRow ELSE auth[f][k]
    BY <2>2
  <2>4. T = [f \in Env |-> [k \in Cycles |-> T[f][k]]]  BY <2>2
  <2> QED  BY <2>1, <2>3, <2>4, <1>1
<1>2. CASE ~Continues(e)
  BY <1>2 DEF WithContinued, Shape
<1> QED  BY <1>1, <1>2

\* What a written row leaves alone: the shape, every right to another cycle, and
\* whether another environment's authority would continue into this one.
LEMMA WriteKeeps ==
  ASSUME Shape, NEW e \in Env, NEW v, Writes(e, v)
  PROVE  /\ Shape'
         /\ \A f \in Env, k \in Cycles : k # cycle => (Right(f, k)' <=> Right(f, k))
         /\ \A f \in Env \ {e} : Continues(f)' <=> Continues(f)
         /\ v.kind = "none" => (Continues(e)' => auth[e][cycle].kind # "none" \/ Continues(e))
<1>1. Shape'
  <2>1. known' = [f \in Env |-> known'[f]]  BY DEF Shape, Writes, WithCycle
  <2>2. cycle' \in Cycles  BY DEF Shape, Writes
  <2>3. ASSUME NEW f \in Env, NEW k \in Cycles
        PROVE  /\ Row(auth'[f][k])
               /\ k > cycle' => auth'[f][k] = NoAuthority
               /\ auth'[f][k].exported # NoRecord => auth'[f][k].exported.cycle = k
    <3>1. CASE f = e /\ k = cycle
      <4>1. auth'[f][k] = v /\ ~(k > cycle)  BY <3>1, CycleFacts DEF Writes
      <4> QED  BY <4>1, <3>1 DEF Writes
    <3>2. CASE ~(f = e /\ k = cycle)
      <4>1. auth'[f][k] = auth[f][k]  BY <3>2 DEF Writes
      <4> QED  BY <4>1 DEF Shape, Writes
    <3> QED  BY <3>1, <3>2
  <2> QED  BY <2>1, <2>2, <2>3 DEF Shape, Writes, Row, NoAuthority, NoRecord
<1>2. ASSUME NEW f \in Env
      PROVE  (cycle > 0 /\ cycle - 1 \in known[f] /\ Holds(auth, f, cycle - 1))
               <=> (cycle' > 0 /\ cycle' - 1 \in known'[f] /\ Holds(auth', f, cycle' - 1))
  <2>1. cycle > 0 => auth'[f][cycle - 1] = auth[f][cycle - 1]  BY CycleFacts DEF Writes
  <2>2. cycle > 0 => (cycle - 1 \in known'[f] <=> cycle - 1 \in known[f])
    BY CycleFacts DEF Writes, WithCycle, Shape
  <2> QED  BY <2>1, <2>2 DEF Writes, Holds, HeldRow
<1>3. \A f \in Env \ {e} : Continues(f)' <=> Continues(f)
  <2>1. \A f \in Env \ {e} : auth'[f][cycle] = auth[f][cycle]  BY DEF Writes, Shape
  <2> QED  BY <1>2, <2>1 DEF Continues, Writes
<1>4. \A f \in Env, k \in Cycles : k # cycle => (Right(f, k)' <=> Right(f, k))
  <2>1. \A f \in Env, k \in Cycles : k # cycle => auth'[f][k] = auth[f][k]  BY DEF Writes
  <2>2. \A f \in Env, k \in Cycles : k # cycle => (Bound(f, k)' <=> Bound(f, k))  BY <2>1 DEF Bound
  <2> QED  BY <2>1, <2>2 DEF Right, Holds, HeldRow, Writes
<1>5. v.kind = "none" => (Continues(e)' => auth[e][cycle].kind # "none" \/ Continues(e))
  BY <1>2 DEF Continues
<1> QED  BY <1>1, <1>3, <1>4, <1>5
-----------------------------------------------------------------------------
(* One right, action by action.                                            *)

\* Unless a write exports, it gives no other environment a right to this cycle.
LEMMA OthersGainNothing ==
  ASSUME Shape, NEW e \in Env, NEW v, Writes(e, v),
         v.exported = NoRecord \/ v.exported = auth[e][cycle].exported
  PROVE  /\ \A f \in Env : Bound(f, cycle)' => Bound(f, cycle)
         /\ \A f \in Env \ {e} : Right(f, cycle)' => Right(f, cycle)
<1>1. cycle \in Cycles  BY DEF Shape
<1>2. \A g \in Env : auth'[g][cycle].exported = NoRecord
                       \/ auth'[g][cycle].exported = auth[g][cycle].exported
  BY <1>1 DEF Writes
<1>3. \A f \in Env : Bound(f, cycle)' => Bound(f, cycle)  BY <1>2 DEF Bound, Writes
<1>4. \A f \in Env \ {e} : auth'[f][cycle] = auth[f][cycle]  BY <1>1 DEF Writes
<1> QED  BY <1>1, <1>3, <1>4, WriteKeeps DEF Right, Holds, HeldRow, Writes

\* So the one right stays the only one if e had it, or nobody else did.
LEMMA WriteKeepsOneRight ==
  ASSUME AuthorityInv, NEW e \in Env, NEW v, Writes(e, v),
         \A f, g \in Env : Right(f, cycle)' /\ Right(g, cycle)' => f = g
  PROVE  AuthorityInv'
<1>1. Shape'  BY WriteKeeps DEF AuthorityInv
<1>2. ASSUME NEW k \in Cycles, NEW f \in Env, NEW g \in Env, Right(f, k)', Right(g, k)'
      PROVE  f = g
  <2>1. CASE k = cycle  BY <1>2, <2>1 DEF Writes
  <2>2. CASE k # cycle
    <3>1. Right(f, k) /\ Right(g, k)  BY <1>2, <2>2, WriteKeeps DEF AuthorityInv
    <3> QED  BY <3>1 DEF AuthorityInv, OneRight
  <2> QED  BY <2>1, <2>2
<1> QED  BY <1>1, <1>2 DEF AuthorityInv, OneRight

LEMMA ReserveWrites ==
  ASSUME Shape, NEW e \in Env, NEW o \in Ops, Reserve(e, o)  PROVE Writes(e, CurrentRow(e))
<1>1. cycle \in Cycles /\ Row(auth[e][cycle])  BY DEF Shape
<1>2. CurrentRow(e) = IF Continues(e) THEN ContinuedRow ELSE auth[e][cycle]
  BY <1>1, ContinuedTable DEF CurrentRow
<1>3. Row(CurrentRow(e))
       /\ (CurrentRow(e).exported # NoRecord => CurrentRow(e).exported.cycle = cycle)
  BY <1>1, <1>2, Rows DEF Shape
<1> QED  BY <1>1, <1>2, <1>3, ContinuedTable DEF Writes, Reserve

LEMMA ReserveRights ==
  ASSUME Shape, NEW e \in Env, NEW o \in Ops, Reserve(e, o)
  PROVE  \A f \in Env : Right(f, cycle)' => Right(f, cycle)
<1> DEFINE v == CurrentRow(e)
<1>1. cycle \in Cycles  BY DEF Shape
<1>2. Writes(e, v) /\ v = IF Continues(e) THEN ContinuedRow ELSE auth[e][cycle]
  BY <1>1, ReserveWrites, ContinuedTable DEF CurrentRow
<1>3. v.exported = NoRecord \/ v.exported = auth[e][cycle].exported  BY <1>2, Rows
<1> HIDE DEF v
<1>4. Right(e, cycle)' => Right(e, cycle)
  <2>1. CASE Continues(e)  BY <2>1 DEF Right, Continues
  <2>2. CASE ~Continues(e)
    <3>1. auth'[e][cycle] = auth[e][cycle]  BY <2>2, <1>1, <1>2 DEF Writes
    <3>2. Bound(e, cycle)' => Bound(e, cycle)  BY <1>1, <1>2, <1>3, OthersGainNothing
    <3>3. auth[e][cycle].kind = "none" => (Continues(e)' => Continues(e))
      BY <2>2, <1>1, <1>2, WriteKeeps
    <3> QED  BY <3>1, <3>2, <3>3, <1>2 DEF Right, Holds, HeldRow, Writes
  <2> QED  BY <2>1, <2>2
<1> QED  BY <1>2, <1>3, <1>4, OthersGainNothing

LEMMA ReserveStep ==
  ASSUME AuthorityInv, NEW e \in Env, NEW o \in Ops, Reserve(e, o)  PROVE AuthorityInv'
<1>1. Shape /\ cycle \in Cycles  BY DEF AuthorityInv, Shape
<1>2. Writes(e, CurrentRow(e))  BY <1>1, ReserveWrites
<1>3. \A f \in Env : Right(f, cycle)' => Right(f, cycle)  BY <1>1, ReserveRights
<1>4. \A f, g \in Env : Right(f, cycle)' /\ Right(g, cycle)' => f = g
  BY <1>1, <1>3 DEF AuthorityInv, OneRight
<1> QED  BY <1>2, <1>4, WriteKeepsOneRight

LEMMA ClaimWrites ==
  ASSUME Shape, NEW e \in Env, ClaimOrigin(e)  PROVE Writes(e, OriginRow)
<1>1. cycle \in Cycles /\ auth = [f \in Env |-> [k \in Cycles |-> auth[f][k]]]  BY DEF Shape
<1>2. auth' = [auth EXCEPT ![e][cycle] = OriginRow]  BY DEF ClaimOrigin, OriginRow
<1>3. auth' = [f \in Env |-> [k \in Cycles |-> auth'[f][k]]]  BY <1>1, <1>2
<1>4. \A f \in Env, k \in Cycles :
        auth'[f][k] = IF f = e /\ k = cycle THEN OriginRow ELSE auth[f][k]
  BY <1>1, <1>2
<1> QED  BY <1>3, <1>4, Rows DEF Writes, ClaimOrigin

\* The owner's word is that nobody else has a right to the cycle claimed.
LEMMA ClaimRights ==
  ASSUME Shape, NEW e \in Env, ClaimOrigin(e)
  PROVE  \A f \in Env : Right(f, cycle)' => f = e
<1>1. \A f \in Env \ {e} : ~Right(f, cycle)
  BY DEF Shape, ClaimOrigin, Attested, Involved, Right, Bound
<1> QED  BY <1>1, ClaimWrites, Rows, OthersGainNothing

LEMMA ClaimStep ==
  ASSUME AuthorityInv, NEW e \in Env, ClaimOrigin(e)  PROVE AuthorityInv'
<1>1. Shape  BY DEF AuthorityInv
<1>2. \A f, g \in Env : Right(f, cycle)' /\ Right(g, cycle)' => f = g  BY <1>1, ClaimRights
<1> QED  BY <1>1, <1>2, ClaimWrites, WriteKeepsOneRight

LEMMA ImportWrites ==
  ASSUME Shape, NEW e \in Env, NEW r \in Records, Import(e, r)  PROVE Writes(e, HandoffRow(r))
<1>1. cycle \in Cycles /\ auth = [f \in Env |-> [k \in Cycles |-> auth[f][k]]]  BY DEF Shape
<1>2. auth' = [auth EXCEPT ![e][cycle] = HandoffRow(r)]  BY DEF Import, HandoffRow
<1>3. auth' = [f \in Env |-> [k \in Cycles |-> auth'[f][k]]]  BY <1>1, <1>2
<1>4. \A f \in Env, k \in Cycles :
        auth'[f][k] = IF f = e /\ k = cycle THEN HandoffRow(r) ELSE auth[f][k]
  BY <1>1, <1>2
<1> QED  BY <1>3, <1>4, Rows DEF Writes, Import

\* The importer is the ledger some export of this cycle is bound to.
LEMMA ImportBound ==
  ASSUME Shape, NEW e \in Env, NEW r \in Records, Import(e, r)
  PROVE  /\ auth[e][cycle].kind = "none"
         /\ \E g \in Env : auth[g][cycle].exported = r /\ r # NoRecord /\ r.dest = e
<1>1. cycle \in Cycles  BY DEF Shape
<1>2. PICK g \in Env, k \in Cycles : r = auth[g][k].exported /\ r # NoRecord  BY DEF Records
<1>3. k = cycle /\ r.dest = e  BY <1>2 DEF Shape, Import, ForThisLedger
<1>4. auth[e][cycle].kind = "none"
  <2>1. WithContinued(e)[e][cycle].kind = "none"  BY DEF Import
  <2>2. CASE Continues(e)  BY <2>2 DEF Continues
  <2>3. CASE ~Continues(e)  BY <2>1, <2>3 DEF WithContinued
  <2> QED  BY <2>2, <2>3
<1> QED  BY <1>2, <1>3, <1>4

LEMMA ImportRights ==
  ASSUME AuthorityInv, NEW e \in Env, NEW r \in Records, Import(e, r)
  PROVE  Right(e, cycle) /\ \A f \in Env : Right(f, cycle)' => f = e
<1>1. Shape /\ cycle \in Cycles  BY DEF AuthorityInv, Shape
<1>2. Right(e, cycle)
  <2>1. auth[e][cycle].kind = "none" /\ Bound(e, cycle)  BY <1>1, ImportBound DEF Bound
  <2> QED  BY <2>1 DEF Right
<1>3. \A f \in Env \ {e} : ~Right(f, cycle)  BY <1>1, <1>2 DEF AuthorityInv, OneRight
<1> QED  BY <1>1, <1>2, <1>3, ImportWrites, Rows, OthersGainNothing

LEMMA ImportStep ==
  ASSUME AuthorityInv, NEW e \in Env, NEW r \in Records, Import(e, r)  PROVE AuthorityInv'
<1>1. Shape  BY DEF AuthorityInv
<1>2. \A f, g \in Env : Right(f, cycle)' /\ Right(g, cycle)' => f = g  BY ImportRights
<1> QED  BY <1>1, <1>2, ImportWrites, WriteKeepsOneRight

\* The row an export writes, in the table as it is after continuation.
LEMMA ExportedRowFacts ==
  ASSUME Shape, NEW e \in Env, NEW dest \in Env, Export(e, dest)
  PROVE  /\ Row(CurrentRow(e)) /\ HeldRow(CurrentRow(e))
         /\ CurrentRow(e) = IF Continues(e) THEN ContinuedRow ELSE auth[e][cycle]
         /\ Row(ExportedRow(e, dest)) /\ ExportedRow(e, dest).kind # "none"
         /\ ExportedRow(e, dest).carried = CurrentRow(e).carried
         /\ ExportedRow(e, dest).exported = ExportRecord(e, dest)
         /\ ExportRecord(e, dest) # NoRecord
         /\ ExportRecord(e, dest).dest = dest /\ ExportRecord(e, dest).cycle = cycle
<1>1. cycle \in Cycles /\ Row(auth[e][cycle])  BY DEF Shape
<1>2. CurrentRow(e) = IF Continues(e) THEN ContinuedRow ELSE auth[e][cycle]
  BY <1>1, ContinuedTable DEF CurrentRow
<1>3. Row(CurrentRow(e))  BY <1>1, <1>2, Rows
<1>4. HeldRow(CurrentRow(e))  BY DEF Export, Holds, CurrentRow
<1>5. ExportRecord(e, dest).dest = dest /\ ExportRecord(e, dest).cycle = cycle
       /\ ExportRecord(e, dest) # NoRecord
  BY HandoffAssumption DEF ExportRecord, BuildRecord, NoRecord
<1> DEFINE R == ExportRecord(e, dest)
           C == CurrentRow(e)
<1>6. ExportedRow(e, dest) = [C EXCEPT !.exported = R]  BY DEF ExportedRow
<1> HIDE DEF R, C
<1>7. Row(ExportedRow(e, dest)) /\ ExportedRow(e, dest).kind = C.kind
       /\ ExportedRow(e, dest).carried = C.carried /\ ExportedRow(e, dest).exported = R
  BY <1>3, <1>6 DEF Row, C
<1> QED  BY <1>2, <1>3, <1>4, <1>5, <1>7 DEF C, R, HeldRow

LEMMA ExportWrites ==
  ASSUME Shape, NEW e \in Env, NEW dest \in Env, Export(e, dest)
  PROVE  Writes(e, ExportedRow(e, dest))
<1> DEFINE a == WithContinued(e)
           R == ExportRecord(e, dest)
           v == ExportedRow(e, dest)
<1>1. cycle \in Cycles  BY DEF Shape
<1>2. a = [f \in Env |-> [k \in Cycles |-> a[f][k]]]
       /\ \A f \in Env, k \in Cycles : ~(f = e /\ k = cycle) => a[f][k] = auth[f][k]
  BY ContinuedTable
<1>3. auth' = [a EXCEPT ![e][cycle].exported = R]  BY DEF Export, ExportRecord
<1>4. v = [a[e][cycle] EXCEPT !.exported = R]  BY DEF ExportedRow, CurrentRow
<1>5. Row(v) /\ v.exported.cycle = cycle  BY ExportedRowFacts
<1> HIDE DEF R, a, v
<1>6. auth' = [a EXCEPT ![e][cycle] = v]  BY <1>1, <1>2, <1>3, <1>4
<1>7. auth' = [f \in Env |-> [k \in Cycles |-> auth'[f][k]]]  BY <1>1, <1>2, <1>6
<1>8. \A f \in Env, k \in Cycles : auth'[f][k] = IF f = e /\ k = cycle THEN v ELSE auth[f][k]
  BY <1>1, <1>2, <1>6
<1>9. Writes(e, v)  BY <1>5, <1>7, <1>8 DEF Writes, Export
<1> QED  BY <1>9 DEF v

\* An export passes the one right on to the destination named in the record.
LEMMA ExportRights ==
  ASSUME AuthorityInv, NEW e \in Env, NEW dest \in Env, Export(e, dest)
  PROVE  Right(e, cycle) /\ \A f \in Env : Right(f, cycle)' => f = dest
<1> DEFINE v == ExportedRow(e, dest)
<1>1. Shape /\ cycle \in Cycles  BY DEF AuthorityInv, Shape
<1>2. /\ Writes(e, v) /\ v.kind # "none" /\ v.exported # NoRecord /\ v.exported.dest = dest
      /\ HeldRow(CurrentRow(e))
      /\ CurrentRow(e) = IF Continues(e) THEN ContinuedRow ELSE auth[e][cycle]
  BY <1>1, ExportWrites, ExportedRowFacts
<1>3. Right(e, cycle)
  <2>1. CASE Continues(e)  BY <2>1 DEF Right, Continues
  <2>2. CASE ~Continues(e)  BY <2>2, <1>2 DEF Right, Holds
  <2> QED  BY <2>1, <2>2
<1> HIDE DEF v
<1>4. auth'[e][cycle] = v  BY <1>1, <1>2 DEF Writes
<1>5. ~Right(e, cycle)'  BY <1>2, <1>4 DEF Right, Holds, HeldRow, Writes
<1>6. ASSUME NEW f \in Env \ {e}, Right(f, cycle)'  PROVE f = dest
  <2>1. ~Right(f, cycle)  BY <1>1, <1>3, <1>6 DEF AuthorityInv, OneRight
  <2>2. auth'[f][cycle] = auth[f][cycle]  BY <1>1, <1>2 DEF Writes
  <2>3. Continues(f)' <=> Continues(f)  BY <1>1, <1>2, WriteKeeps
  <2>4. Bound(f, cycle)' /\ ~Bound(f, cycle)
    BY <1>6, <2>1, <2>2, <2>3, <1>2 DEF Right, Holds, HeldRow, Writes
  <2>5. \A g \in Env \ {e} : auth'[g][cycle] = auth[g][cycle]  BY <1>1, <1>2 DEF Writes
  <2> QED  BY <2>4, <2>5, <1>2, <1>4 DEF Bound, Writes
<1> QED  BY <1>3, <1>5, <1>6

LEMMA ExportStep ==
  ASSUME AuthorityInv, NEW e \in Env, NEW dest \in Env, Export(e, dest)  PROVE AuthorityInv'
<1>1. Shape  BY DEF AuthorityInv
<1>2. \A f, g \in Env : Right(f, cycle)' /\ Right(g, cycle)' => f = g  BY ExportRights
<1> QED  BY <1>1, <1>2, ExportWrites, WriteKeepsOneRight

\* A new cycle has no rows yet: only what continues into it is a right to it.
LEMMA RolloverStep == ASSUME AuthorityInv, NextCycle PROVE AuthorityInv'
<1>1. /\ cycle' = cycle + 1 /\ known' = known /\ auth' = auth
      /\ cycle \in Cycles /\ cycle' \in Cycles /\ cycle \in Nat
  BY HandoffAssumption DEF NextCycle, AuthorityInv, Shape, Cycles
<1>2. \A f \in Env : auth[f][cycle'] = NoAuthority  BY <1>1 DEF AuthorityInv, Shape
<1>3. Shape'
  <2>1. \A k \in Cycles : k > cycle' => k > cycle  BY <1>1, HandoffAssumption DEF Cycles
  <2> QED  BY <1>1, <2>1 DEF AuthorityInv, Shape, Row, NoAuthority, NoRecord
<1>4. ASSUME NEW f \in Env, NEW k \in Cycles, Right(f, k)'
      PROVE  Right(f, IF k = cycle' THEN cycle ELSE k)
  <2>1. Bound(f, k)' <=> Bound(f, k)  BY <1>1 DEF Bound, NoRecord
  <2>2. Holds(auth, f, k)' <=> Holds(auth, f, k)  BY <1>1 DEF Holds, HeldRow, NoRecord
  <2>3. CASE k = cycle'
    <3>1. ~Holds(auth, f, k) /\ ~Bound(f, k)
      BY <1>2, <2>3, Rows DEF Holds, HeldRow, Bound
    <3>2. Continues(f)'  BY <1>4, <3>1, <2>1, <2>2 DEF Right
    <3>3. Holds(auth, f, cycle)  BY <3>2, <1>1 DEF Continues, Holds, HeldRow, NoRecord
    <3> QED  BY <3>3, <2>3 DEF Right
  <2>4. CASE k # cycle'
    <3>1. Holds(auth, f, k) \/ (auth[f][k].kind = "none" /\ Bound(f, k))
      BY <1>4, <2>1, <2>2, <2>4, <1>1 DEF Right
    <3> QED  BY <3>1, <2>4 DEF Right
  <2> QED  BY <2>3, <2>4
<1>5. OneRight'
  BY <1>1, <1>4 DEF AuthorityInv, OneRight
<1> QED  BY <1>3, <1>5 DEF AuthorityInv

LEMMA QuietStep ==
  ASSUME AuthorityInv, UNCHANGED <<cycle, known, auth>>  PROVE AuthorityInv'
<1>1. Shape'  BY DEF AuthorityInv, Shape, Row, NoAuthority, NoRecord
<1>2. ASSUME NEW e \in Env, NEW k \in Cycles, Right(e, k)'  PROVE Right(e, k)
  <2>1. Bound(e, k)' => Bound(e, k)  BY DEF Bound, NoRecord
  <2>2. Continues(e)' => Continues(e)  BY DEF Continues, Holds, HeldRow, NoRecord
  <2>3. Holds(auth, e, k)' => Holds(auth, e, k)  BY DEF Holds, HeldRow, NoRecord
  <2> QED  BY <1>2, <2>1, <2>2, <2>3 DEF Right
<1> QED  BY <1>1, <1>2 DEF AuthorityInv, OneRight

LEMMA AuthorityStep == AuthorityInv /\ [Next]_vars => AuthorityInv'
<1> SUFFICES ASSUME AuthorityInv, [Next]_vars PROVE AuthorityInv'
  OBVIOUS
<1>1. ASSUME NEW e \in Env, NEW o \in Ops, Reserve(e, o) PROVE AuthorityInv'
  BY <1>1, ReserveStep
<1>2. ASSUME NEW o \in Ops, NEW amount \in Actuals, Settle(o, amount) PROVE AuthorityInv'
  BY <1>2, QuietStep DEF Settle
<1>3. ASSUME NEW o \in Ops, Correct(o) \/ Close(o) PROVE AuthorityInv'
  BY <1>3, QuietStep DEF Correct, Close
<1>4. ASSUME NEW e \in Env, ClaimOrigin(e) PROVE AuthorityInv'  BY <1>4, ClaimStep
<1>5. ASSUME NEW e \in Env, SetEnabled(e) PROVE AuthorityInv'  BY <1>5, QuietStep DEF SetEnabled
<1>6. ASSUME NEW e \in Env, NEW dest \in Env, Export(e, dest) PROVE AuthorityInv'
  BY <1>6, ExportStep
<1>7. ASSUME NEW e \in Env, NEW r \in Records, Import(e, r) PROVE AuthorityInv'
  BY <1>7, ImportStep
<1>8. CASE NextCycle  BY <1>8, RolloverStep
<1>9. CASE UNCHANGED vars  BY <1>9, QuietStep DEF vars
<1> QED  BY <1>1, <1>2, <1>3, <1>4, <1>5, <1>6, <1>7, <1>8, <1>9 DEF Next

LEMMA AuthorityInit == Init => AuthorityInv
  BY HandoffAssumption, Rows
     DEF Init, AuthorityInv, Shape, OneRight, Right, Bound, Continues, Holds, HeldRow, Cycles

\* In no cycle do two environments hold authority, for any number of environments
\* and cycles and whatever records are lost, late, repeated or misdirected
\* (claim_origin, _ensure_continued_authority, export_handoff, import_handoff).
THEOREM AuthorityAlwaysOne == Spec => []OneAuthority
<1>1. AuthorityInv => OneAuthority  BY DEF AuthorityInv, OneRight, Right, OneAuthority
<1> QED  BY <1>1, AuthorityInit, AuthorityStep, PTL DEF Spec
-----------------------------------------------------------------------------
(* The operations, and what an exported ledger still counts.               *)

\* What the row of an operation can look like in cycle c.
OpRecord(w) ==
    w = [status |-> w.status, env |-> w.env, from |-> w.from, to |-> w.to,
         closed |-> w.closed, actual |-> w.actual, extra |-> w.extra]
OpRow(w, c) ==
    /\ OpRecord(w)
    /\ w.env \in Env \union {Nobody}
    /\ (w.env = Nobody) <=> (w.status = "free")
    /\ w.actual \in Nat /\ w.extra \in Nat
    /\ w.from \in Nat /\ w.from <= c /\ w.to \in Nat /\ w.closed \in Nat
    /\ \/ w = FreeOp
       \/ w.status = "open" /\ w.extra = 0
       \/ w.status = "settled" /\ w.from <= w.to /\ w.to <= c
       \/ w.status = "closed" /\ w.from <= w.to /\ w.to <= w.closed /\ w.closed <= c

OpsInv == op = [o \in Ops |-> op[o]] /\ \A o \in Ops : OpRow(op[o], cycle)

LEMMA Parameters == {MaxCycle, Cap, Est, Mon, Extra} \subseteq Nat /\ Cycles \subseteq Nat
  BY HandoffAssumption DEF Cycles

LEMMA FreeRow == ASSUME NEW c \in Nat
                 PROVE  OpRow(FreeOp, c) /\ \A k : Counts(FreeOp, k) = 0 /\ Late(FreeOp, k) = 0
<1>1. OpRow(FreeOp, c)  BY DEF OpRow, OpRecord, FreeOp
<1>2. FreeOp.status = "free" /\ FreeOp.extra = 0  BY DEF FreeOp
<1> QED  BY <1>1, <1>2 DEF Counts, Late

\* What a row counts is an amount, none before the cycle it was reserved in, and
\* no more in the coming cycle than in this one.
LEMMA CountsAmount ==
  ASSUME NEW c \in Nat, NEW w, OpRow(w, c), NEW k \in Nat
  PROVE  Counts(w, k) \in Nat /\ Late(w, k) \in Nat
<1>1. CASE w = FreeOp  BY <1>1, FreeRow
<1>2. CASE w # FreeOp
  <2>1. Late(w, k) \in Nat  BY DEF OpRow, Late
  <2>2. CASE w.status = "open"  BY <2>1, <2>2, Parameters DEF Counts
  <2>3. CASE w.status = "settled"  BY <2>1, <2>3, Parameters DEF Counts, OpRow
  <2>4. CASE w.status = "closed"  BY <2>1, <2>4, Parameters DEF Counts, OpRow
  <2> QED  BY <1>2, <2>2, <2>3, <2>4 DEF OpRow
<1> QED  BY <1>1, <1>2

LEMMA CountsNotBefore ==
  ASSUME NEW c \in Nat, NEW w, OpRow(w, c), NEW k \in Nat, w.from > k
  PROVE  Counts(w, k) = 0 /\ Late(w, k) = 0
<1>1. CASE w = FreeOp  BY <1>1, FreeRow
<1>2. CASE w # FreeOp
  <2>1. Late(w, k) = 0  BY DEF OpRow, Late
  <2>2. CASE w.status = "open"  BY <2>1, <2>2 DEF Counts, OpRow
  <2>3. CASE w.status = "settled"  BY <2>1, <2>3 DEF Counts, OpRow, FreeOp
  <2>4. CASE w.status = "closed"  BY <2>1, <2>4 DEF Counts, OpRow, FreeOp
  <2> QED  BY <1>2, <2>2, <2>3, <2>4 DEF OpRow
<1> QED  BY <1>1, <1>2

LEMMA CountsNoMoreNext ==
  ASSUME NEW c \in Nat, NEW w, OpRow(w, c)
  PROVE  /\ Counts(w, c + 1) <= Counts(w, c)
         /\ w.status = "closed" => Counts(w, c + 1) = 0
<1>1. CASE w = FreeOp  BY <1>1, FreeRow DEF FreeOp
<1>2. CASE w # FreeOp
  <2>2. CASE w.status = "open"  BY <2>2, Parameters DEF Counts, OpRow
  <2>3. CASE w.status = "settled"  BY <2>3, Parameters DEF Counts, OpRow, FreeOp
  <2>4. CASE w.status = "closed"  BY <2>4, Parameters DEF Counts, OpRow, FreeOp
  <2> QED  BY <1>2, <2>2, <2>3, <2>4 DEF OpRow
<1> QED  BY <1>1, <1>2

\* An operation moves on: it settles, is corrected or closes.  Its ledger and its
\* first cycle stay, and it counts no more than before in any cycle.
Settling(o) ==
    /\ UNCHANGED <<cycle, enabled, known, auth>>
    /\ op' = [p \in Ops |-> op'[p]]
    /\ \A p \in Ops \ {o} : op'[p] = op[p]
    /\ op[o].status \in {"open", "settled"}
    /\ op'[o].env = op[o].env /\ op'[o].from = op[o].from
    /\ OpRow(op'[o], cycle)
    /\ \A k \in Cycles : Counts(op'[o], k) <= Counts(op[o], k)

SettledRow(w, amount) == [w EXCEPT !.status = "settled", !.actual = amount, !.to = cycle]
LEMMA SettledFields ==
  ASSUME NEW w, OpRecord(w), NEW amount
  PROVE  /\ OpRecord(SettledRow(w, amount))
         /\ SettledRow(w, amount).status = "settled"
         /\ SettledRow(w, amount).env = w.env
         /\ SettledRow(w, amount).from = w.from
         /\ SettledRow(w, amount).to = cycle
         /\ SettledRow(w, amount).closed = w.closed
         /\ SettledRow(w, amount).actual = amount
         /\ SettledRow(w, amount).extra = w.extra
<1>1. PICK s, i, f, t, d, a, x :
        w = [status |-> s, env |-> i, from |-> f, to |-> t,
            closed |-> d, actual |-> a, extra |-> x]
  BY DEF OpRecord
<1>2. SettledRow(w, amount) =
        [status |-> "settled", env |-> i, from |-> f, to |-> cycle,
            closed |-> d, actual |-> amount, extra |-> x]
  <2> DEFINE u1 == [w EXCEPT !.status = "settled"]
  <2>1. u1 = [status |-> "settled", env |-> i, from |-> f, to |-> t,
              closed |-> d, actual |-> a, extra |-> x]
    BY <1>1
  <2> HIDE DEF u1
  <2> DEFINE u2 == [u1 EXCEPT !.actual = amount]
  <2>2. u2 = [status |-> "settled", env |-> i, from |-> f, to |-> t,
              closed |-> d, actual |-> amount, extra |-> x]
    BY <2>1
  <2> HIDE DEF u2
  <2>3. [u2 EXCEPT !.to = cycle] =
        [status |-> "settled", env |-> i, from |-> f, to |-> cycle,
            closed |-> d, actual |-> amount, extra |-> x]
    BY <2>2
  <2> QED  BY <2>3 DEF SettledRow, u1, u2
<1> HIDE DEF SettledRow
<1> QED  BY <1>1, <1>2 DEF OpRecord

LEMMA SettleSettles ==
  ASSUME OpsInv, cycle \in Cycles, NEW o \in Ops, NEW amount \in Actuals, Settle(o, amount)
  PROVE  Settling(o)
<1> DEFINE w == op[o]
           v == SettledRow(w, amount)
<1>1. amount \in Nat /\ amount <= Est /\ cycle \in Nat /\ Est \in Nat /\ Mon \in Nat
  BY HandoffAssumption, Parameters
<1>2. OpRow(w, cycle) /\ w.status = "open" /\ w # FreeOp
  BY DEF OpsInv, Settle, FreeOp
<1>3. op' = [op EXCEPT ![o] = v]  BY DEF Settle, SettledRow
<1> HIDE DEF w
<1>4. /\ OpRecord(v)
      /\ v.status = "settled" /\ v.actual = amount /\ v.to = cycle /\ v.env = w.env
      /\ v.from = w.from /\ v.closed = w.closed /\ v.extra = w.extra
  <2>1. OpRecord(w)  BY <1>2 DEF OpRow
  <2> QED  BY <1>2, <2>1, SettledFields
<1> HIDE DEF v
<1>5. OpRow(v, cycle)  BY <1>1, <1>2, <1>4 DEF OpRow
<1>6. ASSUME NEW k \in Cycles  PROVE Counts(v, k) <= Counts(w, k)
  BY <1>1, <1>2, <1>4, Parameters DEF Counts, OpRow
<1> QED  BY <1>2, <1>3, <1>4, <1>5, <1>6 DEF w, OpsInv, Settling, Settle

CorrectedRow(w) == [w EXCEPT !.extra = Extra]
LEMMA CorrectedFields ==
  ASSUME NEW w, OpRecord(w)
  PROVE  /\ OpRecord(CorrectedRow(w))
         /\ CorrectedRow(w).status = w.status
         /\ CorrectedRow(w).env = w.env
         /\ CorrectedRow(w).from = w.from
         /\ CorrectedRow(w).to = w.to
         /\ CorrectedRow(w).closed = w.closed
         /\ CorrectedRow(w).actual = w.actual
         /\ CorrectedRow(w).extra = Extra
<1>1. PICK s, i, f, t, d, a, x :
        w = [status |-> s, env |-> i, from |-> f, to |-> t,
            closed |-> d, actual |-> a, extra |-> x]
  BY DEF OpRecord
<1>2. CorrectedRow(w) =
        [status |-> s, env |-> i, from |-> f, to |-> t,
            closed |-> d, actual |-> a, extra |-> Extra]
  BY <1>1 DEF CorrectedRow
<1> HIDE DEF CorrectedRow
<1> QED  BY <1>1, <1>2 DEF OpRecord

LEMMA CorrectSettles ==
  ASSUME OpsInv, cycle \in Cycles, NEW o \in Ops, Correct(o)  PROVE Settling(o)
<1> DEFINE w == op[o]
           v == CorrectedRow(w)
<1>1. Extra \in Nat /\ cycle \in Nat  BY Parameters
<1>2. OpRow(w, cycle) /\ w.status = "settled" /\ w # FreeOp
  BY DEF OpsInv, Correct, FreeOp
<1>3. op' = [op EXCEPT ![o] = v]  BY DEF Correct, CorrectedRow, OpsInv
<1> HIDE DEF w
<1>4. /\ OpRecord(v)
      /\ v.status = "settled" /\ v.actual = w.actual /\ v.to = w.to /\ v.env = w.env
      /\ v.from = w.from /\ v.closed = w.closed /\ v.extra = Extra
  <2>1. OpRecord(w)  BY <1>2 DEF OpRow
  <2> QED  BY <1>2, <2>1, CorrectedFields
<1> HIDE DEF v
<1>5. OpRow(v, cycle)  BY <1>1, <1>2, <1>4 DEF OpRow
<1>6. ASSUME NEW k \in Cycles  PROVE Counts(v, k) <= Counts(w, k)
  <2>1. Counts(v, k) = Counts(w, k)  BY <1>2, <1>4 DEF Counts
  <2>2. Counts(w, k) \in Nat  BY <1>1, <1>2, CountsAmount, Parameters
  <2> QED  BY <2>1, <2>2
<1> QED  BY <1>2, <1>3, <1>4, <1>5, <1>6 DEF w, OpsInv, Settling, Correct

ClosedRow(w) == [w EXCEPT !.status = "closed", !.closed = cycle]
LEMMA ClosedFields ==
  ASSUME NEW w, OpRecord(w)
  PROVE  /\ OpRecord(ClosedRow(w))
         /\ ClosedRow(w).status = "closed"
         /\ ClosedRow(w).env = w.env
         /\ ClosedRow(w).from = w.from
         /\ ClosedRow(w).to = w.to
         /\ ClosedRow(w).closed = cycle
         /\ ClosedRow(w).actual = w.actual
         /\ ClosedRow(w).extra = w.extra
<1>1. PICK s, i, f, t, d, a, x :
        w = [status |-> s, env |-> i, from |-> f, to |-> t,
            closed |-> d, actual |-> a, extra |-> x]
  BY DEF OpRecord
<1>2. ClosedRow(w) =
        [status |-> "closed", env |-> i, from |-> f, to |-> t,
            closed |-> cycle, actual |-> a, extra |-> x]
  <2> DEFINE u1 == [w EXCEPT !.status = "closed"]
  <2>1. u1 = [status |-> "closed", env |-> i, from |-> f, to |-> t,
              closed |-> d, actual |-> a, extra |-> x]
    BY <1>1
  <2> HIDE DEF u1
  <2>2. [u1 EXCEPT !.closed = cycle] =
        [status |-> "closed", env |-> i, from |-> f, to |-> t,
            closed |-> cycle, actual |-> a, extra |-> x]
    BY <2>1
  <2> QED  BY <2>2 DEF ClosedRow, u1
<1> HIDE DEF ClosedRow
<1> QED  BY <1>1, <1>2 DEF OpRecord

LEMMA CloseSettles ==
  ASSUME OpsInv, cycle \in Cycles, NEW o \in Ops, Close(o)  PROVE Settling(o)
<1> DEFINE w == op[o]
           v == ClosedRow(w)
<1>1. cycle \in Nat /\ Mon \in Nat  BY Parameters
<1>2. OpRow(w, cycle) /\ w.status = "settled" /\ w # FreeOp
  BY DEF OpsInv, Close, FreeOp
<1>3. op' = [op EXCEPT ![o] = v]  BY DEF Close, ClosedRow
<1> HIDE DEF w
<1>4. /\ OpRecord(v)
      /\ v.status = "closed" /\ v.actual = w.actual /\ v.to = w.to /\ v.env = w.env
      /\ v.from = w.from /\ v.closed = cycle /\ v.extra = w.extra
  <2>1. OpRecord(w)  BY <1>2 DEF OpRow
  <2> QED  BY <1>2, <2>1, ClosedFields
<1> HIDE DEF v
<1>5. OpRow(v, cycle)  BY <1>1, <1>2, <1>4 DEF OpRow
<1>6. ASSUME NEW k \in Cycles  PROVE Counts(v, k) <= Counts(w, k)
  BY <1>1, <1>2, <1>4, Parameters DEF Counts, OpRow
<1> QED  BY <1>2, <1>3, <1>4, <1>5, <1>6 DEF w, OpsInv, Settling, Close

\* A reservation admitted by e.
OpenRow(e) == [FreeOp EXCEPT !.status = "open", !.env = e, !.from = cycle]
LEMMA OpenFields ==
  ASSUME NEW e
  PROVE  OpenRow(e) = [status |-> "open", env |-> e, from |-> cycle, to |-> 0, closed |-> 0,
                       actual |-> 0, extra |-> 0]
<1> DEFINE u1 == [FreeOp EXCEPT !.status = "open"]
           u2 == [u1 EXCEPT !.env = e]
<1>1. u1 = [status |-> "open", env |-> Nobody, from |-> 0, to |-> 0, closed |-> 0,
            actual |-> 0, extra |-> 0]
  BY DEF FreeOp
<1> HIDE DEF u1
<1>2. u2 = [status |-> "open", env |-> e, from |-> 0, to |-> 0, closed |-> 0,
            actual |-> 0, extra |-> 0]
  BY <1>1
<1> HIDE DEF u2
<1>3. [u2 EXCEPT !.from = cycle] =
        [status |-> "open", env |-> e, from |-> cycle, to |-> 0, closed |-> 0,
         actual |-> 0, extra |-> 0]
  BY <1>2
<1> QED  BY <1>3 DEF OpenRow, u1, u2

LEMMA OpenRowFacts ==
  ASSUME cycle \in Nat, NEW e \in Env
  PROVE  /\ OpRow(OpenRow(e), cycle)
         /\ OpenRow(e).env = e /\ OpenRow(e).from = cycle /\ OpenRow(e).status = "open"
         /\ Counts(OpenRow(e), cycle) = Est + Mon
<1>1. /\ OpenRow(e).env = e /\ OpenRow(e).from = cycle /\ OpenRow(e).status = "open"
      /\ OpenRow(e).to = 0 /\ OpenRow(e).closed = 0 /\ OpenRow(e).actual = 0
      /\ OpenRow(e).extra = 0
  BY OpenFields
<1>2. OpRecord(OpenRow(e))  BY <1>1, OpenFields DEF OpRecord
<1> QED  BY <1>1, <1>2, HandoffAssumption DEF OpRow, Counts

Admits(e, o) ==
    /\ op[o] = FreeOp
    /\ op' = [p \in Ops |-> op'[p]]
    /\ \A p \in Ops \ {o} : op'[p] = op[p]
    /\ op'[o] = OpenRow(e)
    /\ Admitted(auth', e)

LEMMA ReserveAdmits ==
  ASSUME OpsInv, NEW e \in Env, NEW o \in Ops, Reserve(e, o)
  PROVE  op' = op \/ Admits(e, o)
<1>1. op' = IF Admitted(auth', e) THEN [op EXCEPT ![o] = OpenRow(e)] ELSE op  BY DEF Reserve, OpenRow
<1>2. CASE Admitted(auth', e)
  <2>1. op' = [op EXCEPT ![o] = OpenRow(e)]  BY <1>1, <1>2
  <2> QED  BY <1>2, <2>1 DEF Admits, OpsInv, Reserve
<1> QED  BY <1>1, <1>2

LEMMA OpsSame == ASSUME OpsInv, UNCHANGED <<cycle, op>> PROVE OpsInv'
  BY DEF OpsInv, OpRow, OpRecord, FreeOp

LEMMA OpsSettling == ASSUME OpsInv, NEW o \in Ops, Settling(o) PROVE OpsInv'
<1>1. ASSUME NEW p \in Ops  PROVE OpRow(op'[p], cycle)  BY DEF OpsInv, Settling
<1> QED  BY <1>1 DEF OpsInv, Settling

LEMMA OpsReserve ==
  ASSUME OpsInv, cycle \in Nat, NEW e \in Env, NEW o \in Ops, Reserve(e, o)  PROVE OpsInv'
<1>1. CASE op' = op  BY <1>1, OpsSame DEF Reserve
<1>2. CASE Admits(e, o)
  <2>1. ASSUME NEW p \in Ops  PROVE OpRow(op'[p], cycle)
    BY <1>2, OpenRowFacts DEF OpsInv, Admits
  <2> QED  BY <1>2, <2>1 DEF OpsInv, Admits, Reserve
<1> QED  BY <1>1, <1>2, ReserveAdmits

LEMMA OpsRollover == ASSUME OpsInv, cycle \in Nat, NextCycle PROVE OpsInv'
<1>1. ASSUME NEW o \in Ops  PROVE OpRow(op[o], cycle + 1)
  <2>1. OpRow(op[o], cycle)  BY DEF OpsInv
  <2> QED  BY <2>1 DEF OpRow
<1>2. op' = op /\ cycle' = cycle + 1  BY DEF NextCycle
<1> QED  BY <1>1, <1>2 DEF OpsInv
-----------------------------------------------------------------------------
(* The books: amounts are amounts, and what was exported is final.         *)

\* Of a cycle it has exported, nothing of e's own is still to come, and the record
\* counts all there is.
ExportedBook(e, k) ==
    auth[e][k].exported # NoRecord =>
        /\ auth[e][k].kind # "none"
        /\ \A o \in Ops : op[o].env = e => op[o].status = "closed" \/ op[o].from > k
        /\ auth[e][k].exported.total = Tally(auth, e, k)

Amounts(a) == a.carried \in Nat /\ a.exported.total \in Nat
Books == \A e \in Env, k \in Cycles : Amounts(auth[e][k]) /\ ExportedBook(e, k)
BooksInv == AuthorityInv /\ OpsInv /\ Books

OwnAt(w, e, k) == IF w.env = e THEN Counts(w, k) + Late(w, k) ELSE 0

LEMMA OwnType == ASSUME OpsInv, cycle \in Nat, NEW e, NEW k \in Nat
                 PROVE  Own(e, k) \in [Ops -> Nat] /\ SumFunction(Own(e, k)) \in Nat
<1>1. ASSUME NEW o \in Ops  PROVE OwnAt(op[o], e, k) \in Nat
  <2>1. OpRow(op[o], cycle)  BY DEF OpsInv
  <2>2. Counts(op[o], k) \in Nat /\ Late(op[o], k) \in Nat  BY <2>1, CountsAmount
  <2> QED  BY <2>2 DEF OwnAt
<1>2. Own(e, k) = [o \in Ops |-> OwnAt(op[o], e, k)]  BY DEF Own, OwnAt
<1>3. Own(e, k) \in [Ops -> Nat]  BY <1>1, <1>2
<1> QED  BY <1>3, SumNat, HandoffAssumption

LEMMA BookKept ==
  ASSUME NEW e \in Env, NEW k \in Cycles, ExportedBook(e, k), auth'[e][k] = auth[e][k],
         auth[e][k].exported # NoRecord =>
            \A o \in Ops : \/ op'[o] = op[o]
                           \/ /\ OwnAt(op'[o], e, k) = OwnAt(op[o], e, k)
                              /\ op'[o].env = e => op'[o].from > k
  PROVE  ExportedBook(e, k)'
<1> SUFFICES ASSUME auth[e][k].exported # NoRecord PROVE ExportedBook(e, k)'
  BY DEF ExportedBook, NoRecord
<1>1. \A o \in Ops : OwnAt(op'[o], e, k) = OwnAt(op[o], e, k)  OBVIOUS
<1>2. Own(e, k) = [o \in Ops |-> OwnAt(op[o], e, k)]
       /\ Own(e, k)' = [o \in Ops |-> OwnAt(op'[o], e, k)]
  BY DEF Own, OwnAt, Counts, Late
<1>3. Own(e, k)' = Own(e, k)  BY <1>1, <1>2
<1>4. Tally(auth, e, k)' = Tally(auth, e, k)  BY <1>3 DEF Tally
<1>5. \A o \in Ops : op'[o].env = e => op'[o].status = "closed" \/ op'[o].from > k
  BY DEF ExportedBook
<1> QED  BY <1>4, <1>5 DEF ExportedBook, NoRecord

\* A write that does not export, and leaves the exported rows alone.
LEMMA BooksWrite ==
  ASSUME BooksInv, NEW e \in Env, NEW v, Writes(e, v), op' = op, Amounts(v),
         v.exported = NoRecord \/ v = auth[e][cycle]
  PROVE  Books'
<1>1. ASSUME NEW f \in Env, NEW k \in Cycles, ~(f = e /\ k = cycle /\ v # auth[e][cycle])
      PROVE  Amounts(auth'[f][k]) /\ ExportedBook(f, k)'
  <2>1. auth'[f][k] = auth[f][k]  BY <1>1 DEF Writes
  <2>2. Amounts(auth[f][k]) /\ ExportedBook(f, k)  BY DEF BooksInv, Books
  <2> QED  BY <2>1, <2>2, BookKept
<1>2. ASSUME v # auth[e][cycle]
      PROVE  cycle \in Cycles => Amounts(auth'[e][cycle]) /\ ExportedBook(e, cycle)'
  <2>1. cycle \in Cycles => auth'[e][cycle] = v  BY DEF Writes
  <2> QED  BY <1>2, <2>1 DEF ExportedBook, Writes, NoRecord
<1>3. ASSUME NEW f \in Env, NEW k \in Cycles
      PROVE  Amounts(auth'[f][k]) /\ ExportedBook(f, k)'
  <2>1. CASE f = e /\ k = cycle /\ v # auth[e][cycle]
    <3>1. cycle' = cycle  BY DEF Writes
    <3> QED  BY <1>2, <2>1, <3>1 DEF ExportedBook, NoRecord
  <2>2. CASE ~(f = e /\ k = cycle /\ v # auth[e][cycle])  BY <1>1, <2>2
  <2> QED  BY <2>1, <2>2
<1>4. \A f \in Env, k \in Cycles : Amounts(auth'[f][k]) /\ ExportedBook(f, k)'  BY <1>3
<1> QED  BY <1>4 DEF Books, Amounts

LEMMA RowAmounts ==
  ASSUME BooksInv, NEW e \in Env
  PROVE  /\ Amounts(NoAuthority) /\ Amounts(ContinuedRow) /\ Amounts(OriginRow)
         /\ Amounts(auth[e][cycle]) /\ Amounts(CurrentRow(e))
<1>1. NoRecord.total = 0  BY DEF NoRecord
<1>2. Amounts(NoAuthority) /\ Amounts(ContinuedRow) /\ Amounts(OriginRow)
  BY <1>1, Rows DEF Amounts
<1>3. Amounts(auth[e][cycle])  BY DEF BooksInv, Books, AuthorityInv, Shape
<1>4. CurrentRow(e) = IF Continues(e) THEN ContinuedRow ELSE auth[e][cycle]
  BY ContinuedTable DEF CurrentRow, BooksInv, AuthorityInv, Shape
<1> QED  BY <1>2, <1>3, <1>4

LEMMA ReserveBooks ==
  ASSUME BooksInv, NEW e \in Env, NEW o \in Ops, Reserve(e, o)  PROVE Books'
<1> DEFINE v == CurrentRow(e)
<1>1. Shape /\ cycle \in Cycles /\ cycle \in Nat
  BY CycleFacts DEF BooksInv, AuthorityInv, Shape
<1>2. Writes(e, v)  BY <1>1, ReserveWrites
<1>3. v = IF Continues(e) THEN ContinuedRow ELSE auth[e][cycle]
  BY <1>1, ContinuedTable DEF CurrentRow
<1>4. Amounts(v)  BY RowAmounts
<1>5. CASE op' = op
  <2>1. v.exported = NoRecord \/ v = auth[e][cycle]  BY <1>3, Rows
  <2> QED  BY <1>2, <1>4, <1>5, <2>1, BooksWrite
<1>6. CASE Admits(e, o)
  <2> HIDE DEF v
  <2>1. auth'[e][cycle] = v  BY <1>1, <1>2 DEF Writes
  <2>2. v.exported = NoRecord  BY <1>6, <2>1 DEF Admits, Admitted, Holds, HeldRow
  <2>3. ASSUME NEW f \in Env, NEW k \in Cycles
        PROVE  Amounts(auth'[f][k]) /\ ExportedBook(f, k)'
    <3>1. CASE f = e /\ k = cycle
      <4> QED  BY <3>1, <1>4, <2>1, <2>2 DEF ExportedBook, NoRecord
    <3>2. CASE ~(f = e /\ k = cycle)
      <4>1. auth'[f][k] = auth[f][k]  BY <3>2, <1>2 DEF Writes
      <4>2. Amounts(auth[f][k]) /\ ExportedBook(f, k)  BY DEF BooksInv, Books
      <4>3. ASSUME auth[f][k].exported # NoRecord, op'[o].env = f
            PROVE  op'[o].from > k
        <5>1. f = e  BY <1>1, <1>6, <4>3, OpenRowFacts DEF Admits
        <5>2. k # cycle /\ ~(k > cycle)  BY <1>1, <3>2, <4>3, <5>1, Rows DEF Shape
        <5>3. op'[o].from = cycle  BY <1>1, <1>6, OpenRowFacts DEF Admits
        <5> QED  BY <1>1, <5>2, <5>3, Parameters
      <4>4. ASSUME auth[f][k].exported # NoRecord
            PROVE  OwnAt(op'[o], f, k) = OwnAt(op[o], f, k)
        <5>1. OwnAt(op[o], f, k) = 0
          BY <1>6, HandoffAssumption DEF OwnAt, Admits, FreeOp
        <5>2. CASE op'[o].env = f
          <6>1. op'[o].from > k  BY <4>3, <4>4, <5>2
          <6>2. OpRow(op'[o], cycle)  BY <1>1, <1>6, OpenRowFacts DEF Admits
          <6>3. Counts(op'[o], k) = 0 /\ Late(op'[o], k) = 0
            BY <1>1, <6>1, <6>2, CountsNotBefore, Parameters
          <6> QED  BY <5>1, <6>3 DEF OwnAt
        <5>3. CASE op'[o].env # f  BY <5>1, <5>3 DEF OwnAt
        <5> QED  BY <5>2, <5>3
      <4>5. auth[f][k].exported # NoRecord =>
              \A p \in Ops : \/ op'[p] = op[p]
                             \/ /\ OwnAt(op'[p], f, k) = OwnAt(op[p], f, k)
                                /\ op'[p].env = f => op'[p].from > k
        BY <1>6, <4>3, <4>4 DEF Admits
      <4> QED  BY <4>1, <4>2, <4>5, BookKept
    <3> QED  BY <3>1, <3>2
  <2> QED  BY <2>3 DEF Books, Amounts
<1>7. OpsInv  BY DEF BooksInv
<1> QED  BY <1>5, <1>6, <1>7, ReserveAdmits

\* An operation of an exported cycle is closed: one that still moves counts from a
\* later cycle on, and nothing in the exported one.
LEMMA SettlingBooks ==
  ASSUME BooksInv, NEW o \in Ops, Settling(o)  PROVE Books'
<1>1. cycle \in Nat  BY CycleFacts DEF BooksInv, AuthorityInv
<1>2. ASSUME NEW f \in Env, NEW k \in Cycles
      PROVE  Amounts(auth'[f][k]) /\ ExportedBook(f, k)'
  <2>1. auth'[f][k] = auth[f][k]  BY DEF Settling
  <2>2. Amounts(auth[f][k]) /\ ExportedBook(f, k)  BY DEF BooksInv, Books
  <2>3. ASSUME auth[f][k].exported # NoRecord, op[o].env = f
        PROVE  /\ op'[o].from > k
               /\ OwnAt(op'[o], f, k) = OwnAt(op[o], f, k)
    <3>1. op[o].from > k  BY <2>2, <2>3 DEF ExportedBook, Settling
    <3>2. op'[o].from > k  BY <3>1 DEF Settling
    <3>3. OpRow(op[o], cycle) /\ OpRow(op'[o], cycle)  BY DEF Settling, BooksInv, OpsInv
    <3>4. Counts(op[o], k) = 0 /\ Late(op[o], k) = 0
      BY <1>1, <3>1, <3>3, CountsNotBefore, Parameters
    <3>5. Counts(op'[o], k) = 0 /\ Late(op'[o], k) = 0
      BY <1>1, <3>2, <3>3, CountsNotBefore, Parameters
    <3> QED  BY <3>2, <3>4, <3>5 DEF OwnAt
  <2>4. op[o].env # f => op'[o].env # f /\ OwnAt(op'[o], f, k) = OwnAt(op[o], f, k)
    BY DEF Settling, OwnAt
  <2>5. auth[f][k].exported # NoRecord =>
          \A p \in Ops : \/ op'[p] = op[p]
                         \/ /\ OwnAt(op'[p], f, k) = OwnAt(op[p], f, k)
                            /\ op'[p].env = f => op'[p].from > k
    BY <2>3, <2>4 DEF Settling
  <2> QED  BY <2>1, <2>2, <2>5, BookKept
<1> QED  BY <1>2 DEF Books, Amounts

LEMMA ClaimBooks == ASSUME BooksInv, NEW e \in Env, ClaimOrigin(e)  PROVE Books'
<1>1. Writes(e, OriginRow)  BY ClaimWrites DEF BooksInv, AuthorityInv
<1>2. Amounts(OriginRow) /\ OriginRow.exported = NoRecord  BY RowAmounts, Rows
<1>3. op' = op  BY DEF ClaimOrigin
<1> QED  BY <1>1, <1>2, <1>3, BooksWrite

LEMMA ImportBooks == ASSUME BooksInv, NEW e \in Env, NEW r \in Records, Import(e, r)  PROVE Books'
<1>1. Shape /\ cycle \in Cycles  BY DEF BooksInv, AuthorityInv, Shape
<1>2. Writes(e, HandoffRow(r))  BY <1>1, ImportWrites
<1>3. r.total \in Nat
  <2>1. PICK g \in Env : auth[g][cycle].exported = r  BY <1>1, ImportBound
  <2> QED  BY <1>1, <2>1 DEF BooksInv, Books, Amounts
<1>4. Amounts(HandoffRow(r)) /\ HandoffRow(r).exported = NoRecord
  BY <1>3, Rows DEF Amounts, NoRecord
<1>5. op' = op  BY DEF Import
<1> QED  BY <1>2, <1>4, <1>5, BooksWrite

\* The record says what the table counts at the export: all of it is closed.
LEMMA ExportTotal ==
  ASSUME BooksInv, NEW e \in Env, NEW dest \in Env, Export(e, dest)
  PROVE  /\ ExportRecord(e, dest).total = CurrentRow(e).carried + SumFunction(Own(e, cycle))
         /\ ExportRecord(e, dest).total \in Nat
<1>1. cycle \in Nat /\ OpsInv  BY CycleFacts DEF BooksInv, AuthorityInv
<1>2. ExportRecord(e, dest).total = CurrentRow(e).carried + SumFunction(Own(e, cycle))
  BY DEF ExportRecord, BuildRecord, Tally, CurrentRow
<1>3. CurrentRow(e).carried \in Nat  BY RowAmounts DEF Amounts
<1> QED  BY <1>1, <1>2, <1>3, OwnType

LEMMA ExportBooks ==
  ASSUME BooksInv, NEW e \in Env, NEW dest \in Env, Export(e, dest)  PROVE Books'
<1> DEFINE v == ExportedRow(e, dest)
<1>1. Shape /\ cycle \in Cycles  BY DEF BooksInv, AuthorityInv, Shape
<1>2. Writes(e, v)  BY <1>1, ExportWrites
<1>3. /\ v.kind # "none" /\ v.carried = CurrentRow(e).carried /\ v.exported.total \in Nat
      /\ v.exported.total = v.carried + SumFunction(Own(e, cycle))
  BY <1>1, ExportedRowFacts, ExportTotal
<1>4. v.carried \in Nat  BY <1>3, RowAmounts DEF Amounts
<1>5. op' = op /\ \A o \in Ops : op[o].env = e => op[o].status = "closed"
  BY DEF Export, Drained, OpsOf
<1> HIDE DEF v
<1>6. auth'[e][cycle] = v  BY <1>1, <1>2 DEF Writes
<1>7. ASSUME NEW f \in Env, NEW k \in Cycles
      PROVE  Amounts(auth'[f][k]) /\ ExportedBook(f, k)'
  <2>1. CASE f = e /\ k = cycle
    <3>1. Own(e, cycle)' = Own(e, cycle) /\ cycle' = cycle
      BY <1>2, <1>5 DEF Own, Writes, Counts, Late
    <3>2. Tally(auth, e, cycle)' = v.carried + SumFunction(Own(e, cycle))
      BY <1>6, <3>1 DEF Tally
    <3> QED  BY <2>1, <1>3, <1>4, <1>5, <1>6, <3>1, <3>2 DEF ExportedBook, Amounts
  <2>2. CASE ~(f = e /\ k = cycle)
    <3>1. auth'[f][k] = auth[f][k]  BY <2>2, <1>2 DEF Writes
    <3>2. Amounts(auth[f][k]) /\ ExportedBook(f, k)  BY DEF BooksInv, Books
    <3> QED  BY <1>5, <3>1, <3>2, BookKept
  <2> QED  BY <2>1, <2>2
<1> QED  BY <1>7 DEF Books, Amounts

LEMMA BooksSame == ASSUME BooksInv, UNCHANGED <<auth, op>> PROVE Books'
<1>1. ASSUME NEW f \in Env, NEW k \in Cycles
      PROVE  Amounts(auth'[f][k]) /\ ExportedBook(f, k)'
  <2>1. Amounts(auth[f][k]) /\ ExportedBook(f, k)  BY DEF BooksInv, Books
  <2> QED  BY <2>1, BookKept
<1> QED  BY <1>1 DEF Books, Amounts

LEMMA BooksStep == BooksInv /\ [Next]_vars => BooksInv'
<1> SUFFICES ASSUME BooksInv, [Next]_vars PROVE BooksInv'
  OBVIOUS
<1>1. AuthorityInv'  BY AuthorityStep DEF BooksInv
<1>2. cycle \in Nat /\ cycle \in Cycles /\ OpsInv  BY CycleFacts DEF BooksInv, AuthorityInv, Shape
<1>3. ASSUME NEW o \in Ops, Settling(o) PROVE OpsInv' /\ Books'
  BY <1>2, <1>3, OpsSettling, SettlingBooks
<1>4. ASSUME UNCHANGED <<cycle, op>>, Books' PROVE OpsInv' /\ Books'
  BY <1>2, <1>4, OpsSame
<1>5. OpsInv' /\ Books'
  <2>1. ASSUME NEW e \in Env, NEW o \in Ops, Reserve(e, o) PROVE OpsInv' /\ Books'
    BY <1>2, <2>1, OpsReserve, ReserveBooks
  <2>2. ASSUME NEW o \in Ops, NEW amount \in Actuals, Settle(o, amount) PROVE OpsInv' /\ Books'
    BY <1>2, <1>3, <2>2, SettleSettles
  <2>3. ASSUME NEW o \in Ops, Correct(o) \/ Close(o) PROVE OpsInv' /\ Books'
    BY <1>2, <1>3, <2>3, CorrectSettles, CloseSettles
  <2>4. ASSUME NEW e \in Env, ClaimOrigin(e) PROVE OpsInv' /\ Books'
    BY <1>4, <2>4, ClaimBooks DEF ClaimOrigin
  <2>5. ASSUME NEW e \in Env, SetEnabled(e) PROVE OpsInv' /\ Books'
    BY <1>4, <2>5, BooksSame DEF SetEnabled
  <2>6. ASSUME NEW e \in Env, NEW dest \in Env, Export(e, dest) PROVE OpsInv' /\ Books'
    BY <1>4, <2>6, ExportBooks DEF Export
  <2>7. ASSUME NEW e \in Env, NEW r \in Records, Import(e, r) PROVE OpsInv' /\ Books'
    BY <1>4, <2>7, ImportBooks DEF Import
  <2>8. CASE NextCycle  BY <1>2, <2>8, OpsRollover, BooksSame DEF NextCycle
  <2>9. CASE UNCHANGED vars  BY <1>4, <2>9, BooksSame DEF vars
  <2> QED  BY <2>1, <2>2, <2>3, <2>4, <2>5, <2>6, <2>7, <2>8, <2>9 DEF Next
<1> QED  BY <1>1, <1>5 DEF BooksInv

LEMMA BooksInit == Init => BooksInv
<1> SUFFICES ASSUME Init PROVE BooksInv
  OBVIOUS
<1>1. AuthorityInv  BY AuthorityInit
<1>2. OpsInv  BY FreeRow DEF Init, OpsInv
<1>3. ASSUME NEW e \in Env, NEW k \in Cycles
      PROVE  Amounts(auth[e][k]) /\ ExportedBook(e, k)
  <2>1. auth[e][k] = NoAuthority  BY DEF Init
  <2> QED  BY <2>1, Rows DEF Amounts, ExportedBook, NoRecord
<1> QED  BY <1>1, <1>2, <1>3 DEF BooksInv, Books

\* What a ledger counts in a cycle it has exported is, for good, what the record
\* says, for any number of environments, operations and cycles: the drain leaves
\* nothing behind that could still settle, be corrected or be admitted there
\* (_drain_refusal, _build_record, export_handoff).
THEOREM ExportAlwaysFinal == Spec => []ExportIsFinal
<1>1. BooksInv => ExportIsFinal  BY DEF BooksInv, Books, ExportedBook, ExportIsFinal
<1> QED  BY <1>1, BooksInit, BooksStep, PTL DEF Spec
-----------------------------------------------------------------------------
(* One cap for all.                                                        *)

\* What the operations in a table O count in cycle k: all of them, those of other
\* environments than e, and those of e with their late corrections.
ElseAt(w, e, k) == IF w.env = e THEN 0 ELSE Counts(w, k)
All(O, k) == [o \in Ops |-> Counts(O[o], k)]
Elsewhere(O, e, k) == [o \in Ops |-> ElseAt(O[o], e, k)]
OwnIn(O, e, k) == [o \in Ops |-> OwnAt(O[o], e, k)]
Foreign(O, e, k) == SumFunction(Elsewhere(O, e, k))

\* Outside the one environment with a right to the current cycle, an operation is
\* closed or counts nothing: nothing there can come to count in the next cycle.
QuietAt(w, c) == w.status = "closed" \/ Counts(w, c) = 0
QuietElsewhere ==
    \A f \in Env : Right(f, cycle) => \A o \in Ops : op[o].env = f \/ QuietAt(op[o], cycle)

\* What the holder carried in covers what the others count; nothing is owed where
\* authority simply continues.
CarriedIn ==
    \A f \in Env : /\ Holds(auth, f, cycle) => Foreign(op, f, cycle) <= auth[f][cycle].carried
                   /\ Continues(f) => Foreign(op, f, cycle) = 0

\* A record on its way says at least what all of them count, and the ledger it is
\* bound to cannot continue into the cycle instead of importing it.
BoundBy(g, f, k) == auth[g][k].exported # NoRecord /\ auth[g][k].exported.dest = f
InTransit ==
    \A g, f \in Env :
        BoundBy(g, f, cycle) /\ auth[f][cycle].kind = "none"
        => SumFunction(All(op, cycle)) <= auth[g][cycle].exported.total /\ ~Continues(f)

WithinCap == \A k \in Cycles : k <= cycle => SumFunction(All(op, k)) <= Cap

Pooled == QuietElsewhere /\ CarriedIn /\ InTransit /\ WithinCap
CapInv == BooksInv /\ Pooled

LEMMA BaseFacts ==
  ASSUME BooksInv
  PROVE  Shape /\ OneRight /\ OpsInv /\ cycle \in Cycles /\ cycle \in Nat
  BY CycleFacts DEF BooksInv, AuthorityInv, Shape

\* The operations are rows of cycle c.
RowsIn(O, c) == c \in Nat /\ \A o \in Ops : OpRow(O[o], c)

LEMMA RowsNow == ASSUME BooksInv PROVE RowsIn(op, cycle)
  BY BaseFacts DEF RowsIn, OpsInv

Sums(O, e, k) ==
    /\ All(O, k) \in [Ops -> Int] /\ SumFunction(All(O, k)) \in Nat
    /\ Elsewhere(O, e, k) \in [Ops -> Int] /\ Foreign(O, e, k) \in Nat
    /\ OwnIn(O, e, k) \in [Ops -> Nat] /\ SumFunction(OwnIn(O, e, k)) \in Nat

LEMMA SumsType ==
  ASSUME NEW O, NEW c, RowsIn(O, c), NEW e, NEW k \in Nat  PROVE Sums(O, e, k)
<1>1. \A o \in Ops : Counts(O[o], k) \in Nat /\ Late(O[o], k) \in Nat
  BY CountsAmount DEF RowsIn
<1>2. All(O, k) \in [Ops -> Nat]  BY <1>1 DEF All
<1>3. Elsewhere(O, e, k) \in [Ops -> Nat]  BY <1>1 DEF Elsewhere, ElseAt
<1>4. OwnIn(O, e, k) \in [Ops -> Nat]
  <2>1. \A o \in Ops : OwnAt(O[o], e, k) \in Nat  BY <1>1 DEF OwnAt
  <2> QED  BY <2>1 DEF OwnIn
<1>5. SumFunction(All(O, k)) \in Nat  BY <1>2, SumNat, HandoffAssumption
<1>6. Foreign(O, e, k) \in Nat  BY <1>3, SumNat, HandoffAssumption DEF Foreign
<1>7. SumFunction(OwnIn(O, e, k)) \in Nat  BY <1>4, SumNat, HandoffAssumption
<1> QED  BY <1>2, <1>3, <1>4, <1>5, <1>6, <1>7 DEF Sums

\* The others count no more than all of them, and all of them no more than one
\* ledger and the others together.
LEMMA SumsSplit ==
  ASSUME NEW O, NEW c, RowsIn(O, c), NEW e, NEW k \in Nat
  PROVE  /\ Foreign(O, e, k) <= SumFunction(All(O, k))
         /\ SumFunction(All(O, k)) <= SumFunction(OwnIn(O, e, k)) + Foreign(O, e, k)
<1> DEFINE h == [o \in Ops |-> OwnIn(O, e, k)[o] + Elsewhere(O, e, k)[o]]
<1>0. \A o \in Ops : Counts(O[o], k) \in Nat /\ Late(O[o], k) \in Nat
  BY CountsAmount DEF RowsIn
<1>1. /\ All(O, k) \in [Ops -> Int] /\ Elsewhere(O, e, k) \in [Ops -> Int]
      /\ OwnIn(O, e, k) \in [Ops -> Int]
  <2>1. Sums(O, e, k)  BY SumsType
  <2> QED  BY <2>1 DEF Sums
<1>2. h \in [Ops -> Int] /\ \A o \in Ops : h[o] = OwnIn(O, e, k)[o] + Elsewhere(O, e, k)[o]
  BY <1>1
<1>3. \A o \in Ops : Elsewhere(O, e, k)[o] <= All(O, k)[o]
  BY <1>0 DEF All, Elsewhere, ElseAt
<1>4. \A o \in Ops : All(O, k)[o] <= h[o]
  BY <1>0 DEF All, OwnIn, OwnAt, Elsewhere, ElseAt
<1> HIDE DEF h
<1>5. Foreign(O, e, k) <= SumFunction(All(O, k))
  BY <1>1, <1>3, SumMonotone, HandoffAssumption DEF Foreign
<1>6. SumFunction(h) = SumFunction(OwnIn(O, e, k)) + Foreign(O, e, k)
  BY <1>1, <1>2, SumPlus, HandoffAssumption DEF Foreign
<1>7. SumFunction(All(O, k)) <= SumFunction(h)
  BY <1>1, <1>2, <1>4, SumMonotone, HandoffAssumption
<1> QED  BY <1>5, <1>6, <1>7

LEMMA NothingForeign ==
  ASSUME NEW O, NEW e, NEW k, \A o \in Ops : O[o].env = e \/ Counts(O[o], k) = 0
  PROVE  Foreign(O, e, k) = 0
<1>1. Elsewhere(O, e, k) \in [Ops -> Int] /\ \A o \in Ops : Elsewhere(O, e, k)[o] = 0
  BY DEF Elsewhere, ElseAt
<1> QED  BY <1>1, SumZero, HandoffAssumption DEF Foreign

\* Where every operation keeps its ledger and counts no more, neither do the sums.
LEMMA SumsFall ==
  ASSUME NEW O, NEW c, RowsIn(O, c), NEW P, NEW d, RowsIn(P, d), NEW j \in Nat, NEW k \in Nat,
         \A o \in Ops : P[o].env = O[o].env /\ Counts(P[o], k) <= Counts(O[o], j)
  PROVE  /\ SumFunction(All(P, k)) <= SumFunction(All(O, j))
         /\ \A e : Foreign(P, e, k) <= Foreign(O, e, j)
<1>0. Sums(P, 0, k) /\ Sums(O, 0, j)  BY SumsType
<1>1. /\ All(P, k) \in [Ops -> Int] /\ All(O, j) \in [Ops -> Int]
      /\ \A o \in Ops : All(P, k)[o] <= All(O, j)[o]
  BY <1>0 DEF All, Sums
<1>2. SumFunction(All(P, k)) <= SumFunction(All(O, j))
  BY <1>1, SumMonotone, HandoffAssumption
<1>3. ASSUME NEW e  PROVE Foreign(P, e, k) <= Foreign(O, e, j)
  <2>0. Sums(P, e, k) /\ Sums(O, e, j)  BY SumsType
  <2>1. Elsewhere(P, e, k) \in [Ops -> Int] /\ Elsewhere(O, e, j) \in [Ops -> Int]
    BY <2>0 DEF Sums
  <2>2. \A o \in Ops : Elsewhere(P, e, k)[o] <= Elsewhere(O, e, j)[o]
    <3>1. ASSUME NEW o \in Ops  PROVE Elsewhere(P, e, k)[o] <= Elsewhere(O, e, j)[o]
      BY DEF Elsewhere, ElseAt
    <3> QED  BY <3>1
  <2> QED  BY <2>1, <2>2, SumMonotone, HandoffAssumption DEF Foreign
<1> QED  BY <1>2, <1>3

\* A right, a holding and a continuation are facts of the table alone.
LEMMA RightsSame ==
  ASSUME UNCHANGED <<cycle, known, auth>>, NEW f
  PROVE  /\ Right(f, cycle)' <=> Right(f, cycle)
         /\ Holds(auth, f, cycle)' <=> Holds(auth, f, cycle)
         /\ Continues(f)' <=> Continues(f)
<1>1. Bound(f, cycle)' <=> Bound(f, cycle)  BY DEF Bound, NoRecord
<1>2. Continues(f)' <=> Continues(f)  BY DEF Continues, Holds, HeldRow, NoRecord
<1>3. Holds(auth, f, cycle)' <=> Holds(auth, f, cycle)  BY DEF Holds, HeldRow, NoRecord
<1> QED  BY <1>1, <1>2, <1>3 DEF Right

\* An operation that moves on counts no more, in any cycle and in any sum.
Falls(k) ==
    /\ \A p \in Ops : op'[p].env = op[p].env /\ Counts(op'[p], k) <= Counts(op[p], k)
    /\ SumFunction(All(op', k)) \in Nat /\ SumFunction(All(op, k)) \in Nat
    /\ SumFunction(All(op', k)) <= SumFunction(All(op, k))
    /\ \A f : /\ Foreign(op', f, k) \in Nat /\ Foreign(op, f, k) \in Nat
              /\ Foreign(op', f, k) <= Foreign(op, f, k)

LEMMA SettlingSums ==
  ASSUME RowsIn(op, cycle), NEW o \in Ops, Settling(o)
  PROVE  RowsIn(op', cycle) /\ \A k \in Cycles : Falls(k)
<1>1. RowsIn(op', cycle)  BY DEF RowsIn, Settling
<1>2. ASSUME NEW k \in Cycles  PROVE Falls(k)
  <2>1. \A p \in Ops : Counts(op[p], k) \in Nat  BY CountsAmount, Parameters DEF RowsIn
  <2>2. \A p \in Ops : op'[p].env = op[p].env /\ Counts(op'[p], k) <= Counts(op[p], k)
    BY <2>1 DEF Settling
  <2>3. /\ SumFunction(All(op', k)) <= SumFunction(All(op, k))
        /\ \A f : Foreign(op', f, k) <= Foreign(op, f, k)
    BY <1>1, <2>2, SumsFall, Parameters
  <2>4. \A f : Sums(op', f, k) /\ Sums(op, f, k)  BY <1>1, SumsType, Parameters
  <2> QED  BY <2>2, <2>3, <2>4 DEF Sums, Falls
<1> QED  BY <1>1, <1>2

LEMMA SettlingCap == ASSUME CapInv, BooksInv', NEW o \in Ops, Settling(o)  PROVE Pooled'
<1>1. BooksInv /\ Pooled /\ cycle \in Cycles /\ cycle \in Nat /\ cycle' = cycle /\ auth' = auth
  BY BaseFacts DEF CapInv, Settling
<1>2. RowsIn(op, cycle)  BY <1>1, RowsNow
<1>3. RowsIn(op', cycle) /\ \A k \in Cycles : Falls(k)  BY <1>2, SettlingSums
<1>4. Falls(cycle)  BY <1>1, <1>3
<1>6. \A f \in Env : /\ Right(f, cycle)' <=> Right(f, cycle)
                     /\ Holds(auth, f, cycle)' <=> Holds(auth, f, cycle)
                     /\ Continues(f)' <=> Continues(f)
  BY RightsSame DEF Settling
<1>7. QuietElsewhere'
  <2>1. ASSUME NEW f \in Env, Right(f, cycle), NEW p \in Ops, op'[p].env # f
        PROVE  QuietAt(op'[p], cycle)
    <3>1. QuietAt(op[p], cycle)  BY <1>1, <1>4, <2>1 DEF Pooled, QuietElsewhere, Falls
    <3>2. CASE p = o
      <4>1. Counts(op[p], cycle) = 0  BY <3>1, <3>2 DEF QuietAt, Settling
      <4>2. Counts(op'[p], cycle) <= Counts(op[p], cycle)  BY <1>4 DEF Falls
      <4>3. Counts(op'[p], cycle) \in Nat  BY <1>3, CountsAmount DEF RowsIn
      <4> QED  BY <4>1, <4>2, <4>3 DEF QuietAt
    <3>3. CASE p # o  BY <3>1, <3>3 DEF Settling
    <3> QED  BY <3>2, <3>3
  <2> QED  BY <1>1, <1>6, <2>1 DEF QuietElsewhere
<1>8. CarriedIn'
  <2>1. ASSUME NEW f \in Env
        PROVE  /\ Holds(auth, f, cycle) => Foreign(op', f, cycle) <= auth[f][cycle].carried
               /\ Continues(f) => Foreign(op', f, cycle) = 0
    <3>1. Foreign(op', f, cycle) <= Foreign(op, f, cycle)  BY <1>4 DEF Falls
    <3>2. Foreign(op', f, cycle) \in Nat /\ Foreign(op, f, cycle) \in Nat  BY <1>4 DEF Falls
    <3>3. auth[f][cycle].carried \in Nat  BY <1>1 DEF BooksInv, Books, Amounts
    <3> QED  BY <1>1, <3>1, <3>2, <3>3 DEF Pooled, CarriedIn
  <2> QED  BY <1>1, <1>6, <2>1 DEF CarriedIn
<1>9. InTransit'
  <2>1. ASSUME NEW g \in Env, NEW f \in Env, BoundBy(g, f, cycle), auth[f][cycle].kind = "none"
        PROVE  SumFunction(All(op', cycle)) <= auth[g][cycle].exported.total /\ ~Continues(f)
    <3>1. SumFunction(All(op', cycle)) <= SumFunction(All(op, cycle))  BY <1>4 DEF Falls
    <3>2. SumFunction(All(op', cycle)) \in Nat /\ SumFunction(All(op, cycle)) \in Nat
      BY <1>4 DEF Falls
    <3>3. auth[g][cycle].exported.total \in Nat  BY <1>1 DEF BooksInv, Books, Amounts
    <3> QED  BY <1>1, <2>1, <3>1, <3>2, <3>3 DEF Pooled, InTransit
  <2> QED  BY <1>1, <1>6, <2>1 DEF InTransit, BoundBy, NoRecord
<1>10. WithinCap'
  <2>1. ASSUME NEW k \in Cycles, k <= cycle  PROVE SumFunction(All(op', k)) <= Cap
    BY <1>1, <1>3, <2>1, Parameters DEF Pooled, WithinCap, Falls
  <2> QED  BY <1>1, <2>1 DEF WithinCap
<1> QED  BY <1>7, <1>8, <1>9, <1>10 DEF Pooled

\* What every table write leaves alone, for the ledgers that did not make it.
LEMMA OthersRows ==
  ASSUME Shape, NEW e \in Env, NEW v, Writes(e, v)
  PROVE  /\ cycle \in Cycles /\ cycle' = cycle /\ auth'[e][cycle] = v
         /\ \A f \in Env \ {e} : /\ auth'[f][cycle] = auth[f][cycle]
                                 /\ Holds(auth', f, cycle) <=> Holds(auth, f, cycle)
                                 /\ Continues(f)' <=> Continues(f)
<1>1. cycle \in Cycles /\ cycle' = cycle /\ auth'[e][cycle] = v
       /\ \A f \in Env \ {e} : auth'[f][cycle] = auth[f][cycle]
  BY DEF Shape, Writes
<1> QED  BY <1>1, WriteKeeps DEF Holds, HeldRow

LEMMA BoundRight ==
  ASSUME NEW g \in Env, NEW f \in Env, NEW k, BoundBy(g, f, k), auth[f][k].kind = "none"
  PROVE  Right(f, k)
  BY DEF BoundBy, Bound, Right

LEMMA ContinuesRight == ASSUME NEW f, Continues(f) PROVE Right(f, cycle)
  BY DEF Continues, Right

LEMMA ClaimCap == ASSUME CapInv, NEW e \in Env, ClaimOrigin(e)  PROVE Pooled'
<1>1. /\ BooksInv /\ Pooled /\ Shape /\ cycle \in Cycles /\ cycle \in Nat /\ OpsInv
      /\ RowsIn(op, cycle)
  BY BaseFacts, RowsNow DEF CapInv
<1>2. Writes(e, OriginRow) /\ op' = op  BY <1>1, ClaimWrites DEF ClaimOrigin
<1>3. /\ cycle' = cycle /\ auth'[e][cycle] = OriginRow
      /\ \A f \in Env \ {e} : auth'[f][cycle] = auth[f][cycle]
  BY <1>1, <1>2, OthersRows
<1>4. \A f \in Env : Right(f, cycle)' => f = e  BY <1>1, ClaimRights
<1>5. \A o \in Ops : op[o].env = e \/ Counts(op[o], cycle) = 0
  <2>1. ASSUME NEW o \in Ops, op[o].env # e  PROVE Counts(op[o], cycle) = 0
    <3>1. OpRow(op[o], cycle)  BY <1>1 DEF OpsInv
    <3>2. CASE op[o].env = Nobody
      <4>1. op[o] = FreeOp  BY <3>1, <3>2 DEF OpRow
      <4> QED  BY <1>1, <4>1, FreeRow
    <3>3. CASE op[o].env # Nobody
      <4> DEFINE f == op[o].env
      <4>1. f \in Env \ {e}  BY <2>1, <3>1, <3>3 DEF OpRow
      <4>2. ~(Tally(auth, f, cycle) > 0)  BY <4>1 DEF ClaimOrigin, Attested, Involved
      <4>3. Own(f, cycle) \in [Ops -> Nat] /\ SumFunction(Own(f, cycle)) \in Nat
        BY <1>1, OwnType
      <4>4. auth[f][cycle].carried \in Nat  BY <1>1, <4>1 DEF BooksInv, Books, Amounts
      <4>5. SumFunction(Own(f, cycle)) = 0  BY <4>2, <4>3, <4>4 DEF Tally
      <4>6. Own(f, cycle)[o] <= SumFunction(Own(f, cycle))
        BY <4>3, SumPart, HandoffAssumption
      <4>7. Own(f, cycle)[o] = Counts(op[o], cycle) + Late(op[o], cycle)  BY DEF Own
      <4>8. Counts(op[o], cycle) \in Nat /\ Late(op[o], cycle) \in Nat
        BY <1>1, <3>1, CountsAmount
      <4> HIDE DEF f
      <4> QED  BY <4>5, <4>6, <4>7, <4>8
    <3> QED  BY <3>2, <3>3
  <2> QED  BY <2>1
<1>6. Foreign(op, e, cycle) = 0  BY <1>5, NothingForeign
<1>7. QuietElsewhere'
  BY <1>2, <1>3, <1>4, <1>5 DEF QuietElsewhere, QuietAt
<1>8. CarriedIn'
  <2>1. ASSUME NEW f \in Env, Right(f, cycle)'  PROVE f = e /\ Foreign(op', f, cycle') = 0
    BY <1>2, <1>3, <1>4, <1>6, <2>1
  <2>2. \A f \in Env : Holds(auth, f, cycle)' => Right(f, cycle)'  BY DEF Right
  <2>3. \A f \in Env : Continues(f)' => Right(f, cycle)'  BY <1>3 DEF Right, Continues
  <2>4. auth'[e][cycle'].carried = 0  BY <1>3, Rows
  <2> QED  BY <2>1, <2>2, <2>3, <2>4 DEF CarriedIn
<1>9. InTransit'
  <2>1. ASSUME NEW g \in Env, NEW f \in Env, BoundBy(g, f, cycle)'  PROVE FALSE
    <3>1. auth'[g][cycle].exported # NoRecord  BY <1>3, <2>1 DEF BoundBy, NoRecord
    <3>2. g # e  BY <1>3, <3>1, Rows
    <3>3. auth[g][cycle].exported # NoRecord  BY <1>3, <3>1, <3>2
    <3>4. ASSUME NEW h \in Env \ {e}  PROVE FALSE
      BY <3>3, <3>4 DEF ClaimOrigin, Attested, Involved
    <3> QED  BY <3>2, <3>4
  <2> QED  BY <2>1 DEF InTransit
<1>10. WithinCap'  BY <1>1, <1>2, <1>3 DEF Pooled, WithinCap
<1> QED  BY <1>7, <1>8, <1>9, <1>10 DEF Pooled

LEMMA ImportCap ==
  ASSUME CapInv, NEW e \in Env, NEW r \in Records, Import(e, r)  PROVE Pooled'
<1> DEFINE v == HandoffRow(r)
<1>1. /\ BooksInv /\ AuthorityInv /\ Pooled /\ Shape /\ OneRight
      /\ cycle \in Cycles /\ cycle \in Nat /\ RowsIn(op, cycle)
  BY BaseFacts, RowsNow DEF CapInv, BooksInv
<1>2. Writes(e, v) /\ op' = op  BY <1>1, ImportWrites DEF Import
<1>3. v.kind = "handoff" /\ v.carried = r.total /\ v.exported = NoRecord  BY Rows
<1> HIDE DEF v
<1>4. /\ cycle' = cycle /\ auth'[e][cycle] = v
      /\ \A f \in Env \ {e} : auth'[f][cycle] = auth[f][cycle]
  BY <1>1, <1>2, OthersRows
<1>5. Right(e, cycle) /\ \A f \in Env : Right(f, cycle)' => f = e  BY <1>1, ImportRights
<1>6. Foreign(op, e, cycle) <= r.total
  <2>1. auth[e][cycle].kind = "none"
         /\ \E g \in Env : auth[g][cycle].exported = r /\ r # NoRecord /\ r.dest = e
    BY <1>1, ImportBound
  <2>2. PICK g \in Env : auth[g][cycle].exported = r /\ BoundBy(g, e, cycle)
    BY <2>1 DEF BoundBy
  <2>3. SumFunction(All(op, cycle)) <= r.total  BY <1>1, <2>1, <2>2 DEF Pooled, InTransit
  <2>4. Foreign(op, e, cycle) <= SumFunction(All(op, cycle))  BY <1>1, SumsSplit
  <2>5. Sums(op, e, cycle)  BY <1>1, SumsType
  <2>6. r.total \in Nat  BY <1>1, <2>2 DEF BooksInv, Books, Amounts
  <2> QED  BY <2>3, <2>4, <2>5, <2>6 DEF Sums
<1>7. QuietElsewhere'
  <2>1. \A o \in Ops : op[o].env = e \/ QuietAt(op[o], cycle)
    BY <1>1, <1>5 DEF Pooled, QuietElsewhere
  <2> QED  BY <1>2, <1>4, <1>5, <2>1 DEF QuietElsewhere
<1>8. CarriedIn'
  <2>1. ASSUME NEW f \in Env, Holds(auth, f, cycle)'
        PROVE  Foreign(op', f, cycle') <= auth'[f][cycle'].carried
    <3>1. f = e  BY <1>5, <2>1 DEF Right
    <3> QED  BY <1>2, <1>3, <1>4, <1>6, <3>1
  <2>2. ASSUME NEW f \in Env, Continues(f)'  PROVE FALSE
    <3>1. Right(f, cycle)' /\ auth'[f][cycle].kind = "none"
      BY <1>4, <2>2 DEF Right, Continues
    <3> QED  BY <1>3, <1>4, <1>5, <3>1
  <2> QED  BY <2>1, <2>2 DEF CarriedIn
<1>9. InTransit'
  <2>1. ASSUME NEW g \in Env, NEW f \in Env, BoundBy(g, f, cycle)', auth'[f][cycle].kind = "none"
        PROVE  FALSE
    <3>1. f # e /\ auth[f][cycle].kind = "none"  BY <1>3, <1>4, <2>1
    <3>2. auth'[g][cycle].exported # NoRecord /\ auth'[g][cycle].exported.dest = f
      BY <1>4, <2>1 DEF BoundBy, NoRecord
    <3>3. BoundBy(g, f, cycle)  BY <1>3, <1>4, <3>2 DEF BoundBy
    <3>4. Right(f, cycle)  BY <3>1, <3>3, BoundRight
    <3> QED  BY <1>1, <1>5, <3>1, <3>4 DEF OneRight
  <2> QED  BY <1>4, <2>1 DEF InTransit
<1>10. WithinCap'  BY <1>1, <1>2, <1>4 DEF Pooled, WithinCap
<1> QED  BY <1>7, <1>8, <1>9, <1>10 DEF Pooled

\* What the exporter carried in, or would have, covers the others.
LEMMA CurrentCarried ==
  ASSUME CapInv, NEW e \in Env, HeldRow(CurrentRow(e))
  PROVE  Foreign(op, e, cycle) <= CurrentRow(e).carried
<1>1. Shape /\ cycle \in Cycles /\ CarriedIn  BY BaseFacts DEF CapInv, Pooled
<1>2. CurrentRow(e) = IF Continues(e) THEN ContinuedRow ELSE auth[e][cycle]
  BY <1>1, ContinuedTable DEF CurrentRow
<1>3. CASE Continues(e)
  <2>1. Foreign(op, e, cycle) = 0  BY <1>1, <1>3 DEF CarriedIn
  <2> QED  BY <1>2, <1>3, <2>1, Rows
<1>4. CASE ~Continues(e)  BY <1>1, <1>2, <1>4 DEF CarriedIn, Holds
<1> QED  BY <1>3, <1>4

\* With the record on its way nobody holds the cycle.
LEMMA ExportLeavesNone ==
  ASSUME AuthorityInv, NEW e \in Env, NEW dest \in Env, Export(e, dest)
  PROVE  \A f \in Env : ~Holds(auth', f, cycle)
<1> DEFINE v == ExportedRow(e, dest)
<1>1. Shape /\ OneRight /\ cycle \in Cycles  BY DEF AuthorityInv, Shape
<1>2. Writes(e, v) /\ v.exported # NoRecord  BY <1>1, ExportWrites, ExportedRowFacts
<1> HIDE DEF v
<1>3. auth'[e][cycle] = v /\ \A f \in Env \ {e} : auth'[f][cycle] = auth[f][cycle]
  BY <1>1, <1>2, OthersRows
<1>4. Right(e, cycle)  BY ExportRights
<1>5. \A f \in Env \ {e} : ~Holds(auth, f, cycle)  BY <1>1, <1>4 DEF OneRight, Right
<1> QED  BY <1>2, <1>3, <1>5 DEF Holds, HeldRow

LEMMA ExportCap ==
  ASSUME CapInv, NEW e \in Env, NEW dest \in Env, Export(e, dest)  PROVE Pooled'
<1> DEFINE v == ExportedRow(e, dest)
<1>1. /\ BooksInv /\ AuthorityInv /\ Pooled /\ Shape /\ OneRight
      /\ cycle \in Cycles /\ cycle \in Nat /\ RowsIn(op, cycle)
  BY BaseFacts, RowsNow DEF CapInv, BooksInv
<1>2. Writes(e, v) /\ op' = op  BY <1>1, ExportWrites DEF Export
<1>3. v.kind # "none" /\ v.exported.dest = dest /\ HeldRow(CurrentRow(e))
       /\ v.exported = ExportRecord(e, dest)
  BY <1>1, ExportedRowFacts
<1> HIDE DEF v
<1>4. /\ cycle' = cycle /\ auth'[e][cycle] = v
      /\ \A f \in Env \ {e} : auth'[f][cycle] = auth[f][cycle]
      /\ \A f \in Env \ {e} : Holds(auth', f, cycle) <=> Holds(auth, f, cycle)
      /\ \A f \in Env \ {e} : Continues(f)' <=> Continues(f)
  BY <1>1, <1>2, OthersRows
<1>5. Right(e, cycle) /\ \A f \in Env : Right(f, cycle)' => f = dest  BY <1>1, ExportRights
<1>6. dest # e  BY DEF Export
<1>7. \A f \in Env \ {e} : ~Right(f, cycle)  BY <1>1, <1>5 DEF OneRight
<1>8. ASSUME NEW f \in Env, Continues(f)'  PROVE FALSE
  <2>1. auth'[f][cycle].kind = "none"  BY <1>4, <1>8 DEF Continues
  <2>2. f # e  BY <1>3, <1>4, <2>1
  <2> QED  BY <1>4, <1>7, <1>8, <2>2, ContinuesRight
<1>9. QuietElsewhere'
  <2>1. \A o \in Ops : op[o].env = e \/ QuietAt(op[o], cycle)
    BY <1>1, <1>5 DEF Pooled, QuietElsewhere
  <2>2. \A o \in Ops : op[o].env = e => op[o].status = "closed"  BY DEF Export, Drained, OpsOf
  <2> QED  BY <1>2, <1>4, <2>1, <2>2 DEF QuietElsewhere, QuietAt
<1>10. CarriedIn'
  <2>1. \A f \in Env : ~Holds(auth, f, cycle)'
    BY <1>1, <1>4, ExportLeavesNone DEF Holds, HeldRow, NoRecord
  <2> QED  BY <1>8, <2>1 DEF CarriedIn
<1>11. SumFunction(All(op, cycle)) <= v.exported.total
  <2>1. SumFunction(All(op, cycle)) <= SumFunction(OwnIn(op, e, cycle)) + Foreign(op, e, cycle)
    BY <1>1, SumsSplit
  <2>2. Own(e, cycle) = OwnIn(op, e, cycle)  BY DEF Own, OwnIn, OwnAt
  <2>3. v.exported.total = CurrentRow(e).carried + SumFunction(OwnIn(op, e, cycle))
    BY <1>1, <1>3, <2>2, ExportTotal
  <2>4. Foreign(op, e, cycle) <= CurrentRow(e).carried  BY <1>3, CurrentCarried
  <2>5. Sums(op, e, cycle)  BY <1>1, SumsType
  <2>6. CurrentRow(e).carried \in Nat  BY <1>1, RowAmounts DEF Amounts
  <2> QED  BY <2>1, <2>3, <2>4, <2>5, <2>6 DEF Sums
<1>12. InTransit'
  <2>1. ASSUME NEW g \in Env, NEW f \in Env, BoundBy(g, f, cycle)', auth'[f][cycle].kind = "none"
        PROVE  SumFunction(All(op, cycle)) <= auth'[g][cycle].exported.total
    <3>1. f # e /\ auth[f][cycle].kind = "none"  BY <1>3, <1>4, <2>1
    <3>2. CASE g = e  BY <1>4, <1>11, <3>2
    <3>3. CASE g # e
      <4>1. auth'[g][cycle].exported # NoRecord /\ auth'[g][cycle].exported.dest = f
        BY <1>4, <2>1 DEF BoundBy, NoRecord
      <4>2. BoundBy(g, f, cycle)  BY <1>4, <3>3, <4>1 DEF BoundBy
      <4> QED  BY <1>7, <3>1, <4>2, BoundRight
    <3> QED  BY <3>2, <3>3
  <2> QED  BY <1>2, <1>4, <1>8, <2>1 DEF InTransit
<1>13. WithinCap'  BY <1>1, <1>2, <1>4 DEF Pooled, WithinCap
<1> QED  BY <1>9, <1>10, <1>12, <1>13 DEF Pooled

LEMMA AdmitsPast ==
  ASSUME cycle \in Nat, NEW e \in Env, NEW o \in Ops, Admits(e, o)
  PROVE  \A k \in Cycles : k < cycle => All(op', k) = All(op, k)
<1>1. op'[o] = OpenRow(e) /\ op[o] = FreeOp /\ \A p \in Ops \ {o} : op'[p] = op[p]
  BY DEF Admits
<1>2. OpRow(OpenRow(e), cycle) /\ OpenRow(e).from = cycle  BY OpenRowFacts
<1>3. ASSUME NEW k \in Cycles, k < cycle  PROVE All(op', k) = All(op, k)
  <2>1. Counts(OpenRow(e), k) = 0  BY <1>2, <1>3, CountsNotBefore, Parameters
  <2>2. Counts(FreeOp, k) = 0  BY FreeRow
  <2>3. \A p \in Ops : Counts(op'[p], k) = Counts(op[p], k)  BY <1>1, <2>1, <2>2
  <2> QED  BY <2>3 DEF All
<1> QED  BY <1>3

LEMMA ReserveCap ==
  ASSUME CapInv, NEW e \in Env, NEW o \in Ops, Reserve(e, o)  PROVE Pooled'
<1> DEFINE v == CurrentRow(e)
<1>1. /\ BooksInv /\ AuthorityInv /\ Pooled /\ Shape /\ OneRight /\ OpsInv
      /\ cycle \in Cycles /\ cycle \in Nat /\ RowsIn(op, cycle)
  BY BaseFacts, RowsNow DEF CapInv, BooksInv
<1>2. Writes(e, v)  BY <1>1, ReserveWrites
<1>3. v = IF Continues(e) THEN ContinuedRow ELSE auth[e][cycle]
  BY <1>1, ContinuedTable DEF CurrentRow
<1>4. /\ cycle' = cycle /\ auth'[e][cycle] = v
      /\ \A f \in Env \ {e} : auth'[f][cycle] = auth[f][cycle]
      /\ \A f \in Env \ {e} : Holds(auth', f, cycle) <=> Holds(auth, f, cycle)
      /\ \A f \in Env \ {e} : Continues(f)' <=> Continues(f)
  BY <1>1, <1>2, OthersRows
<1>5. HeldRow(v) => Foreign(op, e, cycle) <= v.carried  BY CurrentCarried
<1>6. v.kind = "none" => (Continues(e)' => auth[e][cycle].kind # "none" \/ Continues(e))
  BY <1>1, <1>2, WriteKeeps
<1>7. \A f \in Env : Right(f, cycle)' => Right(f, cycle)  BY <1>1, ReserveRights
<1>8. ~Continues(e)'
  <2>1. CASE v.kind = "none"  BY <1>3, <1>6, <2>1, Rows
  <2>2. CASE v.kind # "none"  BY <1>4, <2>2 DEF Continues
  <2> QED  BY <2>1, <2>2
<1> HIDE DEF v
<1>9. \A f \in Env : Continues(f)' => Continues(f) /\ f # e  BY <1>4, <1>8
<1>10. CASE op' = op
  <2>1. QuietElsewhere'  BY <1>1, <1>4, <1>7, <1>10 DEF Pooled, QuietElsewhere
  <2>2. CarriedIn'
    <3>1. ASSUME NEW f \in Env, Holds(auth, f, cycle)'
          PROVE  Foreign(op, f, cycle) <= auth'[f][cycle].carried
      <4>1. Holds(auth', f, cycle)  BY <1>4, <3>1 DEF Holds, HeldRow, NoRecord
      <4>2. CASE f = e  BY <1>4, <1>5, <4>1, <4>2 DEF Holds
      <4>3. CASE f # e  BY <1>1, <1>4, <4>1, <4>3 DEF Pooled, CarriedIn
      <4> QED  BY <4>2, <4>3
    <3>2. \A f \in Env : Continues(f)' => Foreign(op, f, cycle) = 0
      BY <1>1, <1>9 DEF Pooled, CarriedIn
    <3> QED  BY <1>4, <1>10, <3>1, <3>2 DEF CarriedIn
  <2>3. InTransit'
    <3>1. ASSUME NEW g \in Env, NEW f \in Env, BoundBy(g, f, cycle)', auth'[f][cycle].kind = "none"
          PROVE  SumFunction(All(op, cycle)) <= auth'[g][cycle].exported.total /\ ~Continues(f)'
      <4>1. auth[f][cycle].kind = "none"
        <5>1. CASE f = e  BY <1>3, <1>4, <3>1, <5>1, Rows DEF v
        <5>2. CASE f # e  BY <1>4, <3>1, <5>2
        <5> QED  BY <5>1, <5>2
      <4>2. auth'[g][cycle].exported # NoRecord /\ auth'[g][cycle].exported.dest = f
        BY <1>4, <3>1 DEF BoundBy, NoRecord
      <4>3. auth'[g][cycle].exported = auth[g][cycle].exported
        <5>1. CASE g = e  BY <1>3, <1>4, <4>2, <5>1, Rows DEF v
        <5>2. CASE g # e  BY <1>4, <5>2
        <5> QED  BY <5>1, <5>2
      <4>4. BoundBy(g, f, cycle)  BY <4>2, <4>3 DEF BoundBy
      <4>5. SumFunction(All(op, cycle)) <= auth[g][cycle].exported.total /\ ~Continues(f)
        BY <1>1, <4>1, <4>4 DEF Pooled, InTransit
      <4> QED  BY <1>9, <4>3, <4>5
    <3> QED  BY <1>4, <1>10, <3>1 DEF InTransit
  <2>4. WithinCap'  BY <1>1, <1>4, <1>10 DEF Pooled, WithinCap
  <2> QED  BY <2>1, <2>2, <2>3, <2>4 DEF Pooled
<1>11. CASE Admits(e, o)
  <2>1. HeldRow(v) /\ Tally(auth', e, cycle) + Est + Mon <= Cap
    BY <1>4, <1>11 DEF Admits, Admitted, Holds
  <2>2. Right(e, cycle)'  BY <1>4, <2>1 DEF Right, Holds, HeldRow, NoRecord
  <2>3. \A f \in Env : Right(f, cycle)' => f = e  BY <1>1, <1>7, <2>2 DEF OneRight
  <2>4. op'[o] = OpenRow(e) /\ op[o] = FreeOp /\ \A p \in Ops \ {o} : op'[p] = op[p]
    BY <1>11 DEF Admits
  <2>5. /\ OpRow(OpenRow(e), cycle) /\ OpenRow(e).env = e /\ OpenRow(e).from = cycle
        /\ Counts(OpenRow(e), cycle) = Est + Mon
    BY <1>1, OpenRowFacts
  <2>6. RowsIn(op', cycle)
    <3>1. \A p \in Ops : OpRow(op'[p], cycle)  BY <1>1, <2>4, <2>5 DEF RowsIn
    <3> QED  BY <1>1, <3>1 DEF RowsIn
  <2>7. \A k \in Nat : Counts(FreeOp, k) = 0 /\ Late(FreeOp, k) = 0  BY <1>1, FreeRow
  <2>8. FreeOp.env # e  BY HandoffAssumption DEF FreeOp
  <2>9. Foreign(op', e, cycle) = Foreign(op, e, cycle)
    <3>1. \A p \in Ops : ElseAt(op'[p], e, cycle) = ElseAt(op[p], e, cycle)
      BY <1>1, <2>4, <2>5, <2>7, <2>8 DEF ElseAt
    <3>2. Elsewhere(op', e, cycle) = Elsewhere(op, e, cycle)  BY <3>1 DEF Elsewhere
    <3> QED  BY <3>2 DEF Foreign
  <2>10. QuietElsewhere'
    <3>1. \A p \in Ops : op'[p].env = e \/ QuietAt(op'[p], cycle)
      <4>1. \A p \in Ops : op[p].env = e \/ QuietAt(op[p], cycle)
        BY <1>1, <1>7, <2>2 DEF Pooled, QuietElsewhere
      <4> QED  BY <2>4, <2>5, <4>1
    <3> QED  BY <1>4, <2>3, <3>1 DEF QuietElsewhere
  <2>11. CarriedIn'
    <3>1. ASSUME NEW f \in Env, Holds(auth, f, cycle)'
          PROVE  Foreign(op', f, cycle) <= auth'[f][cycle].carried
      <4>1. f = e  BY <2>3, <3>1 DEF Right
      <4> QED  BY <1>4, <1>5, <2>1, <2>9, <4>1
    <3>2. ASSUME NEW f \in Env, Continues(f)'  PROVE FALSE
      <4>1. Right(f, cycle)'
        <5>1. auth'[f][cycle].kind = "none"  BY <1>4, <3>2 DEF Continues
        <5> QED  BY <1>4, <3>2, <5>1 DEF Right
      <4> QED  BY <1>8, <2>3, <3>2, <4>1
    <3> QED  BY <1>4, <3>1, <3>2 DEF CarriedIn
  <2>12. InTransit'
    <3>1. ASSUME NEW g \in Env, NEW f \in Env, BoundBy(g, f, cycle)', auth'[f][cycle].kind = "none"
          PROVE  FALSE
      <4>1. Right(f, cycle)'
        BY <1>4, <3>1 DEF Right, Bound, BoundBy, NoRecord
      <4>2. f = e  BY <2>3, <4>1
      <4> QED  BY <1>4, <2>1, <3>1, <4>2 DEF HeldRow
    <3> QED  BY <1>4, <3>1 DEF InTransit
  <2>13. WithinCap'
    <3>1. \A k \in Cycles : k < cycle => All(op', k) = All(op, k)  BY <1>1, <1>11, AdmitsPast
    <3>2. SumFunction(All(op', cycle)) <= Cap
      <4>1. SumFunction(All(op', cycle)) = SumFunction(All(op, cycle)) + (Est + Mon) - 0
        <5>1. Sums(op, e, cycle) /\ Sums(op', e, cycle)  BY <1>1, <2>6, SumsType
        <5>2. All(op, cycle) \in [Ops -> Int] /\ All(op', cycle) \in [Ops -> Int]
          BY <5>1 DEF Sums
        <5>3. /\ All(op, cycle)[o] = 0 /\ All(op', cycle)[o] = Est + Mon
              /\ \A p \in Ops \ {o} : All(op', cycle)[p] = All(op, cycle)[p]
          BY <1>1, <2>4, <2>5, <2>7 DEF All
        <5> DEFINE F == All(op, cycle)
                   G == All(op', cycle)
        <5>4. F \in [Ops -> Int] /\ G \in [Ops -> Int] /\ \A p \in Ops \ {o} : G[p] = F[p]
          BY <5>2, <5>3
        <5> HIDE DEF F, G
        <5>5. SumFunction(G) = SumFunction(F) + G[o] - F[o]
          <6>1. IsFiniteSet(Ops)  BY HandoffAssumption
          <6> QED  BY <5>4, <6>1, SumChanged
        <5> QED  BY <5>3, <5>5 DEF F, G
      <4>2. SumFunction(All(op, cycle)) <= SumFunction(OwnIn(op, e, cycle)) + Foreign(op, e, cycle)
        BY <1>1, SumsSplit
      <4>3. Own(e, cycle) = OwnIn(op, e, cycle)  BY DEF Own, OwnIn, OwnAt
      <4>4. Tally(auth', e, cycle) = v.carried + SumFunction(OwnIn(op, e, cycle))
        BY <1>4, <4>3 DEF Tally
      <4>5. Sums(op, e, cycle)  BY <1>1, SumsType
      <4>6. v.carried \in Nat  BY <1>1, RowAmounts DEF Amounts, v
      <4> QED  BY <1>5, <2>1, <4>1, <4>2, <4>4, <4>5, <4>6, Parameters DEF Sums
    <3>3. ASSUME NEW k \in Cycles, k <= cycle  PROVE SumFunction(All(op', k)) <= Cap
      <4>1. CASE k = cycle  BY <3>2, <4>1
      <4>2. CASE k # cycle
        <5>1. k < cycle  BY <1>1, <3>3, <4>2, Parameters
        <5> QED  BY <1>1, <3>1, <3>3, <5>1 DEF Pooled, WithinCap
      <4> QED  BY <4>1, <4>2
    <3> QED  BY <1>4, <3>3 DEF WithinCap
  <2> QED  BY <2>10, <2>11, <2>12, <2>13 DEF Pooled
<1> QED  BY <1>1, <1>10, <1>11, ReserveAdmits

\* In the first moment of a cycle a right to it is a continuation from the last.
LEMMA RolloverCap == ASSUME CapInv, NextCycle PROVE Pooled'
<1>1. /\ BooksInv /\ AuthorityInv /\ Pooled /\ Shape
      /\ cycle \in Cycles /\ cycle \in Nat /\ RowsIn(op, cycle)
  BY BaseFacts, RowsNow DEF CapInv, BooksInv
<1>2. /\ cycle' = cycle + 1 /\ known' = known /\ auth' = auth /\ op' = op
      /\ cycle' \in Cycles /\ cycle + 1 \in Nat
  BY <1>1, HandoffAssumption DEF NextCycle, Cycles
<1>3. \A f \in Env : auth[f][cycle'] = NoAuthority  BY <1>1, <1>2 DEF Shape
<1>4. \A f \in Env : ~Holds(auth, f, cycle)'
  BY <1>2, <1>3, Rows DEF Holds, HeldRow, NoRecord
<1>5. \A g, f \in Env : ~BoundBy(g, f, cycle)'
  BY <1>2, <1>3, Rows DEF BoundBy, NoRecord
<1>6. ASSUME NEW f \in Env, Continues(f)'  PROVE Holds(auth, f, cycle)
  <2>1. Holds(auth', f, cycle' - 1)  BY <1>6 DEF Continues, Holds, HeldRow, NoRecord
  <2> QED  BY <1>1, <1>2, <2>1 DEF Holds
<1>7. \A f \in Env : Right(f, cycle)' => Continues(f)'
  BY <1>4, <1>5 DEF Right, Bound, BoundBy
<1>8. \A o \in Ops : OpRow(op[o], cycle) /\ Counts(op[o], cycle) \in Nat
                       /\ Counts(op[o], cycle + 1) \in Nat
  BY <1>1, <1>2, CountsAmount DEF RowsIn
<1>9. \A o \in Ops : /\ Counts(op[o], cycle + 1) <= Counts(op[o], cycle)
                     /\ op[o].status = "closed" => Counts(op[o], cycle + 1) = 0
  BY <1>1, <1>8, CountsNoMoreNext
<1>10. ASSUME NEW f \in Env, Continues(f)'
       PROVE  \A o \in Ops : op[o].env = f \/ Counts(op[o], cycle + 1) = 0
  <2>1. Right(f, cycle)  BY <1>6, <1>10 DEF Right
  <2>2. \A o \in Ops : op[o].env = f \/ QuietAt(op[o], cycle)
    BY <1>1, <2>1 DEF Pooled, QuietElsewhere
  <2> QED  BY <1>8, <1>9, <2>2 DEF QuietAt
<1>11. QuietElsewhere'
  BY <1>2, <1>7, <1>10 DEF QuietElsewhere, QuietAt
<1>12. CarriedIn'
  <2>1. \A f \in Env : Continues(f)' => Foreign(op, f, cycle + 1) = 0
    BY <1>10, NothingForeign
  <2> QED  BY <1>2, <1>4, <2>1 DEF CarriedIn
<1>13. InTransit'  BY <1>5 DEF InTransit
<1>14. WithinCap'
  <2>1. SumFunction(All(op, cycle + 1)) <= SumFunction(All(op, cycle))
    <3>1. \A o \in Ops : op[o].env = op[o].env
                           /\ Counts(op[o], cycle + 1) <= Counts(op[o], cycle)
      BY <1>9
    <3> QED  BY <1>1, <1>2, <3>1, SumsFall
  <2>2. Sums(op, 0, cycle) /\ Sums(op, 0, cycle + 1)  BY <1>1, <1>2, SumsType
  <2>3. SumFunction(All(op, cycle)) <= Cap  BY <1>1 DEF Pooled, WithinCap
  <2>4. SumFunction(All(op, cycle + 1)) <= Cap  BY <2>1, <2>2, <2>3, Parameters DEF Sums
  <2>5. \A k \in Cycles : k <= cycle + 1 => k <= cycle \/ k = cycle + 1
    BY <1>1, Parameters
  <2> QED  BY <1>1, <1>2, <2>4, <2>5 DEF Pooled, WithinCap
<1> QED  BY <1>11, <1>12, <1>13, <1>14 DEF Pooled

LEMMA PooledSame ==
  ASSUME CapInv, UNCHANGED <<cycle, known, auth, op>>  PROVE Pooled'
<1>1. \A f \in Env : /\ Right(f, cycle)' <=> Right(f, cycle)
                     /\ Holds(auth, f, cycle)' <=> Holds(auth, f, cycle)
                     /\ Continues(f)' <=> Continues(f)
  BY RightsSame
<1>2. QuietElsewhere'  BY <1>1 DEF CapInv, Pooled, QuietElsewhere
<1>3. CarriedIn'  BY <1>1 DEF CapInv, Pooled, CarriedIn
<1>4. InTransit'  BY <1>1 DEF CapInv, Pooled, InTransit, BoundBy, NoRecord
<1>5. WithinCap'  BY DEF CapInv, Pooled, WithinCap
<1> QED  BY <1>2, <1>3, <1>4, <1>5 DEF Pooled

LEMMA CapStep == CapInv /\ [Next]_vars => CapInv'
<1> SUFFICES ASSUME CapInv, [Next]_vars PROVE CapInv'
  OBVIOUS
<1>1. BooksInv'  BY BooksStep DEF CapInv
<1>2. OpsInv /\ cycle \in Cycles  BY BaseFacts DEF CapInv
<1>3. Pooled'
  <2>1. ASSUME NEW e \in Env, NEW o \in Ops, Reserve(e, o) PROVE Pooled'
    BY <2>1, ReserveCap
  <2>2. ASSUME NEW o \in Ops, NEW amount \in Actuals, Settle(o, amount) PROVE Pooled'
    BY <1>1, <1>2, <2>2, SettleSettles, SettlingCap
  <2>3. ASSUME NEW o \in Ops, Correct(o) \/ Close(o) PROVE Pooled'
    BY <1>1, <1>2, <2>3, CorrectSettles, CloseSettles, SettlingCap
  <2>4. ASSUME NEW e \in Env, ClaimOrigin(e) PROVE Pooled'  BY <2>4, ClaimCap
  <2>5. ASSUME NEW e \in Env, SetEnabled(e) PROVE Pooled'
    BY <2>5, PooledSame DEF SetEnabled
  <2>6. ASSUME NEW e \in Env, NEW dest \in Env, Export(e, dest) PROVE Pooled'
    BY <2>6, ExportCap
  <2>7. ASSUME NEW e \in Env, NEW r \in Records, Import(e, r) PROVE Pooled'
    BY <2>7, ImportCap
  <2>8. CASE NextCycle  BY <2>8, RolloverCap
  <2>9. CASE UNCHANGED vars  BY <2>9, PooledSame DEF vars
  <2> QED  BY <2>1, <2>2, <2>3, <2>4, <2>5, <2>6, <2>7, <2>8, <2>9 DEF Next
<1> QED  BY <1>1, <1>3 DEF CapInv

LEMMA CapInit == Init => CapInv
<1> SUFFICES ASSUME Init PROVE CapInv
  OBVIOUS
<1>1. BooksInv /\ cycle \in Nat /\ RowsIn(op, cycle)
  BY BooksInit, BaseFacts, RowsNow
<1>2. \A o \in Ops, k \in Nat : Counts(op[o], k) = 0
  BY FreeRow DEF Init
<1>3. \A k \in Nat : SumFunction(All(op, k)) = 0 /\ \A f : Foreign(op, f, k) = 0
  <2>1. ASSUME NEW k \in Nat  PROVE SumFunction(All(op, k)) = 0
    <3>1. All(op, k) \in [Ops -> Int] /\ \A o \in Ops : All(op, k)[o] = 0  BY <1>2 DEF All
    <3> QED  BY <3>1, SumZero, HandoffAssumption
  <2>2. ASSUME NEW k \in Nat, NEW f  PROVE Foreign(op, f, k) = 0
    BY <1>2, NothingForeign
  <2> QED  BY <2>1, <2>2
<1>4. cycle \in Cycles /\ \A f \in Env : auth[f][cycle] = NoAuthority
  BY HandoffAssumption DEF Init, Cycles
<1>5. QuietElsewhere  BY <1>1, <1>2 DEF QuietElsewhere, QuietAt
<1>6. CarriedIn  BY <1>1, <1>3, <1>4, Rows DEF CarriedIn, Holds, HeldRow
<1>7. InTransit  BY <1>4, Rows DEF InTransit, BoundBy
<1>8. WithinCap  BY <1>3, Parameters DEF WithinCap
<1> QED  BY <1>1, <1>5, <1>6, <1>7, <1>8 DEF CapInv, Pooled

\* All environments together stay within one cap in every cycle, for any number of
\* them and whatever is lost, late or imported twice, although each checks only its
\* own table and what it carried in (reserve, _tally, import_handoff).
THEOREM TogetherAlwaysWithinCap == Spec => []TogetherWithinCap
<1>1. CapInv => TogetherWithinCap
  BY DEF CapInv, Pooled, WithinCap, TogetherWithinCap, Total, All
<1> QED  BY <1>1, CapInit, CapStep, PTL DEF Spec
-----------------------------------------------------------------------------
(* The environments implement the one shared ledger, step by step.         *)

HolderOf(a, k) ==
    IF \E e \in Env : Holds(a, e, k) THEN CHOOSE e \in Env : Holds(a, e, k) ELSE Nobody
Holders(a) == [k \in Cycles |-> HolderOf(a, k)]
Spent(O) == [k \in Cycles |-> SumFunction(All(O, k))]

LEMMA PoolState ==
  /\ [k \in Cycles |-> Holder(k)] = Holders(auth)
  /\ [k \in Cycles |-> Total(k)] = Spent(op)
  /\ [k \in Cycles |-> Holder(k)]' = Holders(auth')
  /\ [k \in Cycles |-> Total(k)]' = Spent(op')
  BY DEF Holder, HolderOf, Holders, Total, All, Spent, Holds, HeldRow, NoRecord, Counts

LEMMA HolderIs ==
  ASSUME NEW a, NEW k, NEW e \in Env, Holds(a, e, k), \A f \in Env : Holds(a, f, k) => f = e
  PROVE  HolderOf(a, k) = e
  BY DEF HolderOf

LEMMA HolderNone ==
  ASSUME NEW a, NEW k, \A f \in Env : ~Holds(a, f, k)  PROVE HolderOf(a, k) = Nobody
  BY DEF HolderOf

\* A write changes no holder but the current cycle's.
LEMMA HoldersElsewhere ==
  ASSUME AuthorityInv, AuthorityInv', NEW e \in Env, NEW v, Writes(e, v),
         NEW k \in Cycles, k # cycle
  PROVE  HolderOf(auth', k) = HolderOf(auth, k)
<1>1. \A f \in Env : Holds(auth', f, k) <=> Holds(auth, f, k)  BY DEF Writes, Holds, HeldRow
<1>2. CASE \E f \in Env : Holds(auth, f, k)
  <2>1. PICK f \in Env : Holds(auth, f, k)  BY <1>2
  <2>2. \A g \in Env : Holds(auth, g, k) => g = f
    BY <2>1 DEF AuthorityInv, OneRight, Right
  <2>3. HolderOf(auth, k) = f  BY <2>1, <2>2, HolderIs
  <2>4. HolderOf(auth', k) = f  BY <1>1, <2>1, <2>2, HolderIs
  <2> QED  BY <2>3, <2>4
<1>3. CASE ~\E f \in Env : Holds(auth, f, k)  BY <1>1, <1>3, HolderNone
<1> QED  BY <1>2, <1>3

\* Claiming, importing and continuing into a cycle nobody holds acquires it.
LEMMA PoolAcquire ==
  ASSUME AuthorityInv, AuthorityInv', NEW e \in Env, NEW v, Writes(e, v), HeldRow(v), op' = op,
         \A f \in Env : ~Holds(auth, f, cycle)
  PROVE  Pool!Next
<1>1. Shape /\ cycle \in Cycles  BY DEF AuthorityInv, Shape
<1>2. auth'[e][cycle] = v /\ \A f \in Env \ {e} : auth'[f][cycle] = auth[f][cycle]
  BY <1>1, OthersRows
<1>3. HolderOf(auth, cycle) = Nobody  BY HolderNone
<1>4. HolderOf(auth', cycle) = e
  <2>1. Holds(auth', e, cycle)  BY <1>2 DEF Holds
  <2>2. \A f \in Env : Holds(auth', f, cycle) => f = e  BY <1>2 DEF Holds
  <2> QED  BY <2>1, <2>2, HolderIs
<1>5. Holders(auth') = [Holders(auth) EXCEPT ![cycle] = e]
  BY <1>1, <1>4, HoldersElsewhere DEF Holders
<1>6. Holders(auth)[cycle] = Nobody  BY <1>1, <1>3 DEF Holders
<1>7. Pool!Acquire(cycle, e)  BY <1>5, <1>6, PoolState DEF Pool!Acquire
<1> QED  BY <1>1, <1>7 DEF Pool!Next

PoolStutters == Holders(auth') = Holders(auth) /\ Spent(op') = Spent(op)
PoolStep == Pool!Next \/ PoolStutters

LEMMA PoolQuiet == ASSUME UNCHANGED <<auth, op>> PROVE PoolStutters
  BY DEF PoolStutters

LEMMA PoolReserve ==
  ASSUME CapInv, CapInv', NEW e \in Env, NEW o \in Ops, Reserve(e, o)  PROVE PoolStep
<1> DEFINE v == CurrentRow(e)
<1>1. /\ AuthorityInv /\ AuthorityInv' /\ Shape /\ OneRight /\ OpsInv
      /\ cycle \in Cycles /\ cycle \in Nat
  BY BaseFacts DEF CapInv, BooksInv
<1>2. Writes(e, v) /\ v = IF Continues(e) THEN ContinuedRow ELSE auth[e][cycle]
  BY <1>1, ReserveWrites, ContinuedTable DEF CurrentRow
<1>3. CASE op' = op
  <2>1. CASE Continues(e)
    <3>1. Right(e, cycle) /\ ~Holds(auth, e, cycle)
      BY <2>1, ContinuesRight DEF Continues, Holds, HeldRow
    <3>2. \A f \in Env : ~Holds(auth, f, cycle)  BY <1>1, <3>1 DEF OneRight, Right
    <3>3. HeldRow(v)  BY <1>2, <2>1, Rows DEF HeldRow
    <3> QED  BY <1>1, <1>2, <1>3, <3>2, <3>3, PoolAcquire DEF PoolStep
  <2>2. CASE ~Continues(e)
    <3>1. auth' = auth  BY <2>2 DEF Reserve, WithContinued
    <3> QED  BY <1>3, <3>1, PoolQuiet DEF PoolStep
  <2> QED  BY <2>1, <2>2
<1>4. CASE Admits(e, o)
  <2>1. Holds(auth', e, cycle) /\ cycle' = cycle
    BY <1>4 DEF Admits, Admitted, Reserve
  <2>2. Right(e, cycle)  
    <3>1. Right(e, cycle)'  BY <2>1 DEF Right, Holds, HeldRow, NoRecord
    <3> QED  BY <1>1, <3>1, ReserveRights
  <2>3. \A f \in Env : Holds(auth', f, cycle) => f = e
    <3>1. \A f \in Env : Holds(auth', f, cycle) => Right(f, cycle)'
      BY <2>1 DEF Right, Holds, HeldRow, NoRecord
    <3> QED  BY <1>1, <2>2, <3>1, ReserveRights DEF OneRight
  <2>4. HolderOf(auth', cycle) = e  BY <2>1, <2>3, HolderIs
  <2>5. HolderOf(auth, cycle) = Nobody \/ HolderOf(auth, cycle) = e
    <3>1. \A f \in Env : Holds(auth, f, cycle) => f = e  BY <1>1, <2>2 DEF OneRight, Right
    <3>2. CASE Holds(auth, e, cycle)  BY <3>1, <3>2, HolderIs
    <3>3. CASE ~Holds(auth, e, cycle)
      <4>1. \A f \in Env : ~Holds(auth, f, cycle)  BY <3>1, <3>3
      <4> QED  BY <4>1, HolderNone
    <3> QED  BY <3>2, <3>3
  <2>6. /\ Holders(auth')[cycle] = e /\ e # Nobody
        /\ Holders(auth)[cycle] = Nobody \/ Holders(auth)[cycle] = e
        /\ \A j \in Cycles \ {cycle} : Holders(auth')[j] = Holders(auth)[j]
    BY <1>1, <1>2, <2>4, <2>5, HoldersElsewhere, HandoffAssumption DEF Holders
  <2>7. Spent(op')[cycle] <= Cap
    BY <1>1, <2>1 DEF Spent, CapInv, Pooled, WithinCap
  <2>8. \A j \in Cycles : j < cycle => Spent(op')[j] = Spent(op)[j]
    BY <1>1, <1>4, AdmitsPast DEF Spent
  <2>9. Pool!Admit(cycle)  BY <2>6, <2>7, <2>8, PoolState DEF Pool!Admit
  <2> QED  BY <1>1, <2>9 DEF Pool!Next, PoolStep
<1> QED  BY <1>1, <1>3, <1>4, ReserveAdmits

LEMMA PoolSettling == ASSUME CapInv, NEW o \in Ops, Settling(o)  PROVE PoolStep
<1>1. RowsIn(op, cycle)  BY RowsNow DEF CapInv
<1>2. \A k \in Cycles : Falls(k)  BY <1>1, SettlingSums
<1>3. Spent(op') \in [Cycles -> Nat]  BY <1>2 DEF Spent, Falls
<1>4. \A k \in Cycles : Spent(op')[k] <= Spent(op)[k]  BY <1>2 DEF Spent, Falls
<1>5. Holders(auth') = Holders(auth)  BY DEF Settling
<1>6. Pool!Settle  BY <1>3, <1>4, <1>5, PoolState DEF Pool!Settle
<1> QED  BY <1>6 DEF Pool!Next, PoolStep

LEMMA PoolClaim ==
  ASSUME CapInv, CapInv', NEW e \in Env, ClaimOrigin(e)  PROVE PoolStep
<1>1. AuthorityInv /\ AuthorityInv' /\ Shape /\ cycle \in Cycles
  BY BaseFacts DEF CapInv, BooksInv
<1>2. Writes(e, OriginRow) /\ HeldRow(OriginRow) /\ op' = op
  BY <1>1, ClaimWrites, Rows DEF HeldRow, ClaimOrigin
<1>3. auth[e][cycle].kind = "none"
  <2>1. WithContinued(e)[e][cycle].kind = "none"  BY DEF ClaimOrigin
  <2>2. CASE Continues(e)  BY <2>2 DEF Continues
  <2>3. CASE ~Continues(e)  BY <2>1, <2>3 DEF WithContinued
  <2> QED  BY <2>2, <2>3
<1>4. \A f \in Env : ~Holds(auth, f, cycle)
  BY <1>3 DEF ClaimOrigin, Attested, Involved, Holds, HeldRow
<1> QED  BY <1>1, <1>2, <1>4, PoolAcquire DEF PoolStep

LEMMA PoolImport ==
  ASSUME CapInv, CapInv', NEW e \in Env, NEW r \in Records, Import(e, r)  PROVE PoolStep
<1>1. AuthorityInv /\ AuthorityInv' /\ Shape /\ OneRight /\ cycle \in Cycles
  BY BaseFacts DEF CapInv, BooksInv
<1>2. Writes(e, HandoffRow(r)) /\ HeldRow(HandoffRow(r)) /\ op' = op
  BY <1>1, ImportWrites, Rows DEF HeldRow, Import
<1>3. auth[e][cycle].kind = "none" /\ Right(e, cycle)  BY <1>1, ImportBound, ImportRights
<1>4. \A f \in Env : ~Holds(auth, f, cycle)
  BY <1>1, <1>3 DEF OneRight, Right, Holds, HeldRow
<1> QED  BY <1>1, <1>2, <1>4, PoolAcquire DEF PoolStep

\* An export yields the cycle; if authority only continued into it to be exported,
\* nobody had held it, and nothing changes.
LEMMA PoolExport ==
  ASSUME CapInv, CapInv', NEW e \in Env, NEW dest \in Env, Export(e, dest)  PROVE PoolStep
<1>1. AuthorityInv /\ AuthorityInv' /\ Shape /\ OneRight /\ cycle \in Cycles
  BY BaseFacts DEF CapInv, BooksInv
<1>2. Writes(e, ExportedRow(e, dest)) /\ op' = op  BY <1>1, ExportWrites DEF Export
<1>3. HolderOf(auth', cycle) = Nobody  BY <1>1, ExportLeavesNone, HolderNone
<1>4. Right(e, cycle)  BY <1>1, ExportRights
<1>5. \A f \in Env : Holds(auth, f, cycle) => f = e  BY <1>1, <1>4 DEF OneRight, Right
<1>6. \A k \in Cycles : k # cycle => HolderOf(auth', k) = HolderOf(auth, k)
  BY <1>1, <1>2, HoldersElsewhere
<1>7. CASE Holds(auth, e, cycle)
  <2>1. HolderOf(auth, cycle) = e  BY <1>5, <1>7, HolderIs
  <2>2. Holders(auth)[cycle] # Nobody  BY <1>1, <2>1, HandoffAssumption DEF Holders
  <2>3. Holders(auth') = [Holders(auth) EXCEPT ![cycle] = Nobody]
    BY <1>1, <1>3, <1>6 DEF Holders
  <2>4. Pool!Yield(cycle)  BY <1>2, <2>2, <2>3, PoolState DEF Pool!Yield
  <2> QED  BY <1>1, <2>4 DEF Pool!Next, PoolStep
<1>8. CASE ~Holds(auth, e, cycle)
  <2>1. HolderOf(auth, cycle) = Nobody
    <3>1. \A f \in Env : ~Holds(auth, f, cycle)  BY <1>5, <1>8
    <3> QED  BY <3>1, HolderNone
  <2>2. Holders(auth') = Holders(auth)  BY <1>3, <1>6, <2>1 DEF Holders
  <2> QED  BY <1>2, <2>2 DEF PoolStutters, PoolStep
<1> QED  BY <1>7, <1>8

LEMMA PoolSteps == CapInv /\ CapInv' /\ [Next]_vars => PoolStep
<1> SUFFICES ASSUME CapInv, CapInv', [Next]_vars PROVE PoolStep
  OBVIOUS
<1>1. OpsInv /\ cycle \in Cycles  BY BaseFacts DEF CapInv
<1>2. ASSUME NEW e \in Env, NEW o \in Ops, Reserve(e, o) PROVE PoolStep
  BY <1>2, PoolReserve
<1>3. ASSUME NEW o \in Ops, NEW amount \in Actuals, Settle(o, amount) PROVE PoolStep
  BY <1>1, <1>3, SettleSettles, PoolSettling
<1>4. ASSUME NEW o \in Ops, Correct(o) \/ Close(o) PROVE PoolStep
  BY <1>1, <1>4, CorrectSettles, CloseSettles, PoolSettling
<1>5. ASSUME NEW e \in Env, ClaimOrigin(e) PROVE PoolStep  BY <1>5, PoolClaim
<1>6. ASSUME NEW e \in Env, SetEnabled(e) PROVE PoolStep
  BY <1>6, PoolQuiet DEF SetEnabled, PoolStep
<1>7. ASSUME NEW e \in Env, NEW dest \in Env, Export(e, dest) PROVE PoolStep
  BY <1>7, PoolExport
<1>8. ASSUME NEW e \in Env, NEW r \in Records, Import(e, r) PROVE PoolStep
  BY <1>8, PoolImport
<1>9. CASE NextCycle  BY <1>9, PoolQuiet DEF NextCycle, PoolStep
<1>10. CASE UNCHANGED vars  BY <1>10, PoolQuiet DEF vars, PoolStep
<1> QED  BY <1>2, <1>3, <1>4, <1>5, <1>6, <1>7, <1>8, <1>9, <1>10 DEF Next

LEMMA PoolInit == Init => Pool!Init
<1> SUFFICES ASSUME Init PROVE Pool!Init
  OBVIOUS
<1>1. ASSUME NEW k \in Cycles  PROVE HolderOf(auth, k) = Nobody
  <2>1. \A f \in Env : ~Holds(auth, f, k)  BY Rows DEF Init, Holds, HeldRow
  <2> QED  BY <2>1, HolderNone
<1>2. ASSUME NEW k \in Cycles  PROVE SumFunction(All(op, k)) = 0
  <2>1. All(op, k) \in [Ops -> Int] /\ \A o \in Ops : All(op, k)[o] = 0
    BY FreeRow DEF Init, All
  <2> QED  BY <2>1, SumZero, HandoffAssumption
<1>3. Holders(auth) = [k \in Cycles |-> Nobody]  BY <1>1 DEF Holders
<1>4. Spent(op) = [k \in Cycles |-> 0]  BY <1>2 DEF Spent
<1> QED  BY <1>3, <1>4, PoolState DEF Pool!Init

\* For any number of environments, operations and cycles the separate ledgers, with
\* their claims, continuation and handoff records, implement one shared ledger: one
\* holder per cycle, who alone raises what counts in it, within one cap (ledger.py).
THEOREM LedgersImplementOne == Spec => PoolSpec
<1>1. PoolStep => [Pool!Next]_<<[k \in Cycles |-> Holder(k)], [k \in Cycles |-> Total(k)]>>
  BY PoolState DEF PoolStep, PoolStutters
<1>2. CapInv /\ CapInv' /\ [Next]_vars =>
        [Pool!Next]_<<[k \in Cycles |-> Holder(k)], [k \in Cycles |-> Total(k)]>>
  BY <1>1, PoolSteps
<1> QED  BY <1>2, CapInit, CapStep, PoolInit, PTL DEF Spec, PoolSpec, Pool!Spec
=============================================================================
