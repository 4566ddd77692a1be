--------------------------- MODULE ActorRunProofs ---------------------------
(***************************************************************************)
(* Theorems about ActorRun for any number of runs, processes and faults and *)
(* any caps: types and outcomes first, then those that relate the durable   *)
(* rows to the platform: what is spent, settled, deleted and latched.       *)
(*                                                                         *)
(* The latter rest on EvidenceAlways: how far a start job has come          *)
(* (StartInv), what a row records of the platform (EvidenceInv) and what an *)
(* attempt in flight has seen (AttemptInv) agree.  The three are inductive  *)
(* together, and are kept here one run (RunOK) and one unit (UnitOK) at a   *)
(* time.                                                                   *)
(*                                                                         *)
(* The last two theorems assume one executor, which the deployment has: a   *)
(* second one may act on what it read before the first moved the row        *)
(* (ActorRunDuplicate, ActorRunReset).                                      *)
(***************************************************************************)
EXTENDS ActorRun, TLAPS

-----------------------------------------------------------------------------
(* Type correctness.                                                       *)

\* The fields of a row, and the counters one step on.
LEMMA RowFields ==
  ASSUME NEW w \in Row
  PROVE  /\ w.created \in BOOLEAN /\ w.extId \in BOOLEAN /\ w.mismatch \in BOOLEAN
         /\ w.refused \in BOOLEAN /\ w.orphaned \in BOOLEAN /\ w.anchored \in BOOLEAN
         /\ w.due \in BOOLEAN
         /\ w.remoteStatus \in {"null", "active", "terminal"}
         /\ w.importState \in ImportState
         /\ w.outcomes \in Nat /\ w.reads \in Nat /\ w.polls \in Nat /\ w.attempts \in Nat
         /\ w.outcomes + 1 \in Nat /\ w.reads + 1 \in Nat
         /\ w.polls + 1 \in Nat /\ w.attempts + 1 \in Nat /\ w.attempts + 0 \in Nat
         /\ w.verified \in SUBSET Storage
         /\ w.storageState \in {"retained", "deleted", "delete_failed"}
  BY DEF Row

\* A row with fields replaced by values of their types is a row.
LEMMA RowUpdate ==
  ASSUME NEW w \in Row
  PROVE  /\ \A b \in BOOLEAN : [w EXCEPT !.created = b] \in Row
         /\ \A b \in BOOLEAN : [w EXCEPT !.refused = b] \in Row
         /\ \A b \in BOOLEAN : [w EXCEPT !.orphaned = b] \in Row
         /\ \A b \in BOOLEAN : [w EXCEPT !.anchored = b] \in Row
         /\ \A b \in BOOLEAN : [w EXCEPT !.due = b] \in Row
         /\ \A n \in Nat : [w EXCEPT !.polls = n] \in Row
         /\ \A n \in Nat : [w EXCEPT !.reads = n] \in Row
         /\ \A n \in Nat : [w EXCEPT !.attempts = n] \in Row
         /\ \A s \in ImportState : [w EXCEPT !.importState = s] \in Row
         /\ \A s \in ImportState, n \in Nat :
               [w EXCEPT !.importState = s, !.outcomes = n] \in Row
         /\ \A v \in SUBSET Storage : [w EXCEPT !.verified = v] \in Row
         /\ \A s \in {"retained", "deleted", "delete_failed"} :
               [w EXCEPT !.storageState = s] \in Row
         /\ \A s \in {"null", "active", "terminal"} : [w EXCEPT !.remoteStatus = s] \in Row
         /\ \A b \in BOOLEAN, n \in Nat :
               [w EXCEPT !.extId = TRUE, !.remoteStatus = "active",
                         !.mismatch = b, !.attempts = n] \in Row
  BY Zenon DEF Row

\* The helpers that rewrite a row keep it one.
LEMMA StampType == ASSUME NEW w \in Row PROVE Stamp(w) \in Row
<1>1. (w.anchored \/ (w.importState \in TerminalImport /\ w.storageState = "deleted")) \in BOOLEAN
  BY RowFields
<1> QED  BY <1>1, RowUpdate, Zenon DEF Stamp

LEMMA RejectedType == ASSUME NEW w \in Row PROVE Rejected(w) \in Row
<1> DEFINE v == [w EXCEPT !.importState = "rejected", !.outcomes = w.outcomes + 1]
<1>1. v \in Row  BY RowUpdate, RowFields, Zenon DEF ImportState
<1>2. Stamp(v) \in Row  BY <1>1, StampType
<1> QED  BY <1>2 DEF Rejected

LEMMA AdvancedType ==
  ASSUME NEW w \in Row, w.importState \notin TerminalImport, w.importState # "pending"
  PROVE  Advanced(w) \in Row
<1> DEFINE to == NextImportState[w.importState]
           u == [w EXCEPT !.importState = to]
           v == [w EXCEPT !.importState = to, !.outcomes = w.outcomes + 1]
<1>1. to \in ImportState  BY RowFields DEF ImportState, TerminalImport, NextImportState
<1>2. u \in Row /\ v \in Row  BY <1>1, RowUpdate, RowFields, Zenon
<1>3. Stamp(v) \in Row  BY <1>2, StampType
<1> QED  BY <1>2, <1>3 DEF Advanced

LEMMA StartedType == ASSUME NEW w \in Row, NEW b \in BOOLEAN PROVE Started(w, b) \in Row
<1>1. (IF b THEN w.attempts + 1 ELSE w.attempts) \in Nat  BY RowFields
<1> QED  BY <1>1, RowUpdate, Zenon DEF Started

LEMMA MarkDeleteFailedType == ASSUME NEW w \in Row PROVE MarkDeleteFailed(w) \in Row
  BY RowUpdate, Zenon DEF MarkDeleteFailed

\* Every latch operation yields trip rows again.
LEMMA LatchType ==
  ASSUME NEW t \in [Runs -> [Reason -> TripState]]
  PROVE  /\ \A r \in Runs, c \in Reason : Tripped(t, r, c) \in [Runs -> [Reason -> TripState]]
         /\ WithStrandedRefusals(t) \in [Runs -> [Reason -> TripState]]
         /\ ClearedByBump(t) \in [Runs -> [Reason -> TripState]]
  BY DEF Tripped, WithStrandedRefusals, ClearedByBump, TripState

LEMMA MayTripType ==
  ASSUME TypeOK, NEW r \in Runs, NEW cs \in SUBSET Reason, MayTrip(r, cs)
  PROVE  trip' \in [Runs -> [Reason -> TripState]]
<1>1. trip \in [Runs -> [Reason -> TripState]]  BY DEF TypeOK
<1>2. CASE trip' = trip  BY <1>1, <1>2
<1>3. ASSUME NEW c \in cs, trip' = Tripped(trip, r, c)
      PROVE  trip' \in [Runs -> [Reason -> TripState]]
  BY <1>1, <1>3, LatchType
<1> QED  BY <1>2, <1>3 DEF MayTrip

\* A unit with its program counter and work sets replaced is a unit.
LEMMA UnitUpdate ==
  ASSUME NEW u \in Unit
  PROVE  /\ u.run \in Runs /\ u.pc \in UnitPC /\ u.seen \in ImportState
         /\ u.pending \in SUBSET Storage /\ u.deleted \in SUBSET Storage
         /\ \A pc \in UnitPC : [u EXCEPT !.pc = pc] \in Unit
         /\ \A pc \in UnitPC, s \in ImportState : [u EXCEPT !.pc = pc, !.seen = s] \in Unit
         /\ \A pc \in UnitPC : [u EXCEPT !.pc = pc, !.late = TRUE] \in Unit
         /\ \A pc \in UnitPC, s \in SUBSET Storage :
               [u EXCEPT !.pc = pc, !.pending = s] \in Unit
         /\ \A s, d \in SUBSET Storage : [u EXCEPT !.pending = s, !.deleted = d] \in Unit
         /\ \A pc \in UnitPC, r \in Runs : [u EXCEPT !.pc = pc, !.run = r] \in Unit
  BY Zenon DEF Unit

\* So is one that recorded whether its run restarted.
LEMMA UnitRestarted ==
  ASSUME NEW u \in Unit
  PROVE  /\ \A b \in BOOLEAN : [u EXCEPT !.restarted = b] \in Unit
         /\ \A pc \in UnitPC, b \in BOOLEAN : [u EXCEPT !.pc = pc, !.restarted = b] \in Unit
         /\ \A pc \in UnitPC, b \in BOOLEAN, s \in SUBSET Storage :
               [u EXCEPT !.pc = pc, !.restarted = b, !.pending = s] \in Unit
  BY Zenon DEF Unit

LEMMA RemoteUpdate ==
  ASSUME NEW m \in Remote
  PROVE  /\ m.run \in {"none", "running", "finished"} /\ m.store \in SUBSET Storage
         /\ \A x \in {"none", "running", "finished"} : [m EXCEPT !.run = x] \in Remote
         /\ \A s \in SUBSET Storage : [m EXCEPT !.store = s] \in Remote
  BY Zenon DEF Remote

LEMMA IdleUnitType == IdleUnit \in Unit
  BY ProcAssumption DEF IdleUnit, Unit, UnitPC, ImportState

LEMMA GotoType ==
  ASSUME TypeOK, NEW p \in Processes, NEW pc \in UnitPC, Goto(p, pc)
  PROVE  unit' \in [Processes -> Unit]
  BY UnitUpdate DEF Goto, TypeOK

LEMMA EndUnitType ==
  ASSUME TypeOK, NEW p \in Processes, EndUnit(p)
  PROVE  unit' \in [Processes -> Unit]
  BY IdleUnitType DEF EndUnit, TypeOK

LEMMA ObservedType ==
  ASSUME TypeOK, NEW r \in Runs
  PROVE  Observed(r) \in [Runs -> Row]
<1>1. /\ [row[r] EXCEPT !.remoteStatus = "terminal"] \in Row
      /\ [row[r] EXCEPT !.remoteStatus = "active"] \in Row
  BY RowUpdate, Zenon DEF TypeOK
<1> QED  BY <1>1 DEF Observed, TypeOK

LEMMA TrySettleType ==
  ASSUME TypeOK, NEW r \in Runs, TrySettle(r)
  PROVE  resv' \in [Runs -> ReservationStatus]
  BY DEF TrySettle, TypeOK, ReservationStatus

LEMMA HandedType ==
  ASSUME TypeOK, NEW p \in Processes, NEW r \in Runs, NEW pc \in UnitPC, Handed(p, r, pc)
  PROVE  TypeOK'
<1>1. [IdleUnit EXCEPT !.pc = pc, !.run = r] \in Unit  BY IdleUnitType, UnitUpdate, Zenon
<1>2. unit' \in [Processes -> Unit]  BY <1>1 DEF Handed, TypeOK
<1> QED  BY <1>2 DEF Handed, TypeOK

\* Every step of a start job keeps the types.
LEMMA StartStepType == ASSUME TypeOK, NEW r \in Runs, StartCheck(r) \/ StartStep(r) PROVE TypeOK'
<1> USE DEF StartPC
<1>0. row[r] \in Row /\ trip \in [Runs -> [Reason -> TripState]]  BY DEF TypeOK
<1>1. CASE StartCheck(r)  BY <1>1 DEF StartCheck, TypeOK
<1>2. CASE Reserve(r)
  <2>1. PICK b \in BOOLEAN :
          trip' = WithStrandedRefusals(IF b THEN ClearedByBump(trip) ELSE trip)
    BY <1>2 DEF Reserve
  <2>2. trip' \in [Runs -> [Reason -> TripState]]  BY <1>0, <2>1, LatchType
  <2>3. resv' \in [Runs -> ReservationStatus] /\ start' \in [Runs -> StartPC]
    BY <1>2 DEF Reserve, TypeOK, ReservationStatus
  <2> QED  BY <1>2, <2>2, <2>3 DEF Reserve, TypeOK
<1>3. CASE CreateRun(r)
  <2>1. row' \in [Runs -> Row]
    <3>1. [row[r] EXCEPT !.created = TRUE] \in Row  BY <1>0, RowUpdate, Zenon
    <3>2. row' = row \/ row' = [row EXCEPT ![r] = [row[r] EXCEPT !.created = TRUE]]
      BY <1>3, Zenon DEF CreateRun
    <3> QED  BY <3>1, <3>2 DEF TypeOK
  <2>2. resv' \in [Runs -> ReservationStatus]
    BY <1>3 DEF CreateRun, TypeOK, ReservationStatus
  <2> QED  BY <1>3, <2>1, <2>2 DEF CreateRun, TypeOK
<1>4. CASE SendStart(r)
  <2>1. remote' \in [Runs -> Remote]  BY <1>4 DEF SendStart, TypeOK, Remote
  <2>2. start' \in [Runs -> StartPC]  BY <1>4 DEF SendStart, TypeOK
  <2> QED  BY <1>4, <2>1, <2>2 DEF SendStart, TypeOK
<1>5. CASE RecordStartError(r)
  <2>1. (start[r] = "refused") \in BOOLEAN  OBVIOUS
  <2>2. row' \in [Runs -> Row]  BY <1>0, <1>5, <2>1, RowUpdate DEF RecordStartError, TypeOK
  <2> QED  BY <1>5, <2>2 DEF RecordStartError, TypeOK
<1>6. CASE TripStartRefusal(r)
  <2>1. trip' \in [Runs -> [Reason -> TripState]]
    BY <1>0, <1>6, LatchType DEF TripStartRefusal, Reason
  <2> QED  BY <1>6, <2>1 DEF TripStartRefusal, TypeOK
<1>7. CASE RecordStart(r)
  <2>1. (start[r] = "mismatched") \in BOOLEAN  OBVIOUS
  <2>2. Started(row[r], start[r] = "mismatched") \in Row  BY <1>0, <2>1, StartedType
  <2>3. row' \in [Runs -> Row]  BY <1>7, <2>2 DEF RecordStart, TypeOK
  <2> QED  BY <1>7, <2>3 DEF RecordStart, TypeOK
<1>8. CASE TripMismatch(r)
  <2>1. trip' \in [Runs -> [Reason -> TripState]]
    BY <1>0, <1>8, LatchType DEF TripMismatch, Reason
  <2> QED  BY <1>8, <2>1 DEF TripMismatch, TypeOK
<1>9. CASE StartReject(r)
  <2>1. row' \in [Runs -> Row]  BY <1>0, <1>9, RejectedType DEF StartReject, TypeOK
  <2> QED  BY <1>9, <2>1 DEF StartReject, TypeOK
<1>10. CASE StartAbort(r)
  <2>0. [row[r] EXCEPT !.remoteStatus = "terminal"] \in Row  BY <1>0, RowUpdate, Zenon
  <2>3. row' = row \/ row' = [row EXCEPT ![r].remoteStatus = "terminal"]
    BY <1>10, Zenon DEF StartAbort
  <2>1. row' \in [Runs -> Row]  BY <2>0, <2>3 DEF TypeOK
  <2>4. remote' = remote \/ remote' = [remote EXCEPT ![r].run = "finished"]
    BY <1>10, Zenon DEF StartAbort
  <2>5. remote[r] \in Remote  BY DEF TypeOK
  <2>6. [remote[r] EXCEPT !.run = "finished"] \in Remote  BY <2>5, RemoteUpdate, Zenon
  <2>2. remote' \in [Runs -> Remote]  BY <2>4, <2>6 DEF TypeOK
  <2>7. start' = [start EXCEPT ![r] = "trip_restart"] \/ start' = [start EXCEPT ![r] = "done"]
    BY <1>10, Zenon DEF StartAbort
  <2>8. start' \in [Runs -> StartPC]  BY <2>7 DEF TypeOK
  <2>9. UNCHANGED <<resv, trip, unit, faults>>  BY <1>10, Zenon DEF StartAbort
  <2> QED  BY <2>1, <2>2, <2>8, <2>9 DEF TypeOK
<1>11. CASE StartTripRestart(r)
  <2>1. trip' \in [Runs -> [Reason -> TripState]]
    BY <1>0, <1>11, LatchType DEF StartTripRestart, Reason
  <2> QED  BY <1>11, <2>1 DEF StartTripRestart, TypeOK
<1> QED
  BY <1>1, <1>2, <1>3, <1>4, <1>5, <1>6, <1>7, <1>8, <1>9, <1>10, <1>11 DEF StartStep

\* An abort leaves its unit at the next call.
LEMMA AbortUnit ==
  ASSUME NEW p \in Processes, Abort(p)
  PROVE  \/ Goto(p, "confirm")
         \/ \E pc \in {"delete", "confirm"}, b \in Restarts :
               unit' = [unit EXCEPT ![p].pc = pc, ![p].restarted = b]
  BY Zenon DEF Abort

\* The units after GET run, after the confirming GET, after a restart's trip and
\* after an abort: a recorded answer moves the counter and may leave a restart to
\* trip for, the trip itself moves nothing else of the unit.
LEMMA GetRunUnit ==
  ASSUME TypeOK, NEW p \in Processes, GetRun(p)
  PROVE  /\ \A o \in Processes \ {p} : unit'[o] = unit[o]
         /\ \/ EndUnit(p)
            \/ /\ unit'[p].pc = "usage" /\ unit'[p].run = unit[p].run
               /\ unit'[p].seen = unit[p].seen /\ unit'[p].deleted = unit[p].deleted
<1>1. unit \in [Processes -> Unit] /\ unit[p] \in Unit  BY DEF TypeOK
<1>2. CASE EndUnit(p)  BY <1>1, <1>2 DEF EndUnit
<1>3. ASSUME NEW b \in Restarts, unit' = [unit EXCEPT ![p].pc = "usage", ![p].restarted = b]
      PROVE  /\ \A o \in Processes \ {p} : unit'[o] = unit[o]
             /\ unit'[p].pc = "usage" /\ unit'[p].run = unit[p].run
             /\ unit'[p].seen = unit[p].seen /\ unit'[p].deleted = unit[p].deleted
  BY <1>1, <1>3 DEF Unit
<1> QED  BY <1>2, <1>3 DEF GetRun

LEMMA ConfirmUnit ==
  ASSUME TypeOK, NEW p \in Processes, Confirm(p)
  PROVE  /\ \A o \in Processes \ {p} : unit'[o] = unit[o]
         /\ unit'[p].run = unit[p].run /\ unit'[p].seen = unit[p].seen
         /\ unit'[p].deleted = unit[p].deleted
         /\ \/ unit'[p].pc = "finish"
            \/ /\ unit'[p].pc = "delete" /\ row' = Observed(unit[p].run)
               /\ remote[unit[p].run].run = "finished"
<1>1. unit \in [Processes -> Unit] /\ unit[p] \in Unit  BY DEF TypeOK
<1>2. \/ \E b \in Restarts :
            /\ unit' = [unit EXCEPT ![p].pc = "delete", ![p].restarted = b]
            /\ row' = Observed(unit[p].run) /\ remote[unit[p].run].run = "finished"
      \/ \E b \in Restarts : unit' = [unit EXCEPT ![p].pc = "finish", ![p].restarted = b,
                                                   ![p].pending = {}]
      \/ unit' = [unit EXCEPT ![p].pc = "finish", ![p].pending = {}]
  BY Zenon DEF Confirm
<1>3. ASSUME NEW b, unit' = [unit EXCEPT ![p].pc = "delete", ![p].restarted = b]
      PROVE  /\ \A o \in Processes \ {p} : unit'[o] = unit[o]
             /\ unit'[p].run = unit[p].run /\ unit'[p].seen = unit[p].seen
             /\ unit'[p].deleted = unit[p].deleted /\ unit'[p].pc = "delete"
  BY <1>1, <1>3 DEF Unit
<1>4. ASSUME NEW b, unit' = [unit EXCEPT ![p].pc = "finish", ![p].restarted = b,
                                          ![p].pending = {}]
      PROVE  /\ \A o \in Processes \ {p} : unit'[o] = unit[o]
             /\ unit'[p].run = unit[p].run /\ unit'[p].seen = unit[p].seen
             /\ unit'[p].deleted = unit[p].deleted /\ unit'[p].pc = "finish"
  BY <1>1, <1>4 DEF Unit
<1>5. ASSUME unit' = [unit EXCEPT ![p].pc = "finish", ![p].pending = {}]
      PROVE  /\ \A o \in Processes \ {p} : unit'[o] = unit[o]
             /\ unit'[p].run = unit[p].run /\ unit'[p].seen = unit[p].seen
             /\ unit'[p].deleted = unit[p].deleted /\ unit'[p].pc = "finish"
  BY <1>1, <1>5 DEF Unit
<1> QED  BY <1>2, <1>3, <1>4, <1>5

LEMMA TripRestartUnit ==
  ASSUME TypeOK, NEW p \in Processes, TripRestart(p)
  PROVE  /\ \A o \in Processes \ {p} : unit'[o] = unit[o]
         /\ unit'[p].pc = unit[p].pc /\ unit'[p].run = unit[p].run
         /\ unit'[p].seen = unit[p].seen /\ unit'[p].deleted = unit[p].deleted
<1>1. unit \in [Processes -> Unit] /\ unit[p] \in Unit  BY DEF TypeOK
<1> QED  BY <1>1 DEF TripRestart, Unit

LEMMA AbortFields ==
  ASSUME TypeOK, NEW p \in Processes, Abort(p)
  PROVE  /\ \A o \in Processes \ {p} : unit'[o] = unit[o]
         /\ unit'[p].run = unit[p].run /\ unit'[p].seen = unit[p].seen
         /\ unit'[p].deleted = unit[p].deleted
         /\ unit'[p].pc \in {"delete", "confirm"}
<1>1. unit \in [Processes -> Unit] /\ unit[p] \in Unit  BY DEF TypeOK
<1>2. CASE Goto(p, "confirm")  BY <1>1, <1>2 DEF Goto, Unit
<1>3. ASSUME NEW pc \in {"delete", "confirm"}, NEW b \in Restarts,
             unit' = [unit EXCEPT ![p].pc = pc, ![p].restarted = b]
      PROVE  /\ \A o \in Processes \ {p} : unit'[o] = unit[o]
             /\ unit'[p].run = unit[p].run /\ unit'[p].seen = unit[p].seen
             /\ unit'[p].deleted = unit[p].deleted /\ unit'[p].pc = pc
  BY <1>1, <1>3 DEF Unit
<1>4. CASE \E pc \in {"delete", "confirm"}, b \in Restarts :
              unit' = [unit EXCEPT ![p].pc = pc, ![p].restarted = b]
  BY <1>3, <1>4
<1> QED  BY <1>2, <1>4, AbortUnit

\* One delete moves only its unit's two work sets.
LEMMA DeleteStorageUnit ==
  ASSUME TypeOK, NEW p \in Processes, DeleteStorage(p)
  PROVE  \E s \in Storage, v \in BOOLEAN : unit' = [unit EXCEPT ![p] = Answered(@, s, v)]
  BY TrustAssumption DEF DeleteStorage, Storage

LEMMA AnsweredType ==
  ASSUME NEW u \in Unit, NEW s \in Storage, NEW v \in BOOLEAN
  PROVE  /\ Answered(u, s, v) \in Unit
         /\ Answered(u, s, v).pc = u.pc /\ Answered(u, s, v).run = u.run
         /\ Answered(u, s, v).seen = u.seen
<1> DEFINE a == u.pending \ {s}
           d == IF v THEN u.deleted \cup {s} ELSE u.deleted
<1>1. a \in SUBSET Storage /\ d \in SUBSET Storage  BY UnitUpdate
<1>2. [u EXCEPT !.pending = a, !.deleted = d] \in Unit  BY <1>1, UnitUpdate
<1> QED  BY <1>2 DEF Answered, Unit

\* Every step of a tick unit keeps the types; a stage that is not the first has
\* an import state to advance from.
StageSeen == \A p \in Processes : unit[p].pc = "stage" => unit[p].seen \notin TerminalImport

LEMMA UnitStepType ==
  ASSUME TypeOK, StageSeen, NEW p \in Processes, UnitStep(p)
  PROVE  TypeOK'
<1> DEFINE r == unit[p].run
<1> USE DEF UnitPC
<1>0. /\ r \in Runs /\ unit[p] \in Unit /\ row[r] \in Row
      /\ trip \in [Runs -> [Reason -> TripState]] /\ remote[r] \in Remote
  BY UnitUpdate DEF TypeOK
<1>1. CASE CountPoll(p)
  <2>1. [row[r] EXCEPT !.polls = row[r].polls + 1] \in Row  BY <1>0, RowFields, RowUpdate, Zenon
  <2>2. row' \in [Runs -> Row]  BY <1>0, <1>1, <2>1 DEF CountPoll, TypeOK
  <2>3. unit' \in [Processes -> Unit]  BY <1>1, GotoType, EndUnitType DEF CountPoll
  <2> QED  BY <1>1, <2>2, <2>3 DEF CountPoll, TypeOK
<1>2. CASE GetRun(p)
  <2>1. Observed(r) \in [Runs -> Row]  BY <1>0, ObservedType
  <2>2. row' \in [Runs -> Row]  BY <1>2, <2>1 DEF GetRun, TypeOK
  <2>3. unit' \in [Processes -> Unit]
    <3>1. CASE EndUnit(p)  BY <3>1, EndUnitType
    <3>2. ASSUME NEW b \in Restarts,
                 unit' = [unit EXCEPT ![p].pc = "usage", ![p].restarted = b]
          PROVE  unit' \in [Processes -> Unit]
      <4>1. [unit[p] EXCEPT !.pc = "usage", !.restarted = b] \in Unit
        BY <1>0, <3>2, UnitRestarted, Zenon DEF Restarts
      <4> QED  BY <3>2, <4>1 DEF TypeOK
    <3> QED  BY <1>2, <3>1, <3>2 DEF GetRun
  <2>4. trip' \in [Runs -> [Reason -> TripState]]  BY <1>0, <1>2, MayTripType DEF GetRun, Reason
  <2> QED  BY <1>2, <2>2, <2>3, <2>4 DEF GetRun, TypeOK
<1>3. CASE RecordUsage(p)
  <2>1. resv' \in [Runs -> ReservationStatus]  BY <1>0, <1>3, TrySettleType DEF RecordUsage
  <2>2. unit' \in [Processes -> Unit]  BY <1>3, EndUnitType DEF RecordUsage
  <2>3. trip' \in [Runs -> [Reason -> TripState]]
    BY <1>0, <1>3, MayTripType DEF RecordUsage, Reason
  <2> QED  BY <1>3, <2>1, <2>2, <2>3 DEF RecordUsage, TypeOK
<1>4. CASE PlanSettlement(p)
  <2>1. [row[r] EXCEPT !.polls = row[r].polls + 1] \in Row  BY <1>0, RowFields, RowUpdate, Zenon
  <2>2. row' \in [Runs -> Row]  BY <1>0, <1>4, <2>1 DEF PlanSettlement, TypeOK
  <2>3. unit' \in [Processes -> Unit]  BY <1>4, GotoType, EndUnitType DEF PlanSettlement
  <2> QED  BY <1>4, <2>2, <2>3 DEF PlanSettlement, TypeOK
<1>24. CASE PlanSettles(p)
  <2>1. unit' \in [Processes -> Unit]  BY <1>24, EndUnitType DEF PlanSettles
  <2>2. trip' \in [Runs -> [Reason -> TripState]]
    BY <1>0, <1>24, MayTripType DEF PlanSettles, Reason
  <2>3. resv' \in [Runs -> ReservationStatus]
    BY <1>0, <1>24 DEF PlanSettles, TypeOK, ReservationStatus
  <2> QED  BY <1>24, <2>1, <2>2, <2>3 DEF PlanSettles, TypeOK
<1>25. CASE TripRestart(p)
  <2>1. trip' \in [Runs -> [Reason -> TripState]]
    BY <1>0, <1>25, LatchType DEF TripRestart, Reason
  <2>2. [unit[p] EXCEPT !.restarted = FALSE] \in Unit  BY <1>0, UnitRestarted, Zenon
  <2>3. unit' \in [Processes -> Unit]  BY <1>25, <2>2 DEF TripRestart, TypeOK
  <2> QED  BY <1>25, <2>1, <2>3 DEF TripRestart, TypeOK
<1>5. CASE ReadOutstanding(p)
  <2>1. unit' \in [Processes -> Unit]  BY <1>5, GotoType DEF ReadOutstanding
  <2> QED  BY <1>5, <2>1 DEF ReadOutstanding, TypeOK
<1>6. CASE ResumeMismatchTrip(p)
  <2>1. unit' \in [Processes -> Unit]  BY <1>6, GotoType DEF ResumeMismatchTrip
  <2>2. trip' \in [Runs -> [Reason -> TripState]]
    BY <1>0, <1>6, LatchType DEF ResumeMismatchTrip, Reason
  <2> QED  BY <1>6, <2>1, <2>2 DEF ResumeMismatchTrip, TypeOK
<1>7. CASE ImportRead(p)
  <2>0. row[r].importState \in ImportState /\ "stage" \in UnitPC  BY <1>0, RowFields
  <2>1. [unit[p] EXCEPT !.pc = "stage", !.seen = row[r].importState] \in Unit
    BY <1>0, <2>0, UnitUpdate, Zenon
  <2>2. unit' \in [Processes -> Unit]  BY <1>7, <2>1, EndUnitType DEF ImportRead, TypeOK
  <2> QED  BY <1>7, <2>2 DEF ImportRead, TypeOK
<1>8. CASE Stage1Check(p)
  <2>1. unit' \in [Processes -> Unit]  BY <1>8, GotoType DEF Stage1Check
  <2> QED  BY <1>8, <2>1 DEF Stage1Check, TypeOK
<1>9. CASE CountReads(p)
  <2>1. [row[r] EXCEPT !.reads = row[r].reads + 1] \in Row  BY <1>0, RowFields, RowUpdate, Zenon
  <2>2. row' \in [Runs -> Row]  BY <1>0, <1>9, <2>1 DEF CountReads, TypeOK
  <2>3. unit' \in [Processes -> Unit]  BY <1>9, GotoType, EndUnitType DEF CountReads
  <2> QED  BY <1>9, <2>2, <2>3 DEF CountReads, TypeOK
<1>10. CASE Fetch(p)
  <2>1. unit' \in [Processes -> Unit]  BY <1>10, GotoType, EndUnitType DEF Fetch
  <2>2. trip' \in [Runs -> [Reason -> TripState]]  BY <1>0, <1>10, MayTripType DEF Fetch, Reason
  <2> QED  BY <1>10, <2>1, <2>2 DEF Fetch, TypeOK
<1>11. CASE Stage1Commit(p)
  <2>1. [row[r] EXCEPT !.importState = "observations_committed"] \in Row
    BY <1>0, RowUpdate, Zenon DEF ImportState
  <2>2. row' \in [Runs -> Row]  BY <1>0, <1>11, <2>1 DEF Stage1Commit, Exhausted, TypeOK
  <2>3. unit' \in [Processes -> Unit]
    BY <1>11, GotoType, EndUnitType DEF Stage1Commit, Exhausted
  <2>4. faults' \in 0..MaxFaults  BY <1>11, CapAssumption DEF Stage1Commit, Exhausted, TypeOK
  <2> QED  BY <1>11, <2>2, <2>3, <2>4 DEF Stage1Commit, Exhausted, TypeOK
<1>12. CASE LaterStage(p)
  <2>1. row[r].importState = unit[p].seen => Advanced(row[r]) \in Row
    BY <1>0, <1>12, AdvancedType DEF LaterStage, At, StageSeen
  <2>2. \/ row' = row
        \/ row[r].importState = unit[p].seen /\ row' = [row EXCEPT ![r] = Advanced(row[r])]
    BY <1>12 DEF LaterStage, Exhausted
  <2>3. row' \in [Runs -> Row]  BY <1>0, <2>1, <2>2 DEF TypeOK
  <2>4. unit' \in [Processes -> Unit]
    BY <1>12, GotoType, EndUnitType DEF LaterStage, Exhausted
  <2>5. faults' \in 0..MaxFaults  BY <1>12, CapAssumption DEF LaterStage, Exhausted, TypeOK
  <2> QED  BY <1>12, <2>3, <2>4, <2>5 DEF LaterStage, Exhausted, TypeOK
<1>13. CASE Reject(p)
  <2>1. row' \in [Runs -> Row]  BY <1>0, <1>13, RejectedType DEF Reject, TypeOK
  <2>2. unit' \in [Processes -> Unit]  BY <1>13, EndUnitType DEF Reject
  <2> QED  BY <1>13, <2>1, <2>2 DEF Reject, TypeOK
<1>14. CASE OverdueReject(p)
  <2>1. row' \in [Runs -> Row]  BY <1>0, <1>14, RejectedType DEF OverdueReject, TypeOK
  <2>2. [unit[p] EXCEPT !.pc = "begin", !.late = TRUE] \in Unit  BY <1>0, UnitUpdate, Zenon
  <2>3. unit' \in [Processes -> Unit]  BY <1>14, <2>2 DEF OverdueReject, TypeOK
  <2> QED  BY <1>14, <2>1, <2>3 DEF OverdueReject, TypeOK
<1>15. CASE BeginNothing(p)
  <2>1. unit' \in [Processes -> Unit]  BY <1>15, EndUnitType DEF BeginNothing
  <2> QED  BY <1>15, <2>1 DEF BeginNothing, TypeOK
<1>16. CASE BeginOrphan(p)
  <2>1. [row[r] EXCEPT !.orphaned = TRUE] \in Row  BY <1>0, RowUpdate, Zenon
  <2>2. row' \in [Runs -> Row]  BY <1>0, <1>16, <2>1 DEF BeginOrphan, TypeOK
  <2>3. unit' \in [Processes -> Unit]  BY <1>16, EndUnitType DEF BeginOrphan
  <2>4. trip' \in [Runs -> [Reason -> TripState]]
    BY <1>0, <1>16, LatchType DEF BeginOrphan, Reason
  <2> QED  BY <1>16, <2>2, <2>3, <2>4 DEF BeginOrphan, TypeOK
<1>17. CASE BeginAtCap(p)
  <2>1. row' \in [Runs -> Row]  BY <1>0, <1>17, MarkDeleteFailedType DEF BeginAtCap, TypeOK
  <2>2. unit' \in [Processes -> Unit]  BY <1>17, EndUnitType DEF BeginAtCap
  <2>3. trip' \in [Runs -> [Reason -> TripState]]
    BY <1>0, <1>17, LatchType DEF BeginAtCap, Reason
  <2> QED  BY <1>17, <2>1, <2>2, <2>3 DEF BeginAtCap, TypeOK
<1>18. CASE BeginAttempt(p)
  <2> DEFINE pc == IF row[r].remoteStatus = "terminal" THEN "delete" ELSE "abort"
             s == Storage \ row[r].verified
  <2>1. [row[r] EXCEPT !.attempts = row[r].attempts + 1] \in Row
    BY <1>0, RowFields, RowUpdate, Zenon
  <2>2. row' \in [Runs -> Row]  BY <1>0, <1>18, <2>1 DEF BeginAttempt, TypeOK
  <2>3. pc \in UnitPC /\ s \in SUBSET Storage  OBVIOUS
  <2>4. [unit[p] EXCEPT !.pc = pc, !.pending = s] \in Unit
    <3> HIDE DEF pc, s
    <3> QED  BY <1>0, <2>3, UnitUpdate, Zenon
  <2>5. unit' \in [Processes -> Unit]  BY <1>18, <2>4 DEF BeginAttempt, TypeOK
  <2> QED  BY <1>18, <2>2, <2>5 DEF BeginAttempt, TypeOK
<1>19. CASE Abort(p)
  <2>1. [row[r] EXCEPT !.remoteStatus = "terminal"] \in Row  BY <1>0, RowUpdate, Zenon
  <2>2. row' = row \/ row' = [row EXCEPT ![r].remoteStatus = "terminal"]
    BY <1>19, Zenon DEF Abort
  <2>3. row' \in [Runs -> Row]  BY <1>0, <2>1, <2>2 DEF TypeOK
  <2>5. UNCHANGED <<resv, trip, start, faults>>  BY <1>19, Zenon DEF Abort
  <2>4. unit' \in [Processes -> Unit]
    <3>1. CASE Goto(p, "confirm")  BY <3>1, GotoType
    <3>2. ASSUME NEW pc \in {"delete", "confirm"}, NEW b \in Restarts,
                 unit' = [unit EXCEPT ![p].pc = pc, ![p].restarted = b]
          PROVE  unit' \in [Processes -> Unit]
      <4>1. [unit[p] EXCEPT !.pc = pc, !.restarted = b] \in Unit
        BY <1>0, <3>2, UnitRestarted, Zenon DEF Restarts
      <4> QED  BY <3>2, <4>1 DEF TypeOK
    <3> QED  BY <1>19, <3>1, <3>2, AbortUnit
  <2>6. \/ remote' = [remote EXCEPT ![r].run = "finished"]
        \/ remote' = [remote EXCEPT ![r].run = remote[r].run]
    BY <1>19, Zenon DEF Abort
  <2>8. [remote[r] EXCEPT !.run = "finished"] \in Remote
    BY <1>0, RemoteUpdate, Zenon
  <2>9. [remote[r] EXCEPT !.run = remote[r].run] \in Remote
    BY <1>0, RemoteUpdate, Zenon
  <2>7. remote' \in [Runs -> Remote]  BY <1>0, <2>6, <2>8, <2>9 DEF TypeOK
  <2> QED  BY <2>3, <2>4, <2>5, <2>7 DEF TypeOK
<1>20. CASE Confirm(p)
  <2>1. row' \in [Runs -> Row]  BY <1>0, <1>20, ObservedType DEF Confirm, TypeOK
  <2>2. [unit[p] EXCEPT !.pc = "finish", !.pending = {}] \in Unit  BY <1>0, UnitUpdate, Zenon
  <2>3. \A b \in Restarts :
           /\ [unit[p] EXCEPT !.pc = "delete", !.restarted = b] \in Unit
           /\ [unit[p] EXCEPT !.pc = "finish", !.restarted = b, !.pending = {}] \in Unit
    BY <1>0, UnitRestarted, Zenon DEF Restarts
  <2>4. unit' \in [Processes -> Unit]  BY <1>20, <2>2, <2>3 DEF Confirm, TypeOK
  <2> QED  BY <1>20, <2>1, <2>4 DEF Confirm, TypeOK
<1>21. CASE DeleteStorage(p)
  <2> DEFINE s == IF "dataset" \in unit[p].pending THEN "dataset" ELSE "kv_store"
  <2>1. s \in Storage /\ unit[p].pending \in SUBSET Storage /\ unit[p].deleted \in SUBSET Storage
    BY <1>0, UnitUpdate DEF Storage
  <2>4. unit' \in [Processes -> Unit]
    BY <1>0, <1>21, DeleteStorageUnit, AnsweredType DEF TypeOK
  <2>5. remote' = remote \/ remote' = [remote EXCEPT ![r].store = remote[r].store \ {s}]
    BY <1>21 DEF DeleteStorage
  <2>7. remote[r].store \ {s} \in SUBSET Storage  BY <1>0, RemoteUpdate
  <2>8. [remote[r] EXCEPT !.store = remote[r].store \ {s}] \in Remote
    BY <1>0, <2>7, RemoteUpdate, Zenon
  <2>6. remote' \in [Runs -> Remote]  BY <1>0, <2>5, <2>8 DEF TypeOK
  <2> QED  BY <1>21, <2>4, <2>6 DEF DeleteStorage, TypeOK
<1>22. CASE DeletesSent(p)
  <2>1. unit' \in [Processes -> Unit]  BY <1>22, GotoType DEF DeletesSent
  <2> QED  BY <1>22, <2>1 DEF DeletesSent, TypeOK
<1>23. CASE Finish(p)
  <2> DEFINE v == row[r].verified \cup unit[p].deleted
             w == [row[r] EXCEPT !.verified = v]
  <2>1. v \in SUBSET Storage  BY <1>0, RowFields, UnitUpdate
  <2>2. w \in Row  BY <1>0, <2>1, RowUpdate, Zenon
  <2>3. Stamp([w EXCEPT !.storageState = "deleted"]) \in Row
    BY <2>2, RowUpdate, StampType, Zenon
  <2>4. MarkDeleteFailed(w) \in Row  BY <2>2, MarkDeleteFailedType
  <2>5. row' \in [Runs -> Row]  BY <1>0, <1>23, <2>2, <2>3, <2>4 DEF Finish, TypeOK
  <2>6. unit' \in [Processes -> Unit]  BY <1>23, EndUnitType DEF Finish
  <2>8. Tripped(trip, r, "delete_attempts_exhausted") \in [Runs -> [Reason -> TripState]]
    BY <1>0, LatchType DEF Reason
  <2>7. trip' \in [Runs -> [Reason -> TripState]]  BY <1>0, <1>23, <2>8 DEF Finish
  <2> QED  BY <1>23, <2>5, <2>6, <2>7 DEF Finish, TypeOK
<1> QED
  BY <1>1, <1>2, <1>3, <1>4, <1>5, <1>6, <1>7, <1>8, <1>9, <1>10, <1>11, <1>12, <1>13, <1>14,
     <1>15, <1>16, <1>17, <1>18, <1>19, <1>20, <1>21, <1>22, <1>23, <1>24, <1>25 DEF UnitStep

\* The platform, the deadline, the selectors, the sweeps, process loss and the
\* owner keep the types.
LEMMA OtherStepType ==
  ASSUME TypeOK,
         \/ \E r \in Runs : RemoteFinishes(r) \/ DeadlinePasses(r)
         \/ \E p \in Processes : Select(p) \/ Sweep(p) \/ Crash(p)
         \/ OwnerReset
  PROVE  TypeOK'
<1>1. ASSUME NEW r \in Runs, RemoteFinishes(r) PROVE TypeOK'
  <2>1. [remote[r] EXCEPT !.run = "finished"] \in Remote  BY RemoteUpdate DEF TypeOK
  <2>2. remote' \in [Runs -> Remote]  BY <1>1, <2>1 DEF RemoteFinishes, TypeOK
  <2> QED  BY <1>1, <2>2 DEF RemoteFinishes, TypeOK
<1>2. ASSUME NEW r \in Runs, DeadlinePasses(r) PROVE TypeOK'
  <2>1. row' \in [Runs -> Row]  BY <1>2, RowUpdate DEF DeadlinePasses, TypeOK
  <2> QED  BY <1>2, <2>1 DEF DeadlinePasses, TypeOK
<1>3. ASSUME NEW p \in Processes, Select(p) PROVE TypeOK'
  BY <1>3, HandedType DEF Select, SelectActive, SelectOutstanding, SelectOverdue, UnitPC
<1>4. ASSUME NEW p \in Processes, TripStranded(p) PROVE TypeOK'
  <2>1. \A r \in Runs : row[r] \in Row /\ MarkDeleteFailed(row[r]) \in Row
    BY MarkDeleteFailedType DEF TypeOK
  <2>2. row' \in [Runs -> Row]  BY <1>4, <2>1 DEF TripStranded
  <2>3. WithStrandedRefusals(trip) \in [Runs -> [Reason -> TripState]]  BY LatchType DEF TypeOK
  <2>4. "open" \in TripState  BY DEF TripState
  <2>5. trip' \in [Runs -> [Reason -> TripState]]  BY <1>4, <2>3, <2>4 DEF TripStranded
  <2> QED  BY <1>4, <2>2, <2>5 DEF TripStranded, TypeOK
<1>5. ASSUME NEW p \in Processes, ReleaseUnattached(p) PROVE TypeOK'
  BY <1>5 DEF ReleaseUnattached, TypeOK, ReservationStatus
<1>6. ASSUME NEW p \in Processes, Crash(p) PROVE TypeOK'
  <2>1. unit' \in [Processes -> Unit]  BY <1>6, IdleUnitType DEF Crash, TypeOK
  <2>2. start' \in [Runs -> StartPC]  BY <1>6 DEF Crash, TypeOK, StartPC
  <2>3. faults' \in 0..MaxFaults  BY <1>6, CapAssumption DEF Crash, TypeOK
  <2> QED  BY <1>6, <2>1, <2>2, <2>3 DEF Crash, TypeOK
<1>7. CASE OwnerReset  BY <1>7 DEF OwnerReset, TypeOK, TripState
<1> QED  BY <1>1, <1>2, <1>3, <1>4, <1>5, <1>6, <1>7 DEF Sweep

\* A stage works on an import that was undecided when it read it.
LEMMA StageSeenStep == ASSUME TypeOK, StageSeen, [Next]_vars PROVE StageSeen'
<1> SUFFICES ASSUME NEW q \in Processes, unit'[q].pc = "stage"
             PROVE  unit'[q].seen \notin TerminalImport
  BY DEF StageSeen
<1>1. ASSUME UNCHANGED unit PROVE unit'[q].seen \notin TerminalImport
  BY <1>1 DEF StageSeen
<1>2. ASSUME NEW p \in Processes, NEW pc \in UnitPC \ {"stage"}, Goto(p, pc)
      PROVE  unit'[q].seen \notin TerminalImport
  BY <1>2 DEF Goto, StageSeen, TypeOK, Unit
<1>3. ASSUME NEW p \in Processes, EndUnit(p) PROVE unit'[q].seen \notin TerminalImport
  BY <1>3 DEF EndUnit, IdleUnit, StageSeen, TypeOK
<1>4. ASSUME NEW p \in Processes, UnitStep(p) PROVE unit'[q].seen \notin TerminalImport
  <2> USE DEF UnitPC
  <2>1. CASE ImportRead(p)
    <3>1. CASE EndUnit(p)  BY <1>3, <3>1
    <3>2. CASE ~Decided(unit[p].run)
      <4> DEFINE seen == row[unit[p].run].importState
      <4>1. unit' = [unit EXCEPT ![p] = [unit[p] EXCEPT !.pc = "stage", !.seen = seen]]
        BY <2>1, <3>2 DEF ImportRead
      <4>2. seen \notin TerminalImport  BY <3>2 DEF Decided
      <4> HIDE DEF seen
      <4>3. q # p => unit'[q] = unit[q]  BY <4>1 DEF TypeOK
      <4>4. unit'[p].seen = seen  BY <4>1 DEF TypeOK, Unit
      <4> QED  BY <4>2, <4>3, <4>4 DEF StageSeen
    <3> QED  BY <2>1, <3>1, <3>2 DEF ImportRead
  <2>2. CASE OverdueReject(p)  BY <2>2 DEF OverdueReject, StageSeen, TypeOK, Unit
  <2>3. CASE BeginAttempt(p)  BY <2>3 DEF BeginAttempt, StageSeen, TypeOK, Unit
  <2>4. CASE Confirm(p)
    <3>1. unit'[p].pc # "stage"  BY <2>4, ConfirmUnit
    <3> QED  BY <2>4, <3>1, ConfirmUnit DEF StageSeen
  <2>5. CASE DeleteStorage(p)  BY <2>5, DeleteStorageUnit, AnsweredType DEF StageSeen, TypeOK
  <2>6. CASE CountPoll(p)  BY <1>2, <1>3, <2>6 DEF CountPoll
  <2>7. CASE GetRun(p)
    <3>1. CASE EndUnit(p)  BY <1>3, <3>1
    <3>2. CASE unit'[p].pc = "usage"  BY <2>7, <3>2, GetRunUnit DEF StageSeen
    <3> QED  BY <2>7, <3>1, <3>2, GetRunUnit
  <2>8. CASE RecordUsage(p)  BY <1>3, <2>8 DEF RecordUsage
  <2>9. CASE PlanSettlement(p) \/ PlanSettles(p)
    BY <1>2, <1>3, <2>9 DEF PlanSettlement, PlanSettles
  <2>10. CASE ReadOutstanding(p)  BY <1>2, <2>10 DEF ReadOutstanding
  <2>11. CASE ResumeMismatchTrip(p)  BY <1>2, <2>11 DEF ResumeMismatchTrip
  <2>12. CASE Stage1Check(p)  BY <1>2, <2>12 DEF Stage1Check
  <2>13. CASE CountReads(p)  BY <1>2, <1>3, <2>13 DEF CountReads
  <2>14. CASE Fetch(p)  BY <1>2, <1>3, <2>14 DEF Fetch
  <2>15. CASE Stage1Commit(p)  BY <1>2, <1>3, <2>15 DEF Stage1Commit, Exhausted
  <2>16. CASE LaterStage(p)  BY <1>2, <1>3, <2>16 DEF LaterStage, Exhausted
  <2>17. CASE Reject(p)  BY <1>3, <2>17 DEF Reject
  <2>18. CASE BeginNothing(p) \/ BeginOrphan(p) \/ BeginAtCap(p)
    BY <1>3, <2>18 DEF BeginNothing, BeginOrphan, BeginAtCap
  <2>19. CASE Abort(p)  BY <2>19, AbortFields DEF StageSeen
  <2>20. CASE DeletesSent(p)  BY <1>2, <2>20 DEF DeletesSent
  <2>21. CASE Finish(p)  BY <1>3, <2>21 DEF Finish
  <2>22. CASE TripRestart(p)  BY <2>22, TripRestartUnit DEF StageSeen
  <2> QED
    BY <1>4, <2>1, <2>2, <2>3, <2>4, <2>5, <2>6, <2>7, <2>8, <2>9, <2>10, <2>11, <2>12, <2>13,
       <2>14, <2>15, <2>16, <2>17, <2>18, <2>19, <2>20, <2>21, <2>22 DEF UnitStep
<1>5. ASSUME NEW p \in Processes, Select(p) PROVE unit'[q].seen \notin TerminalImport
  <2>1. PICK r \in Runs, pc \in {"poll", "outstanding", "overdue"} : Handed(p, r, pc)
    BY <1>5 DEF Select, SelectActive, SelectOutstanding, SelectOverdue
  <2>2. [IdleUnit EXCEPT !.pc = pc, !.run = r].pc = pc  BY IdleUnitType DEF Unit
  <2> QED  BY <2>1, <2>2 DEF Handed, StageSeen, TypeOK
<1>6. ASSUME NEW p \in Processes, Crash(p) PROVE unit'[q].seen \notin TerminalImport
  BY <1>3, <1>6 DEF Crash, EndUnit
<1>7. ASSUME NEW r \in Runs, StartCheck(r) \/ StartStep(r) PROVE UNCHANGED unit
  BY <1>7 DEF StartCheck, StartStep, Reserve, CreateRun, SendStart, RecordStartError,
              TripStartRefusal, RecordStart, TripMismatch, StartReject, StartAbort,
              StartTripRestart
<1>8. ASSUME NEW r \in Runs, RemoteFinishes(r) \/ DeadlinePasses(r) PROVE UNCHANGED unit
  BY <1>8 DEF RemoteFinishes, DeadlinePasses
<1>9. ASSUME NEW p \in Processes, Sweep(p) PROVE UNCHANGED unit
  BY <1>9 DEF Sweep, TripStranded, ReleaseUnattached
<1>10. CASE OwnerReset  BY <1>1, <1>10 DEF OwnerReset
<1>11. CASE UNCHANGED vars  BY <1>1, <1>11 DEF vars
<1> QED  BY <1>1, <1>4, <1>5, <1>6, <1>7, <1>8, <1>9, <1>10, <1>11 DEF Next

\* TypeOK holds in every reachable state: no step of the start job, the tick, a
\* sweep or a crash leaves a row, reservation, trip or unit outside its type.
THEOREM TypeCorrect == Spec => [](TypeOK /\ StageSeen)
<1>1. Init => TypeOK /\ StageSeen
  <2>1. NewRow \in Row  BY DEF NewRow, Row, ImportState
  <2>2. Init => TypeOK
    BY <2>1, IdleUnitType, CapAssumption
    DEF Init, TypeOK, ReservationStatus, TripState, Remote, StartPC
  <2>3. Init => StageSeen  BY DEF Init, StageSeen, IdleUnit
  <2> QED  BY <2>2, <2>3
<1>2. TypeOK /\ StageSeen /\ [Next]_vars => TypeOK' /\ StageSeen'
  <2> SUFFICES ASSUME TypeOK, StageSeen, [Next]_vars PROVE TypeOK'  BY StageSeenStep
  <2>1. ASSUME NEW r \in Runs, StartCheck(r) \/ StartStep(r) PROVE TypeOK'
    BY <2>1, StartStepType
  <2>2. ASSUME NEW p \in Processes, UnitStep(p) PROVE TypeOK'  BY <2>2, UnitStepType
  <2>3. CASE UNCHANGED vars  BY <2>3 DEF vars, TypeOK
  <2> QED  BY <2>1, <2>2, <2>3, OtherStepType DEF Next
<1> QED  BY <1>1, <1>2, PTL DEF Spec

-----------------------------------------------------------------------------
(* The two barriers and the one outcome.                                    *)

\* AnchorExact and OutcomeOnce, of one row.
Settled(w) ==
    /\ w.anchored <=> w.importState \in TerminalImport /\ w.storageState = "deleted"
    /\ w.outcomes = IF w.importState \in TerminalImport THEN 1 ELSE 0

\* The fields Settled reads are untouched.
SameOutcome(v, w) ==
    /\ v.importState = w.importState /\ v.outcomes = w.outcomes
    /\ v.anchored = w.anchored /\ v.storageState = w.storageState

LEMMA OutcomeFrame ==
  ASSUME NEW w \in Row
  PROVE  /\ \A b : SameOutcome([w EXCEPT !.created = b], w)
         /\ \A b : SameOutcome([w EXCEPT !.refused = b], w)
         /\ \A b : SameOutcome([w EXCEPT !.orphaned = b], w)
         /\ \A b : SameOutcome([w EXCEPT !.due = b], w)
         /\ \A n : SameOutcome([w EXCEPT !.polls = n], w)
         /\ \A n : SameOutcome([w EXCEPT !.reads = n], w)
         /\ \A n : SameOutcome([w EXCEPT !.attempts = n], w)
         /\ \A s : SameOutcome([w EXCEPT !.remoteStatus = s], w)
         /\ \A v : SameOutcome([w EXCEPT !.verified = v], w)
         /\ \A b : SameOutcome(Started(w, b), w)
  BY DEF SameOutcome, Row, Started

LEMMA SettledFrame ==
  ASSUME NEW w, NEW v, Settled(w), SameOutcome(v, w)
  PROVE  Settled(v)
  BY DEF Settled, SameOutcome

\* The barrier transactions re-establish it: a rejection, ...
LEMMA RejectedSettled == ASSUME NEW w \in Row, Settled(w) PROVE Settled(Rejected(w))
<1> DEFINE v == [w EXCEPT !.importState = "rejected", !.outcomes = w.outcomes + 1]
<1>1. CASE w.importState \in TerminalImport  BY <1>1 DEF Rejected
<1>2. CASE w.importState \notin TerminalImport
  <2>1. Rejected(w) = Stamp(v)  BY <1>2 DEF Rejected
  <2>2. /\ v.importState = "rejected" /\ v.outcomes = 1 /\ v.anchored = FALSE
        /\ v.storageState = w.storageState
    BY <1>2 DEF Row, Settled
  <2>3. v \in Row  BY RowUpdate, RowFields, Zenon DEF ImportState
  <2>4. /\ Stamp(v).importState = "rejected" /\ Stamp(v).outcomes = 1
        /\ Stamp(v).storageState = v.storageState
        /\ Stamp(v).anchored <=> v.storageState = "deleted"
    BY <2>2, <2>3 DEF Stamp, Row, TerminalImport
  <2> QED  BY <2>1, <2>4 DEF Settled, TerminalImport
<1> QED  BY <1>1, <1>2

\* ... stage 5 and the stages before it, ...
LEMMA AdvancedSettled ==
  ASSUME NEW w \in Row, Settled(w), w.importState \notin TerminalImport, w.importState # "pending"
  PROVE  Settled(Advanced(w))
<1> DEFINE to == NextImportState[w.importState]
           v == [w EXCEPT !.importState = to, !.outcomes = w.outcomes + 1]
           u == [w EXCEPT !.importState = to]
<1>0. w.outcomes = 0 /\ w.anchored = FALSE  BY RowFields DEF Settled
<1>1. CASE to = "finalized"
  <2>1. Advanced(w) = Stamp(v)  BY <1>1 DEF Advanced
  <2>2. /\ v.importState = "finalized" /\ v.outcomes = 1 /\ v.anchored = FALSE
        /\ v.storageState = w.storageState
    BY <1>0, <1>1 DEF Row
  <2>3. v \in Row  BY <1>1, RowUpdate, RowFields, Zenon DEF ImportState
  <2>4. /\ Stamp(v).importState = "finalized" /\ Stamp(v).outcomes = 1
        /\ Stamp(v).storageState = v.storageState
        /\ Stamp(v).anchored <=> v.storageState = "deleted"
    BY <2>2, <2>3 DEF Stamp, Row, TerminalImport
  <2> QED  BY <2>1, <2>4 DEF Settled, TerminalImport
<1>2. CASE to # "finalized"
  <2>1. to \notin TerminalImport
    BY <1>2, RowFields DEF NextImportState, TerminalImport, ImportState
  <2>2. u.importState = to /\ u.outcomes = 0 /\ u.anchored = FALSE  BY <1>0 DEF Row
  <2> QED  BY <1>2, <2>1, <2>2 DEF Advanced, Settled
<1> QED  BY <1>1, <1>2

\* ... the verified deletion, and giving up on one that is not verified.
LEMMA DeletedSettled ==
  ASSUME NEW w \in Row, Settled(w)
  PROVE  Settled(Stamp([w EXCEPT !.storageState = "deleted"]))
<1> DEFINE v == [w EXCEPT !.storageState = "deleted"]
<1>1. v \in Row  BY RowUpdate, Zenon
<1>2. /\ v.importState = w.importState /\ v.outcomes = w.outcomes /\ v.anchored = w.anchored
      /\ v.storageState = "deleted"
  BY DEF Row
<1>3. /\ Stamp(v).importState = v.importState /\ Stamp(v).outcomes = v.outcomes
      /\ Stamp(v).storageState = "deleted"
      /\ Stamp(v).anchored <=> v.anchored \/ v.importState \in TerminalImport
  BY <1>1, <1>2 DEF Stamp, Row
<1> QED  BY <1>2, <1>3 DEF Settled

LEMMA MarkSettled ==
  ASSUME NEW w \in Row, Settled(w), w.storageState # "deleted"
  PROVE  Settled(MarkDeleteFailed(w))
<1>1. /\ MarkDeleteFailed(w).importState = w.importState
      /\ MarkDeleteFailed(w).outcomes = w.outcomes /\ MarkDeleteFailed(w).anchored = w.anchored
      /\ MarkDeleteFailed(w).storageState = "delete_failed"
  BY DEF MarkDeleteFailed, Row
<1> QED  BY <1>1, RowFields DEF Settled

\* Stage 1's commit opens neither barrier.
LEMMA CommittedSettled ==
  ASSUME NEW w \in Row, Settled(w), w.importState = "pending"
  PROVE  Settled([w EXCEPT !.importState = "observations_committed"])
<1> DEFINE v == [w EXCEPT !.importState = "observations_committed"]
<1>1. /\ v.importState = "observations_committed"
      /\ v.outcomes = w.outcomes /\ v.anchored = w.anchored
  BY DEF Row
<1> QED  BY <1>1, RowFields DEF Settled, TerminalImport

\* What a step may do to the outcome of a row.
OutcomeStep(v, w) ==
    \/ SameOutcome(v, w)
    \/ v = Rejected(w)
    \/ w.importState \notin TerminalImport /\ w.importState # "pending" /\ v = Advanced(w)
    \/ w.importState = "pending" /\ v = [w EXCEPT !.importState = "observations_committed"]
    \/ \E x \in Row : SameOutcome(x, w) /\ v = Stamp([x EXCEPT !.storageState = "deleted"])
    \/ \E x \in Row : /\ SameOutcome(x, w) /\ w.storageState # "deleted"
                      /\ v = MarkDeleteFailed(x)

LEMMA OutcomeStepSettled ==
  ASSUME NEW w \in Row, NEW v, Settled(w), OutcomeStep(v, w)
  PROVE  Settled(v)
<1>1. ASSUME NEW x \in Row, SameOutcome(x, w) PROVE Settled(x)  BY <1>1, SettledFrame
<1>2. ASSUME NEW x \in Row, SameOutcome(x, w), v = Stamp([x EXCEPT !.storageState = "deleted"])
      PROVE  Settled(v)
  BY <1>1, <1>2, DeletedSettled
<1>3. ASSUME NEW x \in Row, SameOutcome(x, w), w.storageState # "deleted",
             v = MarkDeleteFailed(x)
      PROVE  Settled(v)
  BY <1>1, <1>3, MarkSettled DEF SameOutcome
<1>4. CASE SameOutcome(v, w)  BY <1>4, SettledFrame
<1>5. CASE v = Rejected(w)  BY <1>5, RejectedSettled
<1>6. CASE w.importState \notin TerminalImport /\ w.importState # "pending" /\ v = Advanced(w)
  BY <1>6, AdvancedSettled
<1>7. CASE w.importState = "pending" /\ v = [w EXCEPT !.importState = "observations_committed"]
  BY <1>7, CommittedSettled
<1> QED  BY <1>2, <1>3, <1>4, <1>5, <1>6, <1>7 DEF OutcomeStep

\* One row at a time.
LEMMA OneRow ==
  ASSUME TypeOK, NEW r \in Runs, NEW v, OutcomeStep(v, row[r]),
         row' = row \/ row' = [row EXCEPT ![r] = v]
  PROVE  \A q \in Runs : OutcomeStep(row'[q], row[q])
  BY DEF OutcomeStep, SameOutcome, TypeOK

LEMMA StartOutcome ==
  ASSUME TypeOK, NEW r \in Runs, StartCheck(r) \/ StartStep(r)
  PROVE  \A q \in Runs : OutcomeStep(row'[q], row[q])
<1>0. row[r] \in Row  BY DEF TypeOK
<1>1. ASSUME UNCHANGED row PROVE \A q \in Runs : OutcomeStep(row'[q], row[q])
  BY <1>1 DEF OutcomeStep, SameOutcome
<1>2. CASE CreateRun(r)
  <2>1. SameOutcome([row[r] EXCEPT !.created = TRUE], row[r])  BY <1>0, OutcomeFrame
  <2> QED  BY <1>2, <2>1, OneRow DEF CreateRun, OutcomeStep
<1>3. CASE RecordStartError(r)
  <2>1. SameOutcome([row[r] EXCEPT !.refused = start[r] = "refused"], row[r])
    BY <1>0, OutcomeFrame
  <2> QED  BY <1>3, <2>1, OneRow DEF RecordStartError, OutcomeStep
<1>4. CASE RecordStart(r)
  <2>1. SameOutcome(Started(row[r], start[r] = "mismatched"), row[r])  BY <1>0, OutcomeFrame
  <2> QED  BY <1>4, <2>1, OneRow DEF RecordStart, OutcomeStep
<1>5. CASE StartReject(r)
  <2>1. OutcomeStep(Rejected(row[r]), row[r])  BY DEF OutcomeStep
  <2> QED  BY <1>5, <2>1, OneRow DEF StartReject
<1>6. CASE StartAbort(r)
  <2>1. SameOutcome([row[r] EXCEPT !.remoteStatus = "terminal"], row[r])  BY <1>0, OutcomeFrame
  <2>2. row' = row \/ row' = [row EXCEPT ![r].remoteStatus = "terminal"]
    BY <1>6, Zenon DEF StartAbort
  <2> QED  BY <2>1, <2>2, OneRow DEF OutcomeStep
<1>7. CASE \/ StartCheck(r) \/ Reserve(r) \/ SendStart(r) \/ TripStartRefusal(r)
           \/ TripMismatch(r) \/ StartTripRestart(r)
  BY <1>1, <1>7 DEF StartCheck, Reserve, SendStart, TripStartRefusal, TripMismatch,
                    StartTripRestart
<1> QED  BY <1>2, <1>3, <1>4, <1>5, <1>6, <1>7 DEF StartStep

LEMMA UnitOutcome ==
  ASSUME TypeOK, StageSeen, NEW p \in Processes, UnitStep(p)
  PROVE  \A q \in Runs : OutcomeStep(row'[q], row[q])
<1> DEFINE r == unit[p].run
<1>0. r \in Runs /\ row[r] \in Row /\ unit[p] \in Unit  BY UnitUpdate DEF TypeOK
<1>1. ASSUME UNCHANGED row PROVE \A q \in Runs : OutcomeStep(row'[q], row[q])
  BY <1>1 DEF OutcomeStep, SameOutcome
<1>2. CASE CountPoll(p) \/ PlanSettlement(p)
  <2>1. SameOutcome([row[r] EXCEPT !.polls = row[r].polls + 1], row[r])  BY <1>0, OutcomeFrame
  <2>2. row' = row \/ row' = [row EXCEPT ![r] = [row[r] EXCEPT !.polls = row[r].polls + 1]]
    BY <1>0, <1>2 DEF CountPoll, PlanSettlement, TypeOK
  <2> QED  BY <1>0, <2>1, <2>2, OneRow DEF OutcomeStep
<1>3. CASE GetRun(p) \/ Confirm(p) \/ Abort(p)
  <2> DEFINE t == [row[r] EXCEPT !.remoteStatus = "terminal"]
             a == [row[r] EXCEPT !.remoteStatus = "active"]
  <2>1. SameOutcome(t, row[r]) /\ SameOutcome(a, row[r])  BY <1>0, OutcomeFrame
  <2>2. Observed(r) = [row EXCEPT ![r] = t] \/ Observed(r) = [row EXCEPT ![r] = a]
    BY <1>0 DEF Observed, TypeOK
  <2>3. row' = row \/ row' = Observed(r) \/ row' = [row EXCEPT ![r] = t]
    <3>1. CASE Abort(p)
      <4>1. row' = row \/ row' = [row EXCEPT ![r].remoteStatus = "terminal"]
        BY <3>1, Zenon DEF Abort
      <4> QED  BY <1>0, <4>1 DEF TypeOK
    <3>2. CASE GetRun(p) \/ Confirm(p)  BY <3>2 DEF GetRun, Confirm
    <3> QED  BY <1>3, <3>1, <3>2
  <2>4. CASE row' = row  BY <1>1, <2>4
  <2>5. CASE row' = [row EXCEPT ![r] = t]  BY <1>0, <2>1, <2>5, OneRow DEF OutcomeStep
  <2>6. CASE row' = [row EXCEPT ![r] = a]  BY <1>0, <2>1, <2>6, OneRow DEF OutcomeStep
  <2> QED  BY <2>2, <2>3, <2>4, <2>5, <2>6
<1>4. CASE CountReads(p)
  <2>1. SameOutcome([row[r] EXCEPT !.reads = row[r].reads + 1], row[r])  BY <1>0, OutcomeFrame
  <2>2. row' = row \/ row' = [row EXCEPT ![r] = [row[r] EXCEPT !.reads = row[r].reads + 1]]
    BY <1>0, <1>4 DEF CountReads, TypeOK
  <2> QED  BY <1>0, <2>1, <2>2, OneRow DEF OutcomeStep
<1>5. CASE Stage1Commit(p)
  <2> DEFINE v == [row[r] EXCEPT !.importState = "observations_committed"]
  <2>1. \/ row' = row
        \/ row[r].importState = "pending" /\ row' = [row EXCEPT ![r] = v]
    BY <1>0, <1>5 DEF Stage1Commit, Exhausted, TypeOK
  <2>2. row[r].importState = "pending" => OutcomeStep(v, row[r])  BY DEF OutcomeStep
  <2> QED  BY <1>0, <1>1, <2>1, <2>2, OneRow
<1>6. CASE LaterStage(p)
  <2>1. \/ row' = row
        \/ /\ row[r].importState = unit[p].seen /\ unit[p].seen # "pending"
           /\ unit[p].pc = "stage" /\ row' = [row EXCEPT ![r] = Advanced(row[r])]
    BY <1>6 DEF LaterStage, Exhausted, At
  <2>2. row[r].importState = unit[p].seen /\ unit[p].seen # "pending" /\ unit[p].pc = "stage"
          => OutcomeStep(Advanced(row[r]), row[r])
    BY DEF OutcomeStep, StageSeen
  <2> QED  BY <1>0, <1>1, <2>1, <2>2, OneRow
<1>7. CASE Reject(p) \/ OverdueReject(p)
  <2>1. OutcomeStep(Rejected(row[r]), row[r])  BY DEF OutcomeStep
  <2> QED  BY <1>0, <1>1, <1>7, <2>1, OneRow DEF Reject, OverdueReject
<1>8. CASE BeginOrphan(p)
  <2>1. SameOutcome([row[r] EXCEPT !.orphaned = TRUE], row[r])  BY <1>0, OutcomeFrame
  <2>2. row' = [row EXCEPT ![r] = [row[r] EXCEPT !.orphaned = TRUE]]
    BY <1>0, <1>8 DEF BeginOrphan, TypeOK
  <2> QED  BY <1>0, <2>1, <2>2, OneRow DEF OutcomeStep
<1>9. CASE BeginAtCap(p)
  <2>1. row[r].storageState # "deleted" /\ row' = [row EXCEPT ![r] = MarkDeleteFailed(row[r])]
    BY <1>9 DEF BeginAtCap, Attemptable
  <2>2. OutcomeStep(MarkDeleteFailed(row[r]), row[r])
    BY <1>0, <2>1 DEF OutcomeStep, SameOutcome
  <2> QED  BY <1>0, <2>1, <2>2, OneRow
<1>10. CASE BeginAttempt(p)
  <2>1. SameOutcome([row[r] EXCEPT !.attempts = row[r].attempts + 1], row[r])
    BY <1>0, OutcomeFrame
  <2>2. row' = [row EXCEPT ![r] = [row[r] EXCEPT !.attempts = row[r].attempts + 1]]
    BY <1>0, <1>10 DEF BeginAttempt, TypeOK
  <2> QED  BY <1>0, <2>1, <2>2, OneRow DEF OutcomeStep
<1>11. CASE Finish(p)
  <2> DEFINE v == row[r].verified \cup unit[p].deleted
             w == [row[r] EXCEPT !.verified = v]
             d == Stamp([w EXCEPT !.storageState = "deleted"])
  <2>1. v \in SUBSET Storage  BY <1>0, RowFields, UnitUpdate
  <2>2. w \in Row  BY <1>0, <2>1, RowUpdate, Zenon
  <2>3. SameOutcome(w, row[r])  BY <1>0, OutcomeFrame
  <2>4. \/ row' = [row EXCEPT ![r] = d]
        \/ w.storageState # "deleted" /\ row' = [row EXCEPT ![r] = MarkDeleteFailed(w)]
        \/ row' = [row EXCEPT ![r] = w]
    BY <1>11, Zenon DEF Finish
  <2>5. OutcomeStep(d, row[r])  BY <2>2, <2>3 DEF OutcomeStep
  <2>6. OutcomeStep(w, row[r])  BY <2>3 DEF OutcomeStep
  <2>7. w.storageState # "deleted" => OutcomeStep(MarkDeleteFailed(w), row[r])
    BY <2>2, <2>3 DEF OutcomeStep, SameOutcome
  <2> HIDE DEF d, w
  <2> QED  BY <1>0, <2>4, <2>5, <2>6, <2>7, OneRow
<1>12. CASE \/ RecordUsage(p) \/ ReadOutstanding(p) \/ ResumeMismatchTrip(p) \/ ImportRead(p)
            \/ Stage1Check(p) \/ Fetch(p) \/ BeginNothing(p) \/ DeleteStorage(p)
            \/ DeletesSent(p) \/ PlanSettles(p) \/ TripRestart(p)
  BY <1>1, <1>12 DEF RecordUsage, ReadOutstanding, ResumeMismatchTrip, ImportRead, Stage1Check,
                     Fetch, BeginNothing, DeleteStorage, DeletesSent, PlanSettles, TripRestart
<1> QED
  BY <1>2, <1>3, <1>4, <1>5, <1>6, <1>7, <1>8, <1>9, <1>10, <1>11, <1>12 DEF UnitStep

LEMMA OutcomeSteps ==
  ASSUME TypeOK, StageSeen, [Next]_vars
  PROVE  \A q \in Runs : OutcomeStep(row'[q], row[q])
<1>1. ASSUME UNCHANGED row PROVE \A q \in Runs : OutcomeStep(row'[q], row[q])
  BY <1>1 DEF OutcomeStep, SameOutcome
<1>2. ASSUME NEW r \in Runs, DeadlinePasses(r)
      PROVE  \A q \in Runs : OutcomeStep(row'[q], row[q])
  <2>0. row[r] \in Row  BY DEF TypeOK
  <2>1. SameOutcome([row[r] EXCEPT !.due = TRUE], row[r])  BY <2>0, OutcomeFrame
  <2> QED  BY <1>2, <2>1, OneRow DEF DeadlinePasses, OutcomeStep
<1>3. ASSUME NEW p \in Processes, TripStranded(p), NEW q \in Runs
      PROVE  OutcomeStep(row'[q], row[q])
  <2>1. row'[q] = IF StrandedExhausted(q) THEN MarkDeleteFailed(row[q]) ELSE row[q]
    BY <1>3 DEF TripStranded
  <2>2. StrandedExhausted(q) => row[q].storageState # "deleted"  BY DEF StrandedExhausted
  <2> QED  BY <2>1, <2>2 DEF OutcomeStep, SameOutcome, TypeOK
<1>4. ASSUME NEW p \in Processes, Select(p) \/ ReleaseUnattached(p) \/ Crash(p)
      PROVE  UNCHANGED row
  BY <1>4 DEF Select, SelectActive, SelectOutstanding, SelectOverdue, Handed,
              ReleaseUnattached, Crash
<1>5. ASSUME NEW r \in Runs, RemoteFinishes(r) PROVE UNCHANGED row  BY <1>5 DEF RemoteFinishes
<1>6. CASE OwnerReset  BY <1>1, <1>6 DEF OwnerReset
<1>7. CASE UNCHANGED vars  BY <1>1, <1>7 DEF vars
<1> QED  BY <1>1, <1>2, <1>3, <1>4, <1>5, <1>6, <1>7, StartOutcome, UnitOutcome DEF Next, Sweep

LEMMA SettledAlways == Spec => [](\A r \in Runs : Settled(row[r]))
<1> DEFINE Inv == \A r \in Runs : Settled(row[r])
<1>1. Init => Inv  BY DEF Init, NewRow, Settled, TerminalImport
<1>2. TypeOK /\ StageSeen /\ Inv /\ [Next]_vars => Inv'
  <2> SUFFICES ASSUME TypeOK, StageSeen, Inv, [Next]_vars, NEW q \in Runs
               PROVE  Settled(row'[q])
    BY DEF Settled
  <2>1. OutcomeStep(row'[q], row[q])  BY OutcomeSteps
  <2> QED  BY <2>1, OutcomeStepSettled DEF TypeOK
<1> HIDE DEF Inv
<1>3. Spec => []Inv  BY <1>1, <1>2, TypeCorrect, PTL DEF Spec
<1> QED  BY <1>3 DEF Inv

\* The settlement anchor is set by exactly the later of the two barrier commits,
\* for any number of executors, crashes and retries (stamp_work_completion called
\* by _reject, stage 5 and _finish).
THEOREM AnchorAlwaysExact == Spec => []AnchorExact
<1>1. (\A r \in Runs : Settled(row[r])) => AnchorExact  BY DEF Settled, AnchorExact
<1> QED  BY <1>1, SettledAlways, PTL

\* No run's outcome reaches its lane twice or is lost once its import is decided,
\* whichever of the four deciders gets there first (_apply_outcome).
THEOREM OutcomeAlwaysOnce == Spec => []OutcomeOnce
<1>1. (\A r \in Runs : Settled(row[r])) => OutcomeOnce  BY DEF Settled, OutcomeOnce
<1> QED  BY <1>1, SettledAlways, PTL
-----------------------------------------------------------------------------
(* The inductive invariant, one run and one unit at a time.                 *)

\* StartInv and EvidenceInv, of a row w, its reservation v, its remote run m and
\* its start job c.
RunOK(w, v, m, c) ==
    /\ c \in {"idle", "checked"} => v = "none"
    /\ c = "admitted" => v \in {"reserved", "released"}
    /\ c = "created" => w.created
    /\ w.created <=> v \in {"attached", "reconciled"}
    /\ c \in Unsent => m.run = "none"
    /\ c \in Unrecorded => ~w.extId
    /\ c \in {"ok", "mismatched"} => m.run # "none"
    /\ c \in {"trip_mismatch", "reject", "abort"} => w.extId
    /\ w.extId => m.run # "none"
    /\ m.run # "none" => w.created
    /\ w.remoteStatus # "null" => w.extId
    /\ w.remoteStatus = "terminal" => m.run = "finished"
    /\ w.verified \cap m.store = {}
    /\ w.verified # {} => w.remoteStatus = "terminal"
    /\ w.storageState = "deleted" => w.verified = Storage
    /\ v = "reconciled" => w.storageState = "deleted"

\* AttemptInv, of a unit u, the row w it works on and that row's remote run m.
UnitOK(u, w, m) ==
    /\ u.pc \in {"poll_get", "abort", "confirm", "delete", "finish"} => w.extId
    /\ u.pc = "delete" => w.remoteStatus = "terminal"
    /\ u.pc \in {"begin", "abort", "confirm", "delete", "finish"} => w.importState # "pending"
    /\ u.deleted # {} => w.remoteStatus = "terminal"
    /\ u.deleted \cap m.store = {}

RunsOK == \A r \in Runs : RunOK(row[r], resv[r], remote[r], start[r])
UnitsOK == \A p \in Processes : UnitOK(unit[p], row[unit[p].run], remote[unit[p].run])

LEMMA Parts == /\ RunsOK <=> StartInv /\ EvidenceInv
               /\ UnitsOK <=> AttemptInv
<1>1. RunsOK <=> StartInv /\ EvidenceInv
  BY DEF RunsOK, RunOK, StartInv, EvidenceInv
<1>2. UnitsOK <=> AttemptInv
  BY DEF UnitsOK, UnitOK, AttemptInv
<1> QED  BY <1>1, <1>2

\* What every step but the recorded start and the verified deletion may do to a
\* row: v comes from w, m is the platform's run after the step.
Evolves(v, w, m) ==
    /\ v.created = w.created /\ v.extId = w.extId /\ v.verified = w.verified
    /\ w.remoteStatus = "terminal" => v.remoteStatus = "terminal"
    /\ v.remoteStatus = "terminal" => w.remoteStatus = "terminal" \/ m.run = "finished"
    /\ v.remoteStatus # "null" => w.remoteStatus # "null" \/ w.extId
    /\ v.storageState = "deleted" <=> w.storageState = "deleted"
    /\ w.importState # "pending" => v.importState # "pending"

\* A remote run that was started may finish; its storages stay.
RunsOn(n, m) ==
    /\ n.store = m.store
    /\ n.run = m.run \/ (m.run # "none" /\ n.run = "finished")

\* A reservation stays or settles, the latter only for a deleted row.
Books(x, v, w) ==
    \/ x = v
    \/ v = "attached" /\ x = "reconciled" /\ w.storageState = "deleted"

LEMMA RunFrame ==
  ASSUME NEW w, NEW v, NEW m, NEW c, RunOK(w, v, m, c),
         NEW x, NEW y, NEW n, Evolves(x, w, n), Books(y, v, w), RunsOn(n, m)
  PROVE  RunOK(x, y, n, c)
  BY DEF RunOK, Evolves, Books, RunsOn, Unsent, Unrecorded

LEMMA UnitFrame ==
  ASSUME NEW u, NEW w, NEW m, UnitOK(u, w, m),
         NEW x, NEW n, Evolves(x, w, n), n.store \subseteq m.store
  PROVE  UnitOK(u, x, n)
  BY DEF UnitOK, Evolves

\* Updates that leave alone what RunOK and UnitOK read.
LEMMA EvolveFrame ==
  ASSUME NEW w \in Row, NEW m
  PROVE  /\ Evolves(w, w, m)
         /\ \A b : Evolves([w EXCEPT !.refused = b], w, m)
         /\ \A b : Evolves([w EXCEPT !.orphaned = b], w, m)
         /\ \A b : Evolves([w EXCEPT !.due = b], w, m)
         /\ \A n : Evolves([w EXCEPT !.polls = n], w, m)
         /\ \A n : Evolves([w EXCEPT !.reads = n], w, m)
         /\ \A n : Evolves([w EXCEPT !.attempts = n], w, m)
         /\ \A s : s # "pending" => Evolves([w EXCEPT !.importState = s], w, m)
  BY DEF Evolves, Row

LEMMA StampFields ==
  ASSUME NEW w \in Row
  PROVE  /\ Stamp(w).created = w.created /\ Stamp(w).extId = w.extId
         /\ Stamp(w).verified = w.verified /\ Stamp(w).remoteStatus = w.remoteStatus
         /\ Stamp(w).storageState = w.storageState /\ Stamp(w).importState = w.importState
         /\ Stamp(w).orphaned = w.orphaned /\ Stamp(w).refused = w.refused
         /\ Stamp(w).mismatch = w.mismatch /\ Stamp(w).attempts = w.attempts
  BY DEF Stamp, Row

LEMMA RejectedFields ==
  ASSUME NEW w \in Row
  PROVE  /\ Rejected(w).created = w.created /\ Rejected(w).extId = w.extId
         /\ Rejected(w).verified = w.verified /\ Rejected(w).remoteStatus = w.remoteStatus
         /\ Rejected(w).storageState = w.storageState
         /\ Rejected(w).orphaned = w.orphaned /\ Rejected(w).refused = w.refused
         /\ Rejected(w).mismatch = w.mismatch /\ Rejected(w).attempts = w.attempts
         /\ Rejected(w).importState = IF w.importState \in TerminalImport
                                      THEN w.importState ELSE "rejected"
<1> DEFINE v == [w EXCEPT !.importState = "rejected", !.outcomes = w.outcomes + 1]
<1>1. CASE w.importState \in TerminalImport  BY <1>1 DEF Rejected
<1>2. CASE w.importState \notin TerminalImport
  <2>1. Rejected(w) = Stamp(v)  BY <1>2 DEF Rejected
  <2>2. "rejected" \in ImportState /\ w.outcomes + 1 \in Nat  BY RowFields DEF ImportState
  <2>3. /\ v \in Row
        /\ v.created = w.created /\ v.extId = w.extId
        /\ v.verified = w.verified /\ v.remoteStatus = w.remoteStatus
        /\ v.storageState = w.storageState /\ v.importState = "rejected"
        /\ v.orphaned = w.orphaned /\ v.refused = w.refused /\ v.mismatch = w.mismatch
        /\ v.attempts = w.attempts
    BY <2>2 DEF Row
  <2> HIDE DEF v
  <2> QED  BY <1>2, <2>1, <2>3, StampFields
<1> QED  BY <1>1, <1>2

LEMMA AdvancedFields ==
  ASSUME NEW w \in Row, w.importState \notin TerminalImport, w.importState # "pending"
  PROVE  /\ Advanced(w).created = w.created /\ Advanced(w).extId = w.extId
         /\ Advanced(w).verified = w.verified /\ Advanced(w).remoteStatus = w.remoteStatus
         /\ Advanced(w).storageState = w.storageState
         /\ Advanced(w).orphaned = w.orphaned /\ Advanced(w).refused = w.refused
         /\ Advanced(w).mismatch = w.mismatch /\ Advanced(w).attempts = w.attempts
         /\ Advanced(w).importState \notin {"pending", "rejected"}
<1> DEFINE to == NextImportState[w.importState]
           u == [w EXCEPT !.importState = to]
           v == [w EXCEPT !.importState = to, !.outcomes = w.outcomes + 1]
<1>1. to \in ImportState \ {"pending", "rejected"}
  BY RowFields DEF ImportState, TerminalImport, NextImportState
<1>2. CASE to = "finalized"
  <2>1. Advanced(w) = Stamp(v)  BY <1>2 DEF Advanced
  <2>2. w.outcomes + 1 \in Nat  BY RowFields
  <2>3. /\ v \in Row
        /\ v.created = w.created /\ v.extId = w.extId
        /\ v.verified = w.verified /\ v.remoteStatus = w.remoteStatus
        /\ v.storageState = w.storageState /\ v.importState = to
        /\ v.orphaned = w.orphaned /\ v.refused = w.refused /\ v.mismatch = w.mismatch
        /\ v.attempts = w.attempts
    <3> HIDE DEF to
    <3> QED  BY <1>1, <2>2 DEF Row
  <2> HIDE DEF v, to
  <2> QED  BY <1>1, <2>1, <2>3, StampFields
<1>3. CASE to # "finalized"
  <2>1. Advanced(w) = u  BY <1>3 DEF Advanced
  <2>2. /\ u.created = w.created /\ u.extId = w.extId
        /\ u.verified = w.verified /\ u.remoteStatus = w.remoteStatus
        /\ u.storageState = w.storageState /\ u.importState = to
        /\ u.orphaned = w.orphaned /\ u.refused = w.refused /\ u.mismatch = w.mismatch
        /\ u.attempts = w.attempts
    BY DEF Row
  <2> HIDE DEF u, to
  <2> QED  BY <1>1, <2>1, <2>2
<1> QED  BY <1>2, <1>3

LEMMA FailedFields ==
  ASSUME NEW w \in Row
  PROVE  /\ MarkDeleteFailed(w).created = w.created /\ MarkDeleteFailed(w).extId = w.extId
         /\ MarkDeleteFailed(w).verified = w.verified
         /\ MarkDeleteFailed(w).remoteStatus = w.remoteStatus
         /\ MarkDeleteFailed(w).storageState = "delete_failed"
         /\ MarkDeleteFailed(w).orphaned = w.orphaned
         /\ MarkDeleteFailed(w).refused = w.refused
         /\ MarkDeleteFailed(w).mismatch = w.mismatch
         /\ MarkDeleteFailed(w).attempts = w.attempts
         /\ MarkDeleteFailed(w).importState = w.importState
  BY DEF MarkDeleteFailed, Row

\* The three deciders and the giving-up mark evolve a row.
LEMMA EvolveDecided ==
  ASSUME NEW w \in Row, NEW m
  PROVE  /\ Evolves(Rejected(w), w, m)
         /\ w.importState \notin TerminalImport /\ w.importState # "pending"
               => Evolves(Advanced(w), w, m)
         /\ w.storageState # "deleted" => Evolves(MarkDeleteFailed(w), w, m)
<1>1. Evolves(Rejected(w), w, m)  BY RejectedFields DEF Evolves, TerminalImport
<1>2. w.importState \notin TerminalImport /\ w.importState # "pending"
          => Evolves(Advanced(w), w, m)
  BY AdvancedFields DEF Evolves
<1>3. w.storageState # "deleted" => Evolves(MarkDeleteFailed(w), w, m)
  BY FailedFields DEF Evolves
<1> QED  BY <1>1, <1>2, <1>3

\* An answer recorded from the platform.
LEMMA EvolveObserved ==
  ASSUME NEW w \in Row, NEW m
  PROVE  /\ w.extId /\ m.run = "finished"
               => Evolves([w EXCEPT !.remoteStatus = "terminal"], w, m)
         /\ w.remoteStatus = "terminal" => Evolves([w EXCEPT !.remoteStatus = "terminal"], w, m)
         /\ w.remoteStatus # "terminal" /\ w.extId
               => Evolves([w EXCEPT !.remoteStatus = "active"], w, m)
  BY DEF Evolves, Row

-----------------------------------------------------------------------------
(* The steps of a start job.                                                *)

\* A step at one run, and units none of which moved.
LEMMA OneRunOK ==
  ASSUME RunsOK, NEW r \in Runs,
         \A q \in Runs \ {r} : /\ row'[q] = row[q] /\ resv'[q] = resv[q]
                               /\ remote'[q] = remote[q] /\ start'[q] = start[q],
         RunOK(row'[r], resv'[r], remote'[r], start'[r])
  PROVE  RunsOK'
  BY DEF RunsOK

LEMMA StillUnitsOK ==
  ASSUME TypeOK, UnitsOK, NEW r \in Runs, unit' = unit,
         \A q \in Runs \ {r} : row'[q] = row[q] /\ remote'[q] = remote[q],
         \A u \in Unit : UnitOK(u, row[r], remote[r]) => UnitOK(u, row'[r], remote'[r])
  PROVE  UnitsOK'
<1> SUFFICES ASSUME NEW p \in Processes
             PROVE  UnitOK(unit[p], row'[unit[p].run], remote'[unit[p].run])
  BY DEF UnitsOK
<1>1. unit[p] \in Unit /\ unit[p].run \in Runs  BY UnitUpdate DEF TypeOK
<1>2. UnitOK(unit[p], row[unit[p].run], remote[unit[p].run])  BY DEF UnitsOK
<1> QED  BY <1>1, <1>2

LEMMA StartKeepsOK ==
  ASSUME TypeOK, RunsOK, UnitsOK, NEW r \in Runs, StartCheck(r) \/ StartStep(r)
  PROVE  RunsOK' /\ UnitsOK'
<1> DEFINE w == row[r]
           v == resv[r]
           m == remote[r]
           c == start[r]
<1>0. /\ w \in Row /\ m \in Remote /\ RunOK(w, v, m, c) /\ Evolves(w, w, m)
      /\ row \in [Runs -> Row] /\ remote \in [Runs -> Remote]
      /\ resv \in [Runs -> ReservationStatus] /\ start \in [Runs -> StartPC]
  BY EvolveFrame DEF TypeOK, RunsOK
<1>a. ASSUME UNCHANGED <<row, remote, unit>> PROVE UnitsOK'
  BY <1>a DEF UnitsOK
<1>b. ASSUME NEW x \in Row, NEW n \in Remote, Evolves(x, w, n), RunsOn(n, m),
             NEW u \in Unit, UnitOK(u, w, m)
      PROVE  UnitOK(u, x, n)
  BY <1>b, UnitFrame DEF RunsOn
<1>c. ASSUME NEW d \in StartPC, RunOK(w, v, m, d), start' = [start EXCEPT ![r] = d],
             UNCHANGED <<row, resv, remote, unit>>
      PROVE  RunsOK' /\ UnitsOK'
  BY <1>0, <1>a, <1>c, OneRunOK
<1>1. CASE StartCheck(r)
  <2>1. RunOK(w, v, m, "done") /\ RunOK(w, v, m, "checked")
    BY <1>0, <1>1 DEF StartCheck, RunOK, Unsent, Unrecorded
  <2> QED  BY <1>1, <1>c, <2>1 DEF StartCheck, StartPC
<1>2. CASE Reserve(r)
  <2>1. RunOK(w, v, m, "done") /\ RunOK(w, "reserved", m, "admitted")
    BY <1>0, <1>2 DEF Reserve, RunOK, Unsent, Unrecorded
  <2>2. CASE resv' = resv /\ start' = [start EXCEPT ![r] = "done"]
    BY <1>2, <1>c, <2>1, <2>2 DEF Reserve, StartPC
  <2>3. CASE resv' = [resv EXCEPT ![r] = "reserved"] /\ start' = [start EXCEPT ![r] = "admitted"]
    <3>1. RunsOK'  BY <1>0, <1>2, <2>1, <2>3, OneRunOK DEF Reserve
    <3> QED  BY <1>2, <1>a, <3>1 DEF Reserve
  <2> QED  BY <1>2, <2>2, <2>3 DEF Reserve
<1>3. CASE CreateRun(r)
  <2> DEFINE x == [w EXCEPT !.created = TRUE]
  <2>0. /\ x.created = TRUE /\ x.extId = w.extId /\ x.verified = w.verified
        /\ x.remoteStatus = w.remoteStatus /\ x.storageState = w.storageState
        /\ x.importState = w.importState
    BY <1>0 DEF Row
  <2>1. CASE UNCHANGED <<row, resv>> /\ start' = [start EXCEPT ![r] = "done"]
    <3>1. RunOK(w, v, m, "done")  BY <1>0, <1>3 DEF CreateRun, RunOK, Unsent, Unrecorded
    <3> QED  BY <1>3, <1>c, <2>1, <3>1 DEF CreateRun, StartPC
  <2>2. CASE /\ row' = [row EXCEPT ![r] = x] /\ resv' = [resv EXCEPT ![r] = "attached"]
             /\ start' = [start EXCEPT ![r] = "created"]
    <3> HIDE DEF x
    <3>1. RunOK(x, "attached", m, "created")
      BY <1>0, <1>3, <2>0 DEF CreateRun, RunOK, Unsent, Unrecorded
    <3>2. RunsOK'  BY <1>0, <1>3, <2>2, <3>1, OneRunOK DEF CreateRun
    <3>3. \A u \in Unit : UnitOK(u, w, m) => UnitOK(u, x, m)  BY <2>0 DEF UnitOK
    <3>4. row'[r] = x /\ remote'[r] = m /\ unit' = unit
      BY <1>0, <1>3, <2>2 DEF CreateRun
    <3>5. \A q \in Runs \ {r} : row'[q] = row[q] /\ remote'[q] = remote[q]
      BY <1>0, <1>3, <2>2 DEF CreateRun
    <3> QED  BY <3>2, <3>3, <3>4, <3>5, StillUnitsOK
  <2> QED  BY <1>0, <1>3, <2>1, <2>2 DEF CreateRun
<1>4. CASE SendStart(r)
  <2>0. PICK answer \in {"ok", "mismatched", "lost", "refused"}, ran, usable \in BOOLEAN :
          /\ answer \in {"ok", "mismatched"} => ran
          /\ answer = "refused" => ~ran
          /\ start' = [start EXCEPT ![r] = answer]
          /\ remote' = IF ran
                       THEN [remote EXCEPT ![r] = [run |-> "running", store |-> Storage,
                                                   usable |-> usable]]
                       ELSE remote
    BY <1>4 DEF SendStart
  <2> DEFINE n == [run |-> "running", store |-> Storage, usable |-> usable]
  <2>1. /\ c = "created" /\ ~w.extId /\ w.remoteStatus = "null" /\ w.verified = {}
        /\ UNCHANGED <<row, resv, unit>>
    BY <1>0, <1>4 DEF SendStart, RunOK, Unrecorded, Unsent
  <2>2. CASE ~ran
    <3>1. RunOK(w, v, m, answer)
      BY <1>0, <2>0, <2>1, <2>2 DEF RunOK, Unsent, Unrecorded
    <3>2. answer \in StartPC  BY DEF StartPC
    <3> QED  BY <1>c, <2>0, <2>1, <2>2, <3>1, <3>2
  <2>3. CASE ran
    <3>1. n.run = "running" /\ n.store = Storage  OBVIOUS
    <3>2. remote' = [remote EXCEPT ![r] = n]  BY <2>0, <2>3
    <3> HIDE DEF n
    <3>3. RunOK(w, v, n, answer)
      BY <1>0, <2>0, <2>1, <2>3, <3>1 DEF RunOK, Unsent, Unrecorded
    <3>4. RunsOK'  BY <1>0, <2>0, <2>1, <3>2, <3>3, OneRunOK
    <3>5. \A u \in Unit : UnitOK(u, w, m) => UnitOK(u, w, n)  BY <2>1 DEF UnitOK
    <3>6. row'[r] = w /\ remote'[r] = n  BY <1>0, <2>1, <3>2
    <3>7. \A q \in Runs \ {r} : row'[q] = row[q] /\ remote'[q] = remote[q]
      BY <1>0, <2>1, <3>2
    <3> QED  BY <2>1, <3>4, <3>5, <3>6, <3>7, StillUnitsOK
  <2> QED  BY <2>2, <2>3
<1>5. CASE RecordStartError(r)
  <2> DEFINE x == [w EXCEPT !.refused = c = "refused"]
             d == IF c = "refused" THEN "trip_refusal" ELSE "done"
  <2>1. Evolves(x, w, m)  BY <1>0, EvolveFrame
  <2>2. /\ row' = [row EXCEPT ![r] = x] /\ start' = [start EXCEPT ![r] = d]
        /\ UNCHANGED <<resv, remote, unit>>
    BY <1>0, <1>5 DEF RecordStartError
  <2>3. RunOK(w, v, m, d)
    BY <1>0, <1>5 DEF RecordStartError, RunOK, Unsent, Unrecorded
  <2>4. x \in Row
    BY <1>0, <2>2, StartStepType, <1>5 DEF StartStep, TypeOK
  <2> HIDE DEF x, d
  <2>5. RunOK(x, v, m, d)  BY <2>1, <2>3, RunFrame DEF Books, RunsOn
  <2>6. RunsOK'  BY <1>0, <2>2, <2>5, OneRunOK
  <2>7. \A u \in Unit : UnitOK(u, w, m) => UnitOK(u, x, m)
    BY <1>0, <1>b, <2>1, <2>4 DEF RunsOn
  <2>8. row'[r] = x /\ remote'[r] = m  BY <1>0, <2>2
  <2>9. \A q \in Runs \ {r} : row'[q] = row[q] /\ remote'[q] = remote[q]  BY <1>0, <2>2
  <2> QED  BY <2>2, <2>6, <2>7, <2>8, <2>9, StillUnitsOK
<1>6. CASE TripStartRefusal(r)
  <2>1. RunOK(w, v, m, "done")
    BY <1>0, <1>6 DEF TripStartRefusal, RunOK, Unsent, Unrecorded
  <2> QED  BY <1>6, <1>c, <2>1 DEF TripStartRefusal, StartPC
<1>7. CASE RecordStart(r)
  <2> DEFINE x == Started(w, c = "mismatched")
             d == IF c = "mismatched" THEN "trip_mismatch" ELSE "done"
  <2>0. /\ x.created = w.created /\ x.extId = TRUE /\ x.verified = w.verified
        /\ x.remoteStatus = "active" /\ x.storageState = w.storageState
        /\ x.importState = w.importState
    BY <1>0 DEF Row, Started
  <2>1. /\ ~w.extId /\ w.remoteStatus = "null" /\ w.verified = {} /\ m.run # "none"
    BY <1>0, <1>7 DEF RecordStart, RunOK, Unrecorded
  <2>2. /\ row' = [row EXCEPT ![r] = x] /\ start' = [start EXCEPT ![r] = d]
        /\ UNCHANGED <<resv, remote, unit>>
    BY <1>7 DEF RecordStart
  <2> HIDE DEF x
  <2>3. RunOK(x, v, m, d)
    BY <1>0, <1>7, <2>0, <2>1 DEF RecordStart, RunOK, Unsent, Unrecorded
  <2> HIDE DEF d
  <2>6. RunsOK'  BY <1>0, <2>2, <2>3, OneRunOK
  <2>7. \A u \in Unit : UnitOK(u, w, m) => UnitOK(u, x, m)  BY <2>0, <2>1 DEF UnitOK
  <2>8. row'[r] = x /\ remote'[r] = m  BY <1>0, <2>2
  <2>9. \A q \in Runs \ {r} : row'[q] = row[q] /\ remote'[q] = remote[q]  BY <1>0, <2>2
  <2> QED  BY <2>2, <2>6, <2>7, <2>8, <2>9, StillUnitsOK
<1>8. CASE TripMismatch(r)
  <2>1. RunOK(w, v, m, "reject")
    BY <1>0, <1>8 DEF TripMismatch, RunOK, Unsent, Unrecorded
  <2> QED  BY <1>8, <1>c, <2>1 DEF TripMismatch, StartPC
<1>9. CASE StartReject(r)
  <2> DEFINE x == Rejected(w)
  <2>1. Evolves(x, w, m)  BY <1>0, EvolveDecided
  <2>2. /\ row' = [row EXCEPT ![r] = x] /\ start' = [start EXCEPT ![r] = "abort"]
        /\ UNCHANGED <<resv, remote, unit>>
    BY <1>9 DEF StartReject
  <2>3. RunOK(w, v, m, "abort")  BY <1>0, <1>9 DEF StartReject, RunOK, Unsent, Unrecorded
  <2>4. x \in Row  BY <1>0, RejectedType
  <2> HIDE DEF x
  <2>5. RunOK(x, v, m, "abort")  BY <2>1, <2>3, RunFrame DEF Books, RunsOn
  <2>6. RunsOK'  BY <1>0, <2>2, <2>5, OneRunOK
  <2>7. \A u \in Unit : UnitOK(u, w, m) => UnitOK(u, x, m)
    BY <1>0, <1>b, <2>1, <2>4 DEF RunsOn
  <2>8. row'[r] = x /\ remote'[r] = m  BY <1>0, <2>2
  <2>9. \A q \in Runs \ {r} : row'[q] = row[q] /\ remote'[q] = remote[q]  BY <1>0, <2>2
  <2> QED  BY <2>2, <2>6, <2>7, <2>8, <2>9, StillUnitsOK
<1>10. CASE StartAbort(r)
  <2> DEFINE t == [w EXCEPT !.remoteStatus = "terminal"]
             f == [m EXCEPT !.run = "finished"]
  <2>0. w.extId /\ m.run # "none" /\ RunOK(w, v, m, "done")
             /\ RunOK(w, v, m, "trip_restart")
    BY <1>0, <1>10 DEF StartAbort, RunOK, Unsent, Unrecorded
  <2>f. f \in Remote /\ f.run = "finished" /\ f.store = m.store
    BY <1>0, RemoteUpdate DEF Remote
  <2>t. t \in Row  BY <1>0, RowUpdate, Zenon
  <2>1. PICK obeyed, answered \in BOOLEAN :
          /\ remote' = IF obeyed THEN [remote EXCEPT ![r].run = "finished"] ELSE remote
          /\ row' = IF answered /\ (obeyed \/ remote[r].run = "finished")
                    THEN [row EXCEPT ![r].remoteStatus = "terminal"] ELSE row
    BY <1>10 DEF StartAbort
  <2> DEFINE n == IF obeyed THEN f ELSE m
             x == IF answered /\ (obeyed \/ m.run = "finished") THEN t ELSE w
  <2>2. /\ remote' = [remote EXCEPT ![r] = n] /\ row' = [row EXCEPT ![r] = x]
        /\ UNCHANGED <<resv, unit>>
    BY <1>0, <1>10, <2>1 DEF StartAbort
  <2>c. PICK d \in {"trip_restart", "done"} : start' = [start EXCEPT ![r] = d]
    BY <1>10, Zenon DEF StartAbort
  <2>3. RunsOn(n, m) /\ n \in Remote  BY <1>0, <2>0, <2>f DEF RunsOn
  <2>4. n.run = "finished" => Evolves(t, w, n)  BY <1>0, <2>0, EvolveObserved
  <2>5. Evolves(w, w, n)  BY <1>0, EvolveFrame
  <2>6. Evolves(x, w, n) /\ x \in Row  BY <1>0, <2>4, <2>5, <2>f, <2>t
  <2> HIDE DEF x, n
  <2>7. RunOK(x, v, n, d)
    <3>1. RunOK(w, v, m, d)  BY <2>0
    <3> QED  BY <2>3, <2>6, <3>1, RunFrame DEF Books
  <2>8. RunsOK'  BY <1>0, <2>2, <2>c, <2>7, OneRunOK
  <2>9. \A u \in Unit : UnitOK(u, w, m) => UnitOK(u, x, n)  BY <1>b, <2>3, <2>6
  <2>10. row'[r] = x /\ remote'[r] = n  BY <1>0, <2>2
  <2>11. \A q \in Runs \ {r} : row'[q] = row[q] /\ remote'[q] = remote[q]  BY <1>0, <2>2
  <2> QED  BY <2>2, <2>8, <2>9, <2>10, <2>11, StillUnitsOK
<1>11. CASE StartTripRestart(r)
  <2>1. RunOK(w, v, m, "done")
    BY <1>0, <1>11 DEF StartTripRestart, RunOK, Unsent, Unrecorded
  <2> QED  BY <1>11, <1>c, <2>1 DEF StartTripRestart, StartPC
<1> QED
  BY <1>1, <1>2, <1>3, <1>4, <1>5, <1>6, <1>7, <1>8, <1>9, <1>10, <1>11 DEF StartStep

-----------------------------------------------------------------------------
(* The steps of a tick unit.                                                *)

LEMMA OneEvolves ==
  ASSUME TypeOK, NEW r \in Runs, NEW x, Evolves(x, row[r], remote'[r]),
         row' = row \/ row' = [row EXCEPT ![r] = x]
  PROVE  \A q \in Runs : Evolves(row'[q], row[q], remote'[q])
<1>1. \A q \in Runs : row[q] \in Row  BY DEF TypeOK
<1>2. \A q \in Runs : Evolves(row[q], row[q], remote'[q])  BY <1>1, EvolveFrame
<1> QED  BY <1>2 DEF TypeOK

LEMMA SettleBooks ==
  ASSUME TypeOK, NEW r \in Runs, TrySettle(r)
  PROVE  \A q \in Runs : Books(resv'[q], resv[q], row[q])
  BY DEF TypeOK, TrySettle, Settleable, Books

\* Every unit step but the delete call and its verdict.
LEMMA UnitEvolves ==
  ASSUME TypeOK, StageSeen, RunsOK, UnitsOK, NEW p \in Processes, UnitStep(p),
         ~DeleteStorage(p), ~Finish(p)
  PROVE  /\ \A q \in Runs : /\ Evolves(row'[q], row[q], remote'[q])
                            /\ RunsOn(remote'[q], remote[q])
                            /\ Books(resv'[q], resv[q], row[q])
         /\ start' = start
<1> DEFINE r == unit[p].run
           w == row[r]
           m == remote[r]
           n == remote'[r]
<1>0. /\ r \in Runs /\ w \in Row /\ unit[p] \in Unit /\ m \in Remote
      /\ row \in [Runs -> Row] /\ remote \in [Runs -> Remote]
      /\ RunOK(w, resv[r], m, start[r]) /\ UnitOK(unit[p], w, m)
  BY UnitUpdate DEF TypeOK, RunsOK, UnitsOK
<1>e. Evolves(w, w, n)  BY <1>0, EvolveFrame
<1>r. ASSUME row' = row PROVE \A q \in Runs : Evolves(row'[q], row[q], remote'[q])
  BY <1>0, <1>e, <1>r, OneEvolves
<1>m. ASSUME remote' = remote PROVE \A q \in Runs : RunsOn(remote'[q], remote[q])
  BY <1>m DEF RunsOn
<1>b. ASSUME resv' = resv PROVE \A q \in Runs : Books(resv'[q], resv[q], row[q])
  BY <1>b DEF Books
<1>1. CASE CountPoll(p)
  <2>1. Evolves([w EXCEPT !.polls = w.polls + 1], w, n)  BY <1>0, EvolveFrame
  <2>2. row' = row \/ row' = [row EXCEPT ![r] = [w EXCEPT !.polls = w.polls + 1]]
    BY <1>0, <1>1 DEF CountPoll
  <2>3. \A q \in Runs : Evolves(row'[q], row[q], remote'[q])  BY <1>0, <2>1, <2>2, OneEvolves
  <2> QED  BY <1>1, <1>m, <1>b, <2>3 DEF CountPoll
<1>2. CASE PlanSettlement(p)
  <2>1. Evolves([w EXCEPT !.polls = w.polls + 1], w, n)  BY <1>0, EvolveFrame
  <2>2. row' = row \/ row' = [row EXCEPT ![r] = [w EXCEPT !.polls = w.polls + 1]]
    BY <1>0, <1>2 DEF PlanSettlement
  <2>3. \A q \in Runs : Evolves(row'[q], row[q], remote'[q])  BY <1>0, <2>1, <2>2, OneEvolves
  <2> QED  BY <1>2, <1>m, <1>b, <2>3 DEF PlanSettlement
<1>3. CASE RecordUsage(p)
  <2>1. \A q \in Runs : Books(resv'[q], resv[q], row[q])
    BY <1>0, <1>3, SettleBooks DEF RecordUsage
  <2> QED  BY <1>3, <1>r, <1>m, <2>1 DEF RecordUsage
<1>4. CASE GetRun(p) \/ Confirm(p)
  <2> DEFINE t == [w EXCEPT !.remoteStatus = "terminal"]
             a == [w EXCEPT !.remoteStatus = "active"]
             x == IF w.remoteStatus = "terminal" \/ m.run = "finished" THEN t ELSE a
  <2>1. w.extId  BY <1>0, <1>4 DEF GetRun, Confirm, At, UnitOK
  <2>2. UNCHANGED <<resv, remote, start>>  BY <1>4 DEF GetRun, Confirm
  <2>3. Evolves(x, w, n)  BY <1>0, <2>1, <2>2, EvolveObserved
  <2>4. Observed(r) = [row EXCEPT ![r] = x]  BY <1>0 DEF Observed
  <2> HIDE DEF x
  <2>5. row' = row \/ row' = [row EXCEPT ![r] = x]
    BY <1>4, <2>4 DEF GetRun, Confirm
  <2>6. \A q \in Runs : Evolves(row'[q], row[q], remote'[q])  BY <1>0, <2>3, <2>5, OneEvolves
  <2> QED  BY <1>m, <1>b, <2>2, <2>6
<1>5. CASE Abort(p)
  <2> DEFINE t == [w EXCEPT !.remoteStatus = "terminal"]
  <2>1. w.extId /\ m.run # "none"  BY <1>0, <1>5 DEF Abort, At, UnitOK, RunOK
  <2>2. UNCHANGED <<resv, start>>  BY <1>5 DEF Abort
  <2>3. PICK obeyed, answered \in BOOLEAN :
          LET after == IF obeyed THEN "finished" ELSE remote[r].run
          IN  /\ remote' = [remote EXCEPT ![r].run = after]
              /\ \/ answered /\ row' = IF after = "finished"
                                       THEN [row EXCEPT ![r].remoteStatus = "terminal"] ELSE row
                 \/ row' = row
    BY <1>5, Zenon DEF Abort
  <2> DEFINE after == IF obeyed THEN "finished" ELSE m.run
             f == [m EXCEPT !.run = after]
  <2>4. after \in {"none", "running", "finished"}  BY <1>0, RemoteUpdate
  <2>5. f.run = after /\ f.store = m.store  BY <1>0, <2>4 DEF Remote
  <2>6. remote' = [remote EXCEPT ![r] = f]  BY <1>0, <2>3
  <2>7. row' = row \/ (after = "finished" /\ row' = [row EXCEPT ![r] = t])
    BY <1>0, <2>3
  <2> HIDE DEF f
  <2>8. n = f  BY <1>0, <2>6
  <2>9. \A q \in Runs : RunsOn(remote'[q], remote[q])
    BY <1>0, <2>1, <2>5, <2>6 DEF RunsOn
  <2>10. after = "finished" => Evolves(t, w, n)  BY <1>0, <2>1, <2>5, <2>8, EvolveObserved
  <2> HIDE DEF after, t
  <2>11. \A q \in Runs : Evolves(row'[q], row[q], remote'[q])
    BY <1>0, <1>r, <2>7, <2>10, OneEvolves
  <2> QED  BY <1>b, <2>2, <2>9, <2>11
<1>6. CASE CountReads(p)
  <2>1. Evolves([w EXCEPT !.reads = w.reads + 1], w, n)  BY <1>0, EvolveFrame
  <2>2. row' = row \/ row' = [row EXCEPT ![r] = [w EXCEPT !.reads = w.reads + 1]]
    BY <1>0, <1>6 DEF CountReads
  <2>3. \A q \in Runs : Evolves(row'[q], row[q], remote'[q])  BY <1>0, <2>1, <2>2, OneEvolves
  <2> QED  BY <1>6, <1>m, <1>b, <2>3 DEF CountReads
<1>7. CASE Stage1Commit(p)
  <2> DEFINE x == [w EXCEPT !.importState = "observations_committed"]
  <2>1. Evolves(x, w, n)  BY <1>0, EvolveFrame
  <2>2. row' = row \/ row' = [row EXCEPT ![r] = x]
    BY <1>0, <1>7 DEF Stage1Commit, Exhausted
  <2>3. \A q \in Runs : Evolves(row'[q], row[q], remote'[q])  BY <1>0, <2>1, <2>2, OneEvolves
  <2>4. UNCHANGED <<resv, remote, start>>  BY <1>7 DEF Stage1Commit, Exhausted
  <2> QED  BY <1>m, <1>b, <2>3, <2>4
<1>8. CASE LaterStage(p)
  <2> DEFINE x == Advanced(w)
  <2>1. \/ row' = row
        \/ /\ w.importState = unit[p].seen /\ unit[p].seen # "pending"
           /\ unit[p].pc = "stage" /\ row' = [row EXCEPT ![r] = x]
    BY <1>8 DEF LaterStage, Exhausted, At
  <2>2. w.importState = unit[p].seen /\ unit[p].seen # "pending" /\ unit[p].pc = "stage"
          => Evolves(x, w, n)
    BY <1>0, EvolveDecided DEF StageSeen
  <2> HIDE DEF x
  <2>3. \A q \in Runs : Evolves(row'[q], row[q], remote'[q])
    BY <1>0, <1>r, <2>1, <2>2, OneEvolves
  <2>4. UNCHANGED <<resv, remote, start>>  BY <1>8 DEF LaterStage, Exhausted
  <2> QED  BY <1>m, <1>b, <2>3, <2>4
<1>9. CASE Reject(p) \/ OverdueReject(p)
  <2>1. Evolves(Rejected(w), w, n)  BY <1>0, EvolveDecided
  <2>2. row' = row \/ row' = [row EXCEPT ![r] = Rejected(w)]
    BY <1>9 DEF Reject, OverdueReject
  <2>3. \A q \in Runs : Evolves(row'[q], row[q], remote'[q])  BY <1>0, <2>1, <2>2, OneEvolves
  <2>4. UNCHANGED <<resv, remote, start>>  BY <1>9 DEF Reject, OverdueReject
  <2> QED  BY <1>m, <1>b, <2>3, <2>4
<1>10. CASE BeginOrphan(p)
  <2>1. Evolves([w EXCEPT !.orphaned = TRUE], w, n)  BY <1>0, EvolveFrame
  <2>2. row' = [row EXCEPT ![r] = [w EXCEPT !.orphaned = TRUE]]
    BY <1>0, <1>10 DEF BeginOrphan
  <2>3. \A q \in Runs : Evolves(row'[q], row[q], remote'[q])  BY <1>0, <2>1, <2>2, OneEvolves
  <2> QED  BY <1>10, <1>m, <1>b, <2>3 DEF BeginOrphan
<1>11. CASE BeginAtCap(p)
  <2>1. w.storageState # "deleted" /\ row' = [row EXCEPT ![r] = MarkDeleteFailed(w)]
    BY <1>11 DEF BeginAtCap, Attemptable
  <2>2. Evolves(MarkDeleteFailed(w), w, n)  BY <1>0, <2>1, EvolveDecided
  <2>3. \A q \in Runs : Evolves(row'[q], row[q], remote'[q])  BY <1>0, <2>1, <2>2, OneEvolves
  <2> QED  BY <1>11, <1>m, <1>b, <2>3 DEF BeginAtCap
<1>12. CASE BeginAttempt(p)
  <2>1. Evolves([w EXCEPT !.attempts = w.attempts + 1], w, n)  BY <1>0, EvolveFrame
  <2>2. row' = [row EXCEPT ![r] = [w EXCEPT !.attempts = w.attempts + 1]]
    BY <1>0, <1>12 DEF BeginAttempt
  <2>3. \A q \in Runs : Evolves(row'[q], row[q], remote'[q])  BY <1>0, <2>1, <2>2, OneEvolves
  <2> QED  BY <1>12, <1>m, <1>b, <2>3 DEF BeginAttempt
<1>13. CASE \/ ReadOutstanding(p) \/ ResumeMismatchTrip(p) \/ ImportRead(p) \/ Stage1Check(p)
            \/ Fetch(p) \/ BeginNothing(p) \/ DeletesSent(p)
  <2>1. UNCHANGED <<row, resv, remote, start>>
    BY <1>13 DEF ReadOutstanding, ResumeMismatchTrip, ImportRead, Stage1Check, Fetch,
                 BeginNothing, DeletesSent
  <2> QED  BY <1>r, <1>m, <1>b, <2>1
<1>14. CASE PlanSettles(p)
  <2>1. TrySettle(r)  BY <1>14 DEF PlanSettles, TrySettle
  <2>2. \A q \in Runs : Books(resv'[q], resv[q], row[q])  BY <1>0, <2>1, SettleBooks
  <2> QED  BY <1>14, <1>r, <1>m, <2>2 DEF PlanSettles
<1>15. CASE TripRestart(p)  BY <1>15, <1>r, <1>m, <1>b DEF TripRestart
<1> QED
  BY <1>1, <1>2, <1>3, <1>4, <1>5, <1>6, <1>7, <1>8, <1>9, <1>10, <1>11, <1>12, <1>13, <1>14,
     <1>15
  DEF UnitStep

\* A unit step moves one unit; the rows and storages under the others evolve.
LEMMA OneUnitOK ==
  ASSUME TypeOK, UnitsOK, NEW p \in Processes,
         \A o \in Processes \ {p} : unit'[o] = unit[o],
         \A q \in Runs, u \in Unit :
            UnitOK(u, row[q], remote[q]) => UnitOK(u, row'[q], remote'[q]),
         UnitOK(unit'[p], row'[unit'[p].run], remote'[unit'[p].run])
  PROVE  UnitsOK'
<1> SUFFICES ASSUME NEW o \in Processes
             PROVE  UnitOK(unit'[o], row'[unit'[o].run], remote'[unit'[o].run])
  BY DEF UnitsOK
<1>1. unit[o] \in Unit /\ unit[o].run \in Runs  BY UnitUpdate DEF TypeOK
<1>2. UnitOK(unit[o], row[unit[o].run], remote[unit[o].run])  BY DEF UnitsOK
<1>3. CASE o = p  BY <1>3
<1>4. CASE o # p  BY <1>1, <1>2, <1>4
<1> QED  BY <1>3, <1>4

LEMMA IdleOK == \A w, m : UnitOK(IdleUnit, w, m)
<1>1. IdleUnit.pc = "idle" /\ IdleUnit.deleted = {}  BY DEF IdleUnit
<1> QED  BY <1>1 DEF UnitOK

\* The program counters that carry no obligation.
PlainPC == UnitPC \ {"poll_get", "begin", "abort", "confirm", "delete", "finish"}

\* What a row x must show for a unit at pc to work on it.
Fits(pc, x) ==
    /\ pc \in {"poll_get", "abort", "confirm", "delete", "finish"} => x.extId
    /\ pc = "delete" => x.remoteStatus = "terminal"
    /\ pc \in {"begin", "abort", "confirm", "delete", "finish"} => x.importState # "pending"

\* The unit that steps ends, or goes on with the same run and the same confirmed
\* deletions at a counter its row allows; the other units stay.
GoesOn(p) ==
    /\ \A o \in Processes \ {p} : unit'[o] = unit[o]
    /\ \/ unit'[p] = IdleUnit
       \/ /\ unit'[p].run = unit[p].run /\ unit'[p].deleted = unit[p].deleted
          /\ Fits(unit'[p].pc, row'[unit[p].run])

LEMMA UnitGoesOn ==
  ASSUME TypeOK, RunsOK, UnitsOK, NEW p \in Processes, UnitStep(p),
         ~DeleteStorage(p), ~Finish(p)
  PROVE  GoesOn(p)
<1> DEFINE r == unit[p].run
           w == row[r]
           x == row'[r]
<1>0. /\ r \in Runs /\ w \in Row /\ unit[p] \in Unit
      /\ row \in [Runs -> Row] /\ unit \in [Processes -> Unit]
      /\ RunOK(w, resv[r], remote[r], start[r]) /\ UnitOK(unit[p], w, remote[r])
  BY UnitUpdate DEF TypeOK, RunsOK, UnitsOK
<1>e. ASSUME EndUnit(p) PROVE GoesOn(p)  BY <1>0, <1>e DEF EndUnit, GoesOn
<1>u. ASSUME NEW u, NEW pc, unit' = [unit EXCEPT ![p] = u],
             u.pc = pc, u.run = r, u.deleted = unit[p].deleted, Fits(pc, x)
      PROVE  GoesOn(p)
  <2>1. unit'[p] = u  BY <1>0, <1>u
  <2>2. \A o \in Processes \ {p} : unit'[o] = unit[o]  BY <1>0, <1>u
  <2> QED  BY <1>u, <2>1, <2>2 DEF GoesOn
<1>g. ASSUME NEW pc, Goto(p, pc), Fits(pc, x) PROVE GoesOn(p)
  <2>1. unit' = [unit EXCEPT ![p] = [unit[p] EXCEPT !.pc = pc]]  BY <1>0, <1>g DEF Goto
  <2>2. /\ [unit[p] EXCEPT !.pc = pc].pc = pc /\ [unit[p] EXCEPT !.pc = pc].run = r
        /\ [unit[p] EXCEPT !.pc = pc].deleted = unit[p].deleted
    BY <1>0 DEF Unit
  <2> QED  BY <1>g, <1>u, <2>1, <2>2
<1>f. \A pc \in PlainPC : Fits(pc, x)  BY DEF PlainPC, Fits
<1>p. \A pc \in PlainPC : Goto(p, pc) => GoesOn(p)  BY <1>f, <1>g
<1>x. PlainPC = {"idle", "poll", "usage", "outstanding", "plan", "mm_trip", "read", "stage",
                 "count", "fetch", "commit", "reject", "overdue"}
  BY DEF PlainPC, UnitPC
<1>1. CASE CountPoll(p)
  <2>1. CASE EndUnit(p)  BY <1>e, <2>1
  <2>2. CASE /\ w.extId /\ row' = [row EXCEPT ![r].polls = @ + 1]
             /\ Goto(p, "poll_get")
    <3>1. x.extId = w.extId  BY <1>0, <2>2 DEF Row
    <3>2. Fits("poll_get", x)  BY <2>2, <3>1 DEF Fits
    <3> QED  BY <1>g, <2>2, <3>2
  <2> QED  BY <1>1, <2>1, <2>2 DEF CountPoll
<1>2. CASE PlanSettlement(p)
  <2>1. CASE EndUnit(p)  BY <1>e, <2>1
  <2>2. CASE /\ w.extId /\ row' = [row EXCEPT ![r].polls = @ + 1]
             /\ Goto(p, "poll_get")
    <3>1. x.extId = w.extId  BY <1>0, <2>2 DEF Row
    <3>2. Fits("poll_get", x)  BY <2>2, <3>1 DEF Fits
    <3> QED  BY <1>g, <2>2, <3>2
  <2> QED  BY <1>2, <2>1, <2>2 DEF PlanSettlement
<1>3. CASE \/ PlanSettles(p) \/ RecordUsage(p) \/ ResumeMismatchTrip(p) \/ Stage1Check(p)
           \/ CountReads(p) \/ Fetch(p) \/ Stage1Commit(p) \/ LaterStage(p) \/ Reject(p)
           \/ BeginNothing(p) \/ BeginOrphan(p) \/ BeginAtCap(p)
  <2>1. EndUnit(p) \/ \E pc \in PlainPC : Goto(p, pc)
    BY <1>3, <1>x DEF PlanSettles, RecordUsage, ResumeMismatchTrip, Stage1Check, CountReads, Fetch,
                      Stage1Commit, LaterStage, Reject, BeginNothing, BeginOrphan, BeginAtCap,
                      Exhausted
  <2> QED  BY <1>e, <1>p, <2>1
<1>4. CASE ReadOutstanding(p)
  <2>1. \/ \E pc \in PlainPC : Goto(p, pc)
        \/ w.importState \in TerminalImport /\ Goto(p, "begin")
    BY <1>4, <1>x DEF ReadOutstanding, Decided
  <2>2. CASE w.importState \in TerminalImport /\ Goto(p, "begin")
    <3>1. x = w  BY <1>4 DEF ReadOutstanding
    <3>2. Fits("begin", x)  BY <2>2, <3>1 DEF TerminalImport, Fits
    <3> QED  BY <1>g, <2>2, <3>2
  <2> QED  BY <1>p, <2>1, <2>2
<1>5. CASE ImportRead(p)
  <2>1. CASE EndUnit(p)  BY <1>e, <2>1
  <2>2. CASE unit' = [unit EXCEPT ![p].pc = "stage", ![p].seen = w.importState]
    <3> DEFINE u == [unit[p] EXCEPT !.pc = "stage", !.seen = w.importState]
    <3>1. unit' = [unit EXCEPT ![p] = u]  BY <1>0, <2>2
    <3>2. u.pc = "stage" /\ u.run = r /\ u.deleted = unit[p].deleted  BY <1>0 DEF Unit
    <3> HIDE DEF u
    <3> QED  BY <1>f, <1>u, <1>x, <3>1, <3>2
  <2> QED  BY <1>5, <2>1, <2>2 DEF ImportRead
<1>6. CASE OverdueReject(p)
  <2> DEFINE u == [unit[p] EXCEPT !.pc = "begin", !.late = TRUE]
  <2>1. /\ row' = IF w.importState = "pending" THEN [row EXCEPT ![r] = Rejected(w)] ELSE row
        /\ unit' = [unit EXCEPT ![p] = u]
    BY <1>0, <1>6 DEF OverdueReject
  <2>2. Rejected(w).importState # "pending"  BY <1>0, RejectedFields DEF TerminalImport
  <2>3. x.importState # "pending"  BY <1>0, <2>1, <2>2
  <2>4. Fits("begin", x)  BY <2>3 DEF Fits
  <2>5. u.pc = "begin" /\ u.run = r /\ u.deleted = unit[p].deleted  BY <1>0 DEF Unit
  <2> HIDE DEF u
  <2> QED  BY <1>u, <2>1, <2>4, <2>5
<1>7. CASE BeginAttempt(p)
  <2> DEFINE pc == IF w.remoteStatus = "terminal" THEN "delete" ELSE "abort"
             s == Storage \ w.verified
             a == [w EXCEPT !.attempts = w.attempts + 1]
             u == [unit[p] EXCEPT !.pc = pc, !.pending = s]
  <2>1. /\ Attemptable(p, r) /\ unit[p].pc = "begin"
        /\ row' = [row EXCEPT ![r] = a]
        /\ unit' = [unit EXCEPT ![p] = u]
    BY <1>0, <1>7 DEF BeginAttempt, At
  <2>2. a.extId = w.extId /\ a.remoteStatus = w.remoteStatus /\ a.importState = w.importState
    BY <1>0 DEF Row
  <2>3. x = a  BY <1>0, <2>1
  <2>4. w.extId /\ w.importState # "pending"  BY <1>0, <2>1 DEF Attemptable, UnitOK
  <2>5. Fits(pc, x)  BY <2>2, <2>3, <2>4 DEF Fits
  <2> HIDE DEF pc, s
  <2>6. u.pc = pc /\ u.run = r /\ u.deleted = unit[p].deleted  BY <1>0 DEF Unit
  <2> HIDE DEF u
  <2> QED  BY <1>u, <2>1, <2>5, <2>6
<1>8. CASE Abort(p)
  <2>0. w.extId /\ w.importState # "pending"  BY <1>0, <1>8 DEF Abort, At, UnitOK
  <2>t. /\ [w EXCEPT !.remoteStatus = "terminal"].extId = w.extId
        /\ [w EXCEPT !.remoteStatus = "terminal"].importState = w.importState
        /\ [w EXCEPT !.remoteStatus = "terminal"].remoteStatus = "terminal"
    BY <1>0 DEF Row
  <2>1. \/ /\ row' = [row EXCEPT ![r].remoteStatus = "terminal"]
           /\ \E b : unit' = [unit EXCEPT ![p].pc = "delete", ![p].restarted = b]
        \/ row' = row /\ \E b : unit' = [unit EXCEPT ![p].pc = "confirm", ![p].restarted = b]
        \/ row' = row /\ Goto(p, "confirm")
    BY <1>8, Zenon DEF Abort
  <2>2. CASE /\ row' = row
             /\ \/ Goto(p, "confirm")
                \/ \E b : unit' = [unit EXCEPT ![p].pc = "confirm", ![p].restarted = b]
    <3>1. x.extId /\ x.importState # "pending"  BY <2>0, <2>2
    <3>2. unit'[p].pc = "confirm"
      <4>1. CASE Goto(p, "confirm")  BY <1>0, <4>1 DEF Goto, Unit
      <4>2. ASSUME NEW b, unit' = [unit EXCEPT ![p].pc = "confirm", ![p].restarted = b]
            PROVE  unit'[p].pc = "confirm"
        BY <1>0, <4>2 DEF Unit
      <4> QED  BY <2>2, <4>1, <4>2
    <3>3. Fits("confirm", x)  BY <3>1 DEF Fits
    <3> QED  BY <1>8, <3>2, <3>3, AbortFields DEF GoesOn
  <2>3. CASE row' = [row EXCEPT ![r].remoteStatus = "terminal"]
    <3>1. x = [w EXCEPT !.remoteStatus = "terminal"]  BY <1>0, <2>3
    <3>2. Fits("delete", x) /\ Fits("confirm", x)  BY <2>0, <2>t, <3>1 DEF Fits
    <3>3. unit'[p].pc \in {"delete", "confirm"}  BY <1>8, AbortFields
    <3>4. Fits(unit'[p].pc, x)  BY <3>2, <3>3
    <3> QED  BY <1>8, <3>4, AbortFields DEF GoesOn
  <2> QED  BY <2>1, <2>2, <2>3
<1>9. CASE Confirm(p)
  <2>0. w.extId /\ w.importState # "pending"  BY <1>0, <1>9 DEF Confirm, At, UnitOK
  <2> DEFINE t == [w EXCEPT !.remoteStatus = "terminal"]
             a == [w EXCEPT !.remoteStatus = "active"]
  <2>t. /\ t.extId = w.extId /\ t.importState = w.importState /\ t.remoteStatus = "terminal"
        /\ a.extId = w.extId /\ a.importState = w.importState
    BY <1>0 DEF Row
  <2>1. row' = row \/ row' = [row EXCEPT ![r] = t] \/ row' = [row EXCEPT ![r] = a]
    BY <1>0, <1>9 DEF Confirm, Observed
  <2>2. x = w \/ x = t \/ x = a  BY <1>0, <2>1
  <2>3. x.extId /\ x.importState # "pending"  BY <2>0, <2>2, <2>t
  <2>4. CASE unit'[p].pc = "delete"
    <3>1. row' = Observed(r) /\ remote[r].run = "finished"  BY <1>9, <2>4, ConfirmUnit
    <3>2. x = t  BY <1>0, <3>1 DEF Observed
    <3>3. Fits("delete", x)  BY <2>3, <2>t, <3>2 DEF Fits
    <3> QED  BY <1>9, <2>4, <3>3, ConfirmUnit DEF GoesOn
  <2>5. CASE unit'[p].pc = "finish"
    <3>1. Fits("finish", x)  BY <2>3 DEF Fits
    <3> QED  BY <1>9, <2>5, <3>1, ConfirmUnit DEF GoesOn
  <2> QED  BY <1>9, <2>4, <2>5, ConfirmUnit
<1>10. CASE DeletesSent(p)
  <2>1. unit[p].pc = "delete" /\ row' = row /\ Goto(p, "finish")  BY <1>10 DEF DeletesSent, At
  <2>2. Fits("finish", x)  BY <1>0, <2>1 DEF UnitOK, Fits
  <2> QED  BY <1>g, <2>1, <2>2
<1>11. CASE GetRun(p)
  <2>1. CASE EndUnit(p)  BY <1>e, <2>1
  <2>2. CASE ~EndUnit(p)
    <3>1. Fits("usage", x)  BY <1>f, <1>x
    <3> QED  BY <1>11, <2>2, <3>1, GetRunUnit DEF GoesOn
  <2> QED  BY <1>11, <2>1, <2>2, GetRunUnit
<1>12. CASE TripRestart(p)
  <2>1. x = w  BY <1>12 DEF TripRestart
  <2>2. Fits(unit[p].pc, x)  BY <1>0, <2>1 DEF UnitOK, Fits
  <2> QED  BY <1>12, <2>2, TripRestartUnit DEF GoesOn
<1> QED
  BY <1>1, <1>2, <1>3, <1>4, <1>5, <1>6, <1>7, <1>8, <1>9, <1>10, <1>11, <1>12 DEF UnitStep

\* One delete call: the storage goes or stays, and is held for deleted only when
\* it is gone (an answered 404 counts only where no token masks storage).
LEMMA DeleteEffect ==
  ASSUME TypeOK, NEW p \in Processes, DeleteStorage(p)
  PROVE  LET r == unit[p].run
         IN  \E s \in Storage, v \in BOOLEAN :
               /\ unit' = [unit EXCEPT ![p] = Answered(@, s, v)]
               /\ \/ remote' = remote
                  \/ remote' = [remote EXCEPT ![r].store = @ \ {s}]
               /\ v => s \notin remote'[r].store
<1> DEFINE r == unit[p].run
           s == IF "dataset" \in unit[p].pending THEN "dataset" ELSE "kv_store"
<1>0. r \in Runs /\ remote[r] \in Remote /\ remote \in [Runs -> Remote]
  BY UnitUpdate DEF TypeOK
<1>1. s \in Storage  BY DEF Storage
<1> DEFINE gone == [remote EXCEPT ![r].store = @ \ {s}]
<1>2. s \notin gone[r].store  BY <1>0 DEF Remote
<1>3. \/ remote' = gone /\ unit' = [unit EXCEPT ![p] = Answered(@, s, TRUE)]
      \/ remote' = gone /\ unit' = [unit EXCEPT ![p] = Answered(@, s, FALSE)]
      \/ remote' = remote /\ unit' = [unit EXCEPT ![p] = Answered(@, s, FALSE)]
      \/ /\ s \notin remote[r].store \/ Masking
         /\ remote' = remote /\ unit' = [unit EXCEPT ![p] = Answered(@, s, Trust404)]
  BY DEF DeleteStorage
<1> HIDE DEF s, gone
<1>4. gone = [remote EXCEPT ![r].store = @ \ {s}]  BY DEF gone
<1> QED  BY <1>1, <1>2, <1>3, <1>4, TrustAssumption

LEMMA DeleteKeepsOK ==
  ASSUME TypeOK, RunsOK, UnitsOK, NEW p \in Processes, DeleteStorage(p)
  PROVE  RunsOK' /\ UnitsOK'
<1> DEFINE r == unit[p].run
           w == row[r]
           m == remote[r]
           n == remote'[r]
<1>0. /\ r \in Runs /\ w \in Row /\ m \in Remote /\ unit[p] \in Unit
      /\ remote \in [Runs -> Remote] /\ unit \in [Processes -> Unit]
      /\ RunOK(w, resv[r], m, start[r]) /\ UnitOK(unit[p], w, m)
  BY UnitUpdate DEF TypeOK, RunsOK, UnitsOK
<1>1. UNCHANGED <<row, resv, start>> /\ unit[p].pc = "delete"  BY DEF DeleteStorage, At
<1>2. PICK s \in Storage, v \in BOOLEAN :
        /\ unit' = [unit EXCEPT ![p] = Answered(@, s, v)]
        /\ \/ remote' = remote
           \/ remote' = [remote EXCEPT ![r].store = @ \ {s}]
        /\ v => s \notin n.store
  BY DeleteEffect
<1>3. n.run = m.run /\ n.store \subseteq m.store  BY <1>0, <1>2 DEF Remote
<1>4. \A q \in Runs \ {r} : remote'[q] = remote[q]  BY <1>0, <1>2
<1>5. RunOK(w, resv[r], n, start[r])  BY <1>0, <1>3 DEF RunOK
<1>6. RunsOK'  BY <1>0, <1>1, <1>4, <1>5, OneRunOK
<1>7. unit'[p] = Answered(unit[p], s, v)  BY <1>0, <1>2
<1>8. /\ unit'[p].pc = "delete" /\ unit'[p].run = r
      /\ unit'[p].deleted = IF v THEN unit[p].deleted \cup {s} ELSE unit[p].deleted
  BY <1>0, <1>1, <1>7 DEF Answered, Unit
<1>9. UnitOK(unit'[p], w, n)
  BY <1>0, <1>1, <1>2, <1>3, <1>8 DEF UnitOK
<1>10. \A q \in Runs, u \in Unit :
          UnitOK(u, row[q], remote[q]) => UnitOK(u, row'[q], remote'[q])
  BY <1>0, <1>1, <1>3, <1>4 DEF UnitOK
<1>11. \A o \in Processes \ {p} : unit'[o] = unit[o]  BY <1>0, <1>2
<1>12. UnitOK(unit'[p], row'[unit'[p].run], remote'[unit'[p].run])  BY <1>1, <1>8, <1>9
<1>13. UnitsOK'  BY <1>10, <1>11, <1>12, OneUnitOK
<1> QED  BY <1>6, <1>13

\* _finish: what the attempt confirmed is added to what earlier ones did.
LEMMA FinishKeepsOK ==
  ASSUME TypeOK, RunsOK, UnitsOK, NEW p \in Processes, Finish(p)
  PROVE  RunsOK' /\ UnitsOK'
<1> DEFINE r == unit[p].run
           w == row[r]
           m == remote[r]
           v == w.verified \cup unit[p].deleted
           y == [w EXCEPT !.verified = v]
           z == [y EXCEPT !.storageState = "deleted"]
           x == row'[r]
<1>0. /\ r \in Runs /\ w \in Row /\ m \in Remote /\ unit[p] \in Unit
      /\ row \in [Runs -> Row] /\ unit \in [Processes -> Unit]
      /\ RunOK(w, resv[r], m, start[r]) /\ UnitOK(unit[p], w, m)
  BY UnitUpdate DEF TypeOK, RunsOK, UnitsOK
<1>1. UNCHANGED <<remote, resv, start>> /\ EndUnit(p)  BY DEF Finish
<1>2. v \in SUBSET Storage  BY <1>0, RowFields, UnitUpdate
<1>3. v \cap m.store = {} /\ (v # {} => w.remoteStatus = "terminal")
  BY <1>0 DEF RunOK, UnitOK
<1>4. /\ y \in Row
      /\ y.created = w.created /\ y.extId = w.extId /\ y.verified = v
      /\ y.remoteStatus = w.remoteStatus /\ y.storageState = w.storageState
      /\ y.importState = w.importState
  <2> HIDE DEF v
  <2> QED  BY <1>0, <1>2 DEF Row
<1>5. \/ v = Storage /\ row' = [row EXCEPT ![r] = Stamp(z)]
      \/ v # Storage /\ row' = [row EXCEPT ![r] = MarkDeleteFailed(y)]
                     /\ w.storageState # "deleted"
      \/ v # Storage /\ row' = [row EXCEPT ![r] = y]
  <2>1. \/ v = Storage /\ row' = [row EXCEPT ![r] = Stamp(z)]
        \/ v # Storage /\ row' = [row EXCEPT ![r] = MarkDeleteFailed(y)]
                       /\ y.storageState # "deleted"
        \/ v # Storage /\ row' = [row EXCEPT ![r] = y]
    BY Zenon DEF Finish
  <2> QED  BY <1>4, <2>1
<1> HIDE DEF v, y
<1>6. /\ Stamp(z).created = w.created /\ Stamp(z).extId = w.extId
      /\ Stamp(z).verified = v /\ Stamp(z).remoteStatus = w.remoteStatus
      /\ Stamp(z).storageState = "deleted" /\ Stamp(z).importState = w.importState
  <2>1. /\ z \in Row
        /\ z.created = y.created /\ z.extId = y.extId /\ z.verified = y.verified
        /\ z.remoteStatus = y.remoteStatus /\ z.storageState = "deleted"
        /\ z.importState = y.importState
    BY <1>4 DEF Row
  <2> HIDE DEF z
  <2> QED  BY <1>4, <2>1, StampFields
<1>7. /\ x.created = w.created /\ x.extId = w.extId /\ x.verified = v
      /\ x.remoteStatus = w.remoteStatus /\ x.importState = w.importState
      /\ x.storageState = "deleted" => v = Storage
      /\ w.storageState = "deleted" => x.storageState = "deleted"
  <2>1. w.storageState = "deleted" => v = Storage  BY <1>0, <1>2 DEF RunOK, v
  <2> HIDE DEF z
  <2>2. CASE v = Storage /\ row' = [row EXCEPT ![r] = Stamp(z)]
    <3>1. x = Stamp(z)  BY <1>0, <2>2
    <3> QED  BY <1>6, <2>2, <3>1
  <2>3. CASE v # Storage /\ row' = [row EXCEPT ![r] = MarkDeleteFailed(y)]
                        /\ w.storageState # "deleted"
    <3>1. x = MarkDeleteFailed(y)  BY <1>0, <2>3
    <3> QED  BY <1>4, <2>3, <3>1, FailedFields
  <2>4. CASE v # Storage /\ row' = [row EXCEPT ![r] = y]
    <3>1. x = y  BY <1>0, <2>4
    <3> QED  BY <1>4, <2>1, <2>4, <3>1
  <2> QED  BY <1>5, <2>2, <2>3, <2>4
<1>8. \A q \in Runs \ {r} : row'[q] = row[q]  BY <1>0, <1>5
<1> HIDE DEF x, z
<1>9. RunOK(x, resv[r], m, start[r])  BY <1>0, <1>3, <1>7 DEF RunOK
<1>10. RunsOK'  BY <1>0, <1>1, <1>8, <1>9, OneRunOK DEF x
<1>11. \A u \in Unit : UnitOK(u, w, m) => UnitOK(u, x, m)  BY <1>7 DEF UnitOK
<1>12. \A q \in Runs, u \in Unit :
          UnitOK(u, row[q], remote[q]) => UnitOK(u, row'[q], remote'[q])
  BY <1>1, <1>8, <1>11 DEF x
<1>13. /\ \A o \in Processes \ {p} : unit'[o] = unit[o]
       /\ unit'[p] = IdleUnit
  BY <1>0, <1>1 DEF EndUnit
<1>14. UnitsOK'  BY <1>12, <1>13, IdleOK, OneUnitOK
<1> QED  BY <1>10, <1>14

LEMMA UnitKeepsOK ==
  ASSUME TypeOK, StageSeen, RunsOK, UnitsOK, NEW p \in Processes, UnitStep(p)
  PROVE  RunsOK' /\ UnitsOK'
<1>1. CASE DeleteStorage(p)  BY <1>1, DeleteKeepsOK
<1>2. CASE Finish(p)  BY <1>2, FinishKeepsOK
<1>3. CASE ~DeleteStorage(p) /\ ~Finish(p)
  <2>1. /\ \A q \in Runs : /\ Evolves(row'[q], row[q], remote'[q])
                           /\ RunsOn(remote'[q], remote[q])
                           /\ Books(resv'[q], resv[q], row[q])
        /\ start' = start
    BY <1>3, UnitEvolves
  <2>2. RunsOK'  BY <2>1, RunFrame DEF RunsOK
  <2>3. \A q \in Runs, u \in Unit :
           UnitOK(u, row[q], remote[q]) => UnitOK(u, row'[q], remote'[q])
    BY <2>1, UnitFrame DEF RunsOn
  <2>4. GoesOn(p)  BY <1>3, UnitGoesOn
  <2> DEFINE r == unit[p].run
  <2>5. r \in Runs /\ unit[p] \in Unit /\ UnitOK(unit[p], row[r], remote[r])
    BY UnitUpdate DEF TypeOK, UnitsOK
  <2>6. UnitOK(unit[p], row'[r], remote'[r])  BY <2>3, <2>5
  <2>7. UnitOK(unit'[p], row'[unit'[p].run], remote'[unit'[p].run])
    <3>1. CASE unit'[p] = IdleUnit  BY <3>1, IdleOK
    <3>2. CASE /\ unit'[p].run = r /\ unit'[p].deleted = unit[p].deleted
               /\ Fits(unit'[p].pc, row'[r])
      BY <2>6, <3>2 DEF UnitOK, Fits
    <3> QED  BY <2>4, <3>1, <3>2 DEF GoesOn
  <2>8. UnitsOK'  BY <2>3, <2>4, <2>7, OneUnitOK DEF GoesOn
  <2> QED  BY <2>2, <2>8
<1> QED  BY <1>1, <1>2, <1>3

-----------------------------------------------------------------------------
(* The platform, the deadline, the selectors, the sweeps, process loss and   *)
(* the owner.                                                                *)

LEMMA OtherKeepsOK ==
  ASSUME TypeOK, RunsOK, UnitsOK,
         \/ \E r \in Runs : RemoteFinishes(r) \/ DeadlinePasses(r)
         \/ \E p \in Processes : Select(p) \/ Sweep(p) \/ Crash(p)
         \/ OwnerReset
  PROVE  RunsOK' /\ UnitsOK'
<1>0. /\ \A r \in Runs : row[r] \in Row /\ remote[r] \in Remote
      /\ \A p \in Processes : unit[p] \in Unit /\ unit[p].run \in Runs
      /\ row \in [Runs -> Row] /\ remote \in [Runs -> Remote]
      /\ unit \in [Processes -> Unit]
  BY UnitUpdate DEF TypeOK
<1>a. ASSUME \A q \in Runs : /\ Evolves(row'[q], row[q], remote'[q])
                             /\ RunsOn(remote'[q], remote[q]),
             UNCHANGED <<resv, start, unit>>
      PROVE  RunsOK' /\ UnitsOK'
  <2>1. RunsOK'  BY <1>a, RunFrame DEF RunsOK, Books
  <2>2. \A q \in Runs, u \in Unit :
           UnitOK(u, row[q], remote[q]) => UnitOK(u, row'[q], remote'[q])
    BY <1>a, UnitFrame DEF RunsOn
  <2>3. UnitsOK'  BY <1>0, <1>a, <2>2 DEF UnitsOK
  <2> QED  BY <2>1, <2>3
<1>e. \A q \in Runs : \A n : Evolves(row[q], row[q], n)  BY <1>0, EvolveFrame
<1>1. ASSUME NEW r \in Runs, RemoteFinishes(r) PROVE RunsOK' /\ UnitsOK'
  <2>1. /\ [remote[r] EXCEPT !.run = "finished"].run = "finished"
        /\ [remote[r] EXCEPT !.run = "finished"].store = remote[r].store
    BY <1>0 DEF Remote
  <2>2. \A q \in Runs : RunsOn(remote'[q], remote[q])
    BY <1>0, <1>1, <2>1 DEF RemoteFinishes, RunsOn
  <2> QED  BY <1>1, <1>a, <1>e, <2>2 DEF RemoteFinishes
<1>2. ASSUME NEW r \in Runs, DeadlinePasses(r) PROVE RunsOK' /\ UnitsOK'
  <2>1. Evolves([row[r] EXCEPT !.due = TRUE], row[r], remote'[r])  BY <1>0, EvolveFrame
  <2>2. row' = [row EXCEPT ![r] = [row[r] EXCEPT !.due = TRUE]]
    BY <1>0, <1>2 DEF DeadlinePasses
  <2>3. \A q \in Runs : Evolves(row'[q], row[q], remote'[q])  BY <2>1, <2>2, OneEvolves
  <2> QED  BY <1>2, <1>a, <2>3 DEF DeadlinePasses, RunsOn
<1>3. ASSUME NEW p \in Processes, Select(p) PROVE RunsOK' /\ UnitsOK'
  <2>1. PICK r \in Runs, pc \in {"poll", "outstanding", "overdue"} : Handed(p, r, pc)
    BY <1>3 DEF Select, SelectActive, SelectOutstanding, SelectOverdue
  <2> DEFINE u == [IdleUnit EXCEPT !.pc = pc, !.run = r]
  <2>2. u.pc = pc /\ u.deleted = {}  BY DEF IdleUnit
  <2>3. UnitOK(u, row[u.run], remote[u.run])  BY <2>2 DEF UnitOK
  <2>4. unit' = [unit EXCEPT ![p] = u] /\ UNCHANGED <<row, resv, remote, start>>
    BY <2>1 DEF Handed
  <2> HIDE DEF u
  <2>5. RunsOK'  BY <2>4 DEF RunsOK
  <2>6. UnitsOK'  BY <1>0, <2>3, <2>4 DEF UnitsOK
  <2> QED  BY <2>5, <2>6
<1>4. ASSUME NEW p \in Processes, TripStranded(p) PROVE RunsOK' /\ UnitsOK'
  <2>1. ASSUME NEW q \in Runs PROVE Evolves(row'[q], row[q], remote'[q])
    <3>1. row'[q] = IF StrandedExhausted(q) THEN MarkDeleteFailed(row[q]) ELSE row[q]
      BY <1>4 DEF TripStranded
    <3>2. StrandedExhausted(q) => row[q].storageState # "deleted"  BY DEF StrandedExhausted
    <3> QED  BY <1>0, <1>e, <3>1, <3>2, EvolveDecided
  <2> QED  BY <1>4, <1>a, <2>1 DEF TripStranded, RunsOn
<1>5. ASSUME NEW p \in Processes, ReleaseUnattached(p) PROVE RunsOK' /\ UnitsOK'
  <2>1. PICK r \in Runs : /\ resv[r] = "reserved"
                          /\ resv' = [resv EXCEPT ![r] = "released"]
    BY <1>5 DEF ReleaseUnattached
  <2>2. UNCHANGED <<row, remote, start, unit>>  BY <1>5 DEF ReleaseUnattached
  <2>3. RunOK(row[r], resv[r], remote[r], start[r])  BY DEF RunsOK
  <2>4. RunOK(row[r], "released", remote[r], start[r])  BY <2>1, <2>3 DEF RunOK
  <2>5. resv \in [Runs -> ReservationStatus]  BY DEF TypeOK
  <2>6. RunsOK'  BY <2>1, <2>2, <2>4, <2>5, OneRunOK
  <2> QED  BY <2>2, <2>6 DEF UnitsOK
<1>6. ASSUME NEW p \in Processes, Crash(p) PROVE RunsOK' /\ UnitsOK'
  <2>1. /\ UNCHANGED <<row, resv, remote>>
        /\ unit' = [unit EXCEPT ![p] = IdleUnit]
        /\ \A q \in Runs : start'[q] = "done" \/ start'[q] = start[q]
    BY <1>6 DEF Crash
  <2>2. \A q \in Runs : RunOK(row[q], resv[q], remote[q], "done")
    BY DEF RunsOK, RunOK, Unsent, Unrecorded
  <2>3. RunsOK'
    <3> SUFFICES ASSUME NEW q \in Runs
                 PROVE  RunOK(row'[q], resv'[q], remote'[q], start'[q])
      BY DEF RunsOK
    <3>1. CASE start'[q] = "done"  BY <2>1, <2>2, <3>1
    <3>2. CASE start'[q] = start[q]  BY <2>1, <3>2 DEF RunsOK
    <3> QED  BY <2>1, <3>1, <3>2
  <2>4. UnitsOK'  BY <1>0, <2>1, IdleOK DEF UnitsOK
  <2> QED  BY <2>3, <2>4
<1>7. CASE OwnerReset  BY <1>7, <1>a, <1>e DEF OwnerReset, RunsOn
<1> QED  BY <1>1, <1>2, <1>3, <1>4, <1>5, <1>6, <1>7 DEF Sweep

\* What every safety property below rests on: how far a start job has come, what
\* a row records of the platform and what an attempt in flight has seen agree in
\* every reachable state.
THEOREM EvidenceAlways == Spec => [](RunsOK /\ UnitsOK)
<1>1. Init => RunsOK /\ UnitsOK
  <2>1. Init => RunsOK
    BY DEF Init, RunsOK, RunOK, NewRow, Unsent, Unrecorded
  <2>2. Init => UnitsOK  BY IdleOK DEF Init, UnitsOK
  <2> QED  BY <2>1, <2>2
<1>2. TypeOK /\ StageSeen /\ RunsOK /\ UnitsOK /\ [Next]_vars => RunsOK' /\ UnitsOK'
  <2> SUFFICES ASSUME TypeOK, StageSeen, RunsOK, UnitsOK, [Next]_vars
               PROVE  RunsOK' /\ UnitsOK'
    OBVIOUS
  <2>1. CASE UNCHANGED vars  BY <2>1 DEF vars, RunsOK, UnitsOK
  <2> QED  BY <2>1, StartKeepsOK, UnitKeepsOK, OtherKeepsOK DEF Next
<1> QED  BY <1>1, <1>2, TypeCorrect, PTL DEF Spec

-----------------------------------------------------------------------------
(* The safety theorems.                                                      *)

\* No remote run exists without a committed row and an attached reservation, for
\* any number of attempts, processes and crashes (_create_run commits both
\* before the one start request is sent).
THEOREM SpendAlwaysTracked == Spec => []TrackedSpend
<1>1. RunsOK => TrackedSpend  BY DEF RunsOK, RunOK, TrackedSpend
<1> QED  BY <1>1, EvidenceAlways, PTL

\* A settled reservation belongs to a run that is over and has no storage left,
\* whatever the token shows of missing storage and however many executors delete
\* (_try_settle after _finish).
THEOREM SettledAlwaysQuiet == Spec => []SettledMeansQuiet
<1>1. TypeOK /\ RunsOK => SettledMeansQuiet
  <2> SUFFICES ASSUME TypeOK, RunsOK, NEW r \in Runs, resv[r] = "reconciled"
               PROVE  remote[r].run = "finished" /\ remote[r].store = {}
    BY DEF SettledMeansQuiet
  <2>1. RunOK(row[r], resv[r], remote[r], start[r])  BY DEF RunsOK
  <2>2. row[r].verified = Storage  BY <2>1 DEF RunOK
  <2>3. remote[r].store \in SUBSET Storage  BY RemoteUpdate DEF TypeOK
  <2>4. Storage \cap remote[r].store = {}  BY <2>1, <2>2 DEF RunOK
  <2>5. remote[r].store = {}  BY <2>3, <2>4
  <2>6. Storage # {}  BY DEF Storage
  <2>7. remote[r].run = "finished"  BY <2>1, <2>2, <2>6 DEF RunOK
  <2> QED  BY <2>5, <2>7
<1> QED  BY <1>1, TypeCorrect, EvidenceAlways, PTL

\* Only the delete call of a cleanup attempt and the start itself touch a run's
\* storages.
LEMMA StoreMoves ==
  ASSUME TypeOK, RunsOK, UnitsOK, StageSeen, [Next]_vars, NEW q \in Runs,
         remote'[q].store # remote[q].store
  PROVE  \/ SendStart(q)
         \/ \E p \in Processes : DeleteStorage(p) /\ unit[p].run = q
<1>1. CASE UNCHANGED vars  BY <1>1 DEF vars
<1>2. ASSUME NEW r \in Runs, StartCheck(r) \/ StartStep(r)
      PROVE  SendStart(q)
  <2>1. CASE SendStart(r)
    <3>1. remote' = remote \/ \E n \in Remote : remote' = [remote EXCEPT ![r] = n]
      BY <2>1 DEF SendStart, Remote
    <3>2. r = q  BY <3>1 DEF TypeOK
    <3> QED  BY <2>1, <3>2
  <2>2. CASE StartAbort(r)
    <3>1. remote' = remote \/ remote' = [remote EXCEPT ![r].run = "finished"]
      BY <2>2, Zenon DEF StartAbort
    <3>2. remote[r] \in Remote /\ remote \in [Runs -> Remote]  BY DEF TypeOK
    <3>3. [remote[r] EXCEPT !.run = "finished"].store = remote[r].store  BY <3>2 DEF Remote
    <3>4. remote'[q].store = remote[q].store  BY <3>1, <3>2, <3>3
    <3> QED  BY <3>4
  <2>3. CASE \/ StartCheck(r) \/ Reserve(r) \/ CreateRun(r) \/ RecordStartError(r)
             \/ TripStartRefusal(r) \/ RecordStart(r) \/ TripMismatch(r) \/ StartReject(r)
             \/ StartTripRestart(r)
    BY <2>3 DEF StartCheck, Reserve, CreateRun, RecordStartError, TripStartRefusal,
                RecordStart, TripMismatch, StartReject, StartTripRestart
  <2> QED  BY <1>2, <2>1, <2>2, <2>3 DEF StartStep
<1>3. ASSUME NEW p \in Processes, UnitStep(p)
      PROVE  DeleteStorage(p) /\ unit[p].run = q
  <2>1. CASE DeleteStorage(p)
    <3>1. unit[p].run \in Runs /\ remote \in [Runs -> Remote]  BY UnitUpdate DEF TypeOK
    <3>2. \/ remote' = remote
          \/ \E s : remote' = [remote EXCEPT ![unit[p].run].store = @ \ {s}]
      BY <2>1, DeleteEffect
    <3>3. unit[p].run = q  BY <3>1, <3>2
    <3> QED  BY <2>1, <3>3
  <2>2. CASE Finish(p)  BY <2>2 DEF Finish
  <2>3. CASE ~DeleteStorage(p) /\ ~Finish(p)  BY <1>3, <2>3, UnitEvolves DEF RunsOn
  <2> QED  BY <2>1, <2>2, <2>3
<1>4. ASSUME NEW r \in Runs, RemoteFinishes(r) PROVE FALSE
  <2>1. remote' = [remote EXCEPT ![r].run = "finished"]  BY <1>4 DEF RemoteFinishes
  <2>2. remote'[q].store = remote[q].store  BY <2>1 DEF TypeOK, Remote
  <2> QED  BY <2>2
<1>5. ASSUME \/ \E r \in Runs : DeadlinePasses(r)
             \/ \E p \in Processes : Select(p) \/ Sweep(p) \/ Crash(p)
             \/ OwnerReset
      PROVE  FALSE
  <2>1. UNCHANGED remote
    BY <1>5 DEF DeadlinePasses, Select, SelectActive, SelectOutstanding, SelectOverdue, Handed,
                Sweep, TripStranded, ReleaseUnattached, Crash, OwnerReset
  <2> QED  BY <2>1
<1> QED  BY <1>1, <1>2, <1>3, <1>4, <1>5 DEF Next

\* Cleanup never removes storage under a run that may still be charging, nor the
\* dataset of an import that could still commit, for any number of executors
\* (MS2-D-33: terminal evidence before any delete, the decision before _begin).
THEOREM DeleteNeverUnderWork == Spec => NoDeleteUnderWork
<1>1. TypeOK /\ StageSeen /\ RunsOK /\ UnitsOK /\ [Next]_vars
        => \A r \in Runs :
              remote'[r].store # remote[r].store /\ remote[r].run # "none"
                  => remote[r].run = "finished" /\ row[r].importState # "pending"
  <2> SUFFICES ASSUME TypeOK, StageSeen, RunsOK, UnitsOK, [Next]_vars, NEW r \in Runs,
                      remote'[r].store # remote[r].store, remote[r].run # "none"
               PROVE  remote[r].run = "finished" /\ row[r].importState # "pending"
    OBVIOUS
  <2>1. RunOK(row[r], resv[r], remote[r], start[r])  BY DEF RunsOK
  <2>2. ~SendStart(r)  BY <2>1 DEF SendStart, RunOK, Unsent
  <2>3. PICK p \in Processes : DeleteStorage(p) /\ unit[p].run = r  BY <2>2, StoreMoves
  <2>4. UnitOK(unit[p], row[r], remote[r]) /\ unit[p].pc = "delete"
    BY <2>3 DEF UnitsOK, DeleteStorage, At
  <2> QED  BY <2>1, <2>4 DEF UnitOK, RunOK
<1> QED  BY <1>1, TypeCorrect, EvidenceAlways, PTL DEF Spec, NoDeleteUnderWork

-----------------------------------------------------------------------------
(* The overrun latch.                                                        *)

\* How a step may move the latch row of reason d from t to u.
Moves(u, t, d) ==
    /\ u = "never" => t = "never"
    /\ d = "account_limit_refused" => /\ u = "bumped" => t = "bumped"
                                      /\ t = "reset" => u = "reset"

\* The latch operations, row by row.
LEMMA LatchRows ==
  ASSUME TypeOK
  PROVE  /\ \A r, q \in Runs, c, d \in Reason :
               Tripped(trip, r, c)[q][d] = IF q = r /\ d = c THEN "open" ELSE trip[q][d]
         /\ \A q \in Runs, d \in Reason :
               /\ ClearedByBump(trip)[q][d] = IF d # "account_limit_refused" /\ trip[q][d] = "open"
                                              THEN "bumped" ELSE trip[q][d]
               /\ \A t : WithStrandedRefusals(t)[q][d] =
                            IF d = "account_limit_refused" /\ UnrecordedRefusal(q)
                            THEN "open" ELSE t[q][d]
  BY DEF TypeOK, Tripped, ClearedByBump, WithStrandedRefusals

\* Tripping for any other reason than a refusal moves the latch as it may.
LEMMA TrippedMoves ==
  ASSUME TypeOK, NEW r \in Runs, NEW c \in Reason \ {"account_limit_refused"},
         trip' = trip \/ trip' = Tripped(trip, r, c)
  PROVE  \A q \in Runs, d \in Reason : Moves(trip'[q][d], trip[q][d], d)
<1>1. CASE trip' = trip  BY <1>1 DEF Moves
<1>2. CASE trip' = Tripped(trip, r, c)
  <2>1. \A q \in Runs, d \in Reason :
           trip'[q][d] = IF q = r /\ d = c THEN "open" ELSE trip[q][d]
    BY <1>2, LatchRows
  <2> QED  BY <2>1 DEF Moves
<1> QED  BY <1>1, <1>2

LEMMA StartMoves ==
  ASSUME TypeOK, NEW r \in Runs, StartCheck(r) \/ StartStep(r)
  PROVE  \A q \in Runs, d \in Reason : Moves(trip'[q][d], trip[q][d], d)
<1>1. CASE Reserve(r)
  <2>1. PICK b \in BOOLEAN :
          trip' = WithStrandedRefusals(IF b THEN ClearedByBump(trip) ELSE trip)
    BY <1>1 DEF Reserve
  <2> SUFFICES ASSUME NEW q \in Runs, NEW d \in Reason
               PROVE  Moves(trip'[q][d], trip[q][d], d)
    OBVIOUS
  <2>2. CASE b
    <3>1. trip'[q][d] = IF d = "account_limit_refused" /\ UnrecordedRefusal(q)
                        THEN "open" ELSE ClearedByBump(trip)[q][d]
      BY <2>1, <2>2, LatchRows
    <3>2. ClearedByBump(trip)[q][d] = IF d # "account_limit_refused" /\ trip[q][d] = "open"
                                      THEN "bumped" ELSE trip[q][d]
      BY LatchRows
    <3> QED  BY <3>1, <3>2 DEF Moves, UnrecordedRefusal
  <2>3. CASE ~b
    <3>1. trip'[q][d] = IF d = "account_limit_refused" /\ UnrecordedRefusal(q)
                        THEN "open" ELSE trip[q][d]
      BY <2>1, <2>3, LatchRows
    <3> QED  BY <3>1 DEF Moves, UnrecordedRefusal
  <2> QED  BY <2>2, <2>3
<1>2. CASE TripStartRefusal(r)
  <2>1. trip' = IF UnrecordedRefusal(r) THEN Tripped(trip, r, "account_limit_refused") ELSE trip
    BY <1>2 DEF TripStartRefusal
  <2>2. CASE ~UnrecordedRefusal(r)  BY <2>1, <2>2 DEF Moves
  <2>3. CASE UnrecordedRefusal(r)
    <3>1. "account_limit_refused" \in Reason  BY DEF Reason
    <3>2. \A q \in Runs, d \in Reason :
             trip'[q][d] = IF q = r /\ d = "account_limit_refused" THEN "open" ELSE trip[q][d]
      BY <2>1, <2>3, <3>1, LatchRows
    <3> QED  BY <2>3, <3>2 DEF Moves, UnrecordedRefusal
  <2> QED  BY <2>2, <2>3
<1>3. CASE TripMismatch(r) \/ StartTripRestart(r)
  <2>1. "start_option_mismatch" \in Reason \ {"account_limit_refused"}  BY DEF Reason
  <2> QED  BY <1>3, <2>1, TrippedMoves DEF TripMismatch, StartTripRestart
<1>4. CASE \/ StartCheck(r) \/ CreateRun(r) \/ SendStart(r) \/ RecordStartError(r)
           \/ RecordStart(r) \/ StartReject(r) \/ StartAbort(r)
  <2>1. trip' = trip
    BY <1>4 DEF StartCheck, CreateRun, SendStart, RecordStartError, RecordStart, StartReject,
                StartAbort
  <2> QED  BY <2>1 DEF Moves
<1> QED  BY <1>1, <1>2, <1>3, <1>4 DEF StartStep

\* A unit trips for its own run only, and never for a refusal.
LEMMA UnitTrips ==
  ASSUME TypeOK, NEW p \in Processes, UnitStep(p)
  PROVE  \/ trip' = trip
         \/ \E c \in Reason \ {"account_limit_refused"} :
               trip' = Tripped(trip, unit[p].run, c)
<1> USE DEF Reason
<1>1. CASE \/ GetRun(p) \/ RecordUsage(p) \/ Fetch(p) \/ PlanSettles(p)
  BY <1>1 DEF GetRun, RecordUsage, Fetch, PlanSettles, MayTrip
<1>2. CASE PlanSettlement(p) \/ Confirm(p)  BY <1>2 DEF PlanSettlement, Confirm
<1>3. CASE Abort(p)  BY <1>3, Zenon DEF Abort
<1>4. CASE \/ ResumeMismatchTrip(p) \/ BeginOrphan(p) \/ BeginAtCap(p) \/ Finish(p)
           \/ TripRestart(p)
  BY <1>4 DEF ResumeMismatchTrip, BeginOrphan, BeginAtCap, Finish, TripRestart
<1>5. CASE \/ CountPoll(p) \/ ReadOutstanding(p) \/ ImportRead(p) \/ Stage1Check(p)
           \/ CountReads(p) \/ Stage1Commit(p) \/ LaterStage(p) \/ Reject(p)
           \/ OverdueReject(p) \/ BeginNothing(p) \/ BeginAttempt(p) \/ DeleteStorage(p)
           \/ DeletesSent(p)
  BY <1>5 DEF CountPoll, ReadOutstanding, ImportRead, Stage1Check, CountReads, Stage1Commit,
              LaterStage, Reject, OverdueReject, BeginNothing, BeginAttempt, DeleteStorage,
              DeletesSent, Exhausted
<1> QED  BY <1>1, <1>2, <1>3, <1>4, <1>5 DEF UnitStep

\* A latch row, once written, is never unwritten; a refusal is cleared by the
\* owner alone, and not re-opened after that.
LEMMA LatchMoves ==
  ASSUME TypeOK, [Next]_vars
  PROVE  \A q \in Runs, d \in Reason : Moves(trip'[q][d], trip[q][d], d)
<1>0. ASSUME UNCHANGED trip PROVE \A q \in Runs, d \in Reason : Moves(trip'[q][d], trip[q][d], d)
  BY <1>0 DEF Moves
<1>1. ASSUME NEW p \in Processes, UnitStep(p)
      PROVE  \A q \in Runs, d \in Reason : Moves(trip'[q][d], trip[q][d], d)
  <2>1. unit[p].run \in Runs  BY UnitUpdate DEF TypeOK
  <2> QED  BY <1>0, <1>1, <2>1, UnitTrips, TrippedMoves
<1>2. ASSUME NEW p \in Processes, TripStranded(p), NEW q \in Runs, NEW d \in Reason
      PROVE  Moves(trip'[q][d], trip[q][d], d)
  <2>1. trip'[q][d] = IF \/ d = "orphaned_start" /\ StrandedOrphan(q)
                         \/ d = "delete_attempts_exhausted" /\ StrandedExhausted(q)
                      THEN "open" ELSE WithStrandedRefusals(trip)[q][d]
    BY <1>2 DEF TripStranded
  <2>2. WithStrandedRefusals(trip)[q][d] = IF d = "account_limit_refused" /\ UnrecordedRefusal(q)
                                           THEN "open" ELSE trip[q][d]
    BY LatchRows
  <2> QED  BY <2>1, <2>2 DEF Moves, UnrecordedRefusal
<1>3. ASSUME OwnerReset, NEW q \in Runs, NEW d \in Reason
      PROVE  Moves(trip'[q][d], trip[q][d], d)
  BY <1>3 DEF OwnerReset, Moves
<1>4. ASSUME NEW p \in Processes, Select(p) \/ ReleaseUnattached(p) \/ Crash(p)
      PROVE  UNCHANGED trip
  BY <1>4 DEF Select, SelectActive, SelectOutstanding, SelectOverdue, Handed,
              ReleaseUnattached, Crash
<1>5. ASSUME NEW r \in Runs, RemoteFinishes(r) \/ DeadlinePasses(r) PROVE UNCHANGED trip
  BY <1>5 DEF RemoteFinishes, DeadlinePasses
<1>6. CASE UNCHANGED vars  BY <1>0, <1>6 DEF vars
<1> QED  BY <1>0, <1>1, <1>2, <1>3, <1>4, <1>5, <1>6, StartMoves DEF Next, Sweep

\* A row gains neither of the marks that drop it from the selectors.
NoMark(v, w) ==
    /\ v.orphaned => w.orphaned
    /\ v.storageState = "delete_failed" => w.storageState = "delete_failed"

LEMMA NoMarkFrame ==
  ASSUME NEW w \in Row
  PROVE  /\ NoMark(w, w) /\ NoMark(Rejected(w), w)
         /\ \A b : NoMark([w EXCEPT !.created = b], w)
         /\ \A b : NoMark([w EXCEPT !.refused = b], w)
         /\ \A b : NoMark([w EXCEPT !.due = b], w)
         /\ \A n : NoMark([w EXCEPT !.polls = n], w)
         /\ \A n : NoMark([w EXCEPT !.reads = n], w)
         /\ \A n : NoMark([w EXCEPT !.attempts = n], w)
         /\ \A x : NoMark([w EXCEPT !.importState = x], w)
         /\ \A x : NoMark([w EXCEPT !.remoteStatus = x], w)
         /\ \A b : NoMark(Started(w, b), w)
<1>1. NoMark(Rejected(w), w)  BY RejectedFields DEF NoMark
<1>2. \A b : NoMark(Started(w, b), w)  BY DEF NoMark, Row, Started
<1>3. /\ NoMark(w, w)
      /\ \A b : NoMark([w EXCEPT !.created = b], w)
      /\ \A b : NoMark([w EXCEPT !.refused = b], w)
      /\ \A b : NoMark([w EXCEPT !.due = b], w)
      /\ \A n : NoMark([w EXCEPT !.polls = n], w)
      /\ \A n : NoMark([w EXCEPT !.reads = n], w)
      /\ \A n : NoMark([w EXCEPT !.attempts = n], w)
      /\ \A x : NoMark([w EXCEPT !.importState = x], w)
      /\ \A x : NoMark([w EXCEPT !.remoteStatus = x], w)
  BY DEF NoMark, Row
<1> QED  BY <1>1, <1>2, <1>3

LEMMA OneNoMark ==
  ASSUME TypeOK, NEW r \in Runs, NEW x, NoMark(x, row[r]),
         row' = row \/ row' = [row EXCEPT ![r] = x]
  PROVE  \A q \in Runs : NoMark(row'[q], row[q])
  BY DEF TypeOK, NoMark

LEMMA StartNoMark ==
  ASSUME TypeOK, NEW r \in Runs, StartCheck(r) \/ StartStep(r)
  PROVE  \A q \in Runs : NoMark(row'[q], row[q])
<1>0. row[r] \in Row /\ row \in [Runs -> Row]  BY DEF TypeOK
<1>1. \E x : NoMark(x, row[r]) /\ (row' = row \/ row' = [row EXCEPT ![r] = x])
  <2>1. CASE CreateRun(r)
    <3>1. row' = row \/ row' = [row EXCEPT ![r] = [row[r] EXCEPT !.created = TRUE]]
      BY <1>0, <2>1 DEF CreateRun
    <3> QED  BY <1>0, <3>1, NoMarkFrame
  <2>2. CASE RecordStartError(r)
    <3>1. row' = [row EXCEPT ![r] = [row[r] EXCEPT !.refused = start[r] = "refused"]]
      BY <1>0, <2>2 DEF RecordStartError
    <3>2. NoMark([row[r] EXCEPT !.refused = start[r] = "refused"], row[r])
      BY <1>0, NoMarkFrame
    <3> QED  BY <3>1, <3>2
  <2>3. CASE RecordStart(r)
    <3>1. row' = [row EXCEPT ![r] = Started(row[r], start[r] = "mismatched")]
      BY <2>3 DEF RecordStart
    <3>2. NoMark(Started(row[r], start[r] = "mismatched"), row[r])  BY <1>0, NoMarkFrame
    <3> QED  BY <3>1, <3>2
  <2>4. CASE StartReject(r)
    <3>1. row' = [row EXCEPT ![r] = Rejected(row[r])]  BY <2>4 DEF StartReject
    <3> QED  BY <1>0, <3>1, NoMarkFrame
  <2>5. CASE StartAbort(r)
    <3>1. row' = row \/ row' = [row EXCEPT ![r].remoteStatus = "terminal"]
      BY <2>5, Zenon DEF StartAbort
    <3>2. row' = row \/ row' = [row EXCEPT ![r] = [row[r] EXCEPT !.remoteStatus = "terminal"]]
      BY <1>0, <3>1
    <3> QED  BY <1>0, <3>2, NoMarkFrame
  <2>6. CASE \/ StartCheck(r) \/ Reserve(r) \/ SendStart(r) \/ TripStartRefusal(r)
             \/ TripMismatch(r) \/ StartTripRestart(r)
    <3>1. row' = row
      BY <2>6 DEF StartCheck, Reserve, SendStart, TripStartRefusal, TripMismatch,
                  StartTripRestart
    <3> QED  BY <1>0, <3>1, NoMarkFrame
  <2> QED  BY <2>1, <2>2, <2>3, <2>4, <2>5, <2>6 DEF StartStep
<1> QED  BY <1>1, OneNoMark

\* A unit that marks its row has tripped the latch in the same commit.
LEMMA UnitMarks ==
  ASSUME TypeOK, StageSeen, NEW p \in Processes, UnitStep(p), NEW q \in Runs
  PROVE  \/ NoMark(row'[q], row[q])
         \/ /\ row'[q].storageState = row[q].storageState
            /\ trip'[q]["orphaned_start"] = "open"
         \/ /\ row'[q].orphaned => row[q].orphaned
            /\ trip'[q]["delete_attempts_exhausted"] = "open"
<1> DEFINE r == unit[p].run
           w == row[r]
<1>0. /\ r \in Runs /\ w \in Row /\ unit[p] \in Unit /\ row \in [Runs -> Row]
  BY UnitUpdate DEF TypeOK
<1>t. ASSUME NEW c \in Reason, trip' = Tripped(trip, r, c)
      PROVE  trip'[r][c] = "open"
  BY <1>0, <1>t, LatchRows
<1>1. CASE BeginOrphan(p)
  <2> DEFINE x == [w EXCEPT !.orphaned = TRUE]
  <2>1. row' = [row EXCEPT ![r] = x]  BY <1>0, <1>1 DEF BeginOrphan
  <2>2. trip' = Tripped(trip, r, "orphaned_start") /\ "orphaned_start" \in Reason
    BY <1>1 DEF BeginOrphan, Reason
  <2>3. CASE q = r
    <3>1. row'[q] = x /\ trip'[q]["orphaned_start"] = "open"  BY <1>0, <1>t, <2>1, <2>2, <2>3
    <3>2. x.storageState = w.storageState  BY <1>0 DEF Row
    <3> QED  BY <2>3, <3>1, <3>2
  <2>4. CASE q # r
    <3>1. row'[q] = row[q]  BY <1>0, <2>1, <2>4
    <3> QED  BY <3>1 DEF NoMark
  <2> QED  BY <2>3, <2>4
<1>2. CASE BeginAtCap(p)
  <2>1. row' = [row EXCEPT ![r] = MarkDeleteFailed(w)]  BY <1>2 DEF BeginAtCap
  <2>2. /\ trip' = Tripped(trip, r, "delete_attempts_exhausted")
        /\ "delete_attempts_exhausted" \in Reason
    BY <1>2 DEF BeginAtCap, Reason
  <2>3. MarkDeleteFailed(w).orphaned = w.orphaned  BY <1>0, FailedFields
  <2>4. trip'[r]["delete_attempts_exhausted"] = "open"  BY <1>t, <2>2
  <2>5. CASE q = r  BY <1>0, <2>1, <2>3, <2>4, <2>5
  <2>6. CASE q # r
    <3>1. row'[q] = row[q]  BY <1>0, <2>1, <2>6
    <3> QED  BY <3>1 DEF NoMark
  <2> QED  BY <2>5, <2>6
<1>3. CASE Finish(p)
  <2> DEFINE v == w.verified \cup unit[p].deleted
             y == [w EXCEPT !.verified = v]
             z == [y EXCEPT !.storageState = "deleted"]
  <2>1. \/ row' = [row EXCEPT ![r] = Stamp(z)]
        \/ /\ row' = [row EXCEPT ![r] = MarkDeleteFailed(y)]
           /\ trip' = Tripped(trip, r, "delete_attempts_exhausted")
        \/ row' = [row EXCEPT ![r] = y]
    BY <1>3, Zenon DEF Finish
  <2>2. v \in SUBSET Storage  BY <1>0, RowFields, UnitUpdate
  <2>3. y \in Row /\ y.orphaned = w.orphaned /\ y.storageState = w.storageState
    <3> HIDE DEF v
    <3> QED  BY <1>0, <2>2 DEF Row
  <2> HIDE DEF y
  <2>4. z \in Row /\ z.orphaned = y.orphaned /\ z.storageState = "deleted"
    BY <2>3 DEF Row
  <2>5. Stamp(z).orphaned = w.orphaned /\ Stamp(z).storageState = "deleted"
    BY <2>3, <2>4, StampFields
  <2>6. MarkDeleteFailed(y).orphaned = w.orphaned  BY <2>3, FailedFields
  <2>7. "delete_attempts_exhausted" \in Reason  BY DEF Reason
  <2> HIDE DEF z
  <2>8. CASE q = r
    <3>1. CASE row' = [row EXCEPT ![r] = Stamp(z)]
      <4>1. row'[q] = Stamp(z)  BY <1>0, <2>8, <3>1
      <4> QED  BY <2>5, <2>8, <4>1 DEF NoMark
    <3>2. CASE /\ row' = [row EXCEPT ![r] = MarkDeleteFailed(y)]
               /\ trip' = Tripped(trip, r, "delete_attempts_exhausted")
      <4>1. row'[q] = MarkDeleteFailed(y)  BY <1>0, <2>8, <3>2
      <4>2. trip'[q]["delete_attempts_exhausted"] = "open"  BY <1>t, <2>7, <2>8, <3>2
      <4> QED  BY <2>6, <2>8, <4>1, <4>2
    <3>3. CASE row' = [row EXCEPT ![r] = y]
      <4>1. row'[q] = y  BY <1>0, <2>8, <3>3
      <4> QED  BY <2>3, <2>8, <4>1 DEF NoMark
    <3> QED  BY <2>1, <3>1, <3>2, <3>3
  <2>9. CASE q # r
    <3>1. row'[q] = row[q]  BY <1>0, <2>1, <2>9
    <3> QED  BY <3>1 DEF NoMark
  <2> QED  BY <2>8, <2>9
<1>4. ASSUME NEW x, NoMark(x, w), row' = row \/ row' = [row EXCEPT ![r] = x]
      PROVE  NoMark(row'[q], row[q])
  BY <1>0, <1>4, OneNoMark
<1>u. NoMark(w, w)  BY <1>0, NoMarkFrame
<1>5. CASE CountPoll(p) \/ PlanSettlement(p)
  <2>1. row' = row \/ row' = [row EXCEPT ![r] = [w EXCEPT !.polls = w.polls + 1]]
    BY <1>0, <1>5 DEF CountPoll, PlanSettlement
  <2>2. NoMark([w EXCEPT !.polls = w.polls + 1], w)  BY <1>0, NoMarkFrame
  <2> QED  BY <1>4, <2>1, <2>2
<1>6. CASE GetRun(p) \/ Confirm(p) \/ Abort(p)
  <2> DEFINE t == [w EXCEPT !.remoteStatus = "terminal"]
             a == [w EXCEPT !.remoteStatus = "active"]
  <2>1. NoMark(t, w) /\ NoMark(a, w)  BY <1>0, NoMarkFrame
  <2>2. row' = row \/ row' = [row EXCEPT ![r] = t] \/ row' = [row EXCEPT ![r] = a]
    <3>1. CASE GetRun(p) \/ Confirm(p)  BY <1>0, <3>1 DEF GetRun, Confirm, Observed
    <3>2. CASE Abort(p)
      <4>1. row' = row \/ row' = [row EXCEPT ![r].remoteStatus = "terminal"]
        BY <3>2, Zenon DEF Abort
      <4> QED  BY <1>0, <4>1
    <3> QED  BY <1>6, <3>1, <3>2
  <2> HIDE DEF t, a
  <2> QED  BY <1>4, <1>u, <2>1, <2>2
<1>7. CASE CountReads(p)
  <2>1. row' = row \/ row' = [row EXCEPT ![r] = [w EXCEPT !.reads = w.reads + 1]]
    BY <1>0, <1>7 DEF CountReads
  <2>2. NoMark([w EXCEPT !.reads = w.reads + 1], w)  BY <1>0, NoMarkFrame
  <2> QED  BY <1>4, <2>1, <2>2
<1>8. CASE Stage1Commit(p)
  <2>1. row' = row \/ row' = [row EXCEPT ![r] =
                                [w EXCEPT !.importState = "observations_committed"]]
    BY <1>0, <1>8 DEF Stage1Commit, Exhausted
  <2>2. NoMark([w EXCEPT !.importState = "observations_committed"], w)
    BY <1>0, NoMarkFrame
  <2> QED  BY <1>4, <2>1, <2>2
<1>9. CASE LaterStage(p)
  <2>1. \/ row' = row
        \/ /\ w.importState = unit[p].seen /\ unit[p].seen # "pending"
           /\ unit[p].pc = "stage" /\ row' = [row EXCEPT ![r] = Advanced(w)]
    BY <1>9 DEF LaterStage, Exhausted, At
  <2>2. w.importState = unit[p].seen /\ unit[p].seen # "pending" /\ unit[p].pc = "stage"
          => NoMark(Advanced(w), w)
    BY <1>0, AdvancedFields DEF StageSeen, NoMark
  <2> QED  BY <1>4, <1>u, <2>1, <2>2
<1>10. CASE Reject(p) \/ OverdueReject(p)
  <2>1. row' = row \/ row' = [row EXCEPT ![r] = Rejected(w)]
    BY <1>10 DEF Reject, OverdueReject
  <2> QED  BY <1>0, <1>4, <2>1, NoMarkFrame
<1>11. CASE BeginAttempt(p)
  <2>1. row' = [row EXCEPT ![r] = [w EXCEPT !.attempts = w.attempts + 1]]
    BY <1>0, <1>11 DEF BeginAttempt
  <2>2. NoMark([w EXCEPT !.attempts = w.attempts + 1], w)  BY <1>0, NoMarkFrame
  <2> QED  BY <1>4, <2>1, <2>2
<1>12. CASE \/ RecordUsage(p) \/ ReadOutstanding(p) \/ ResumeMismatchTrip(p) \/ ImportRead(p)
            \/ Stage1Check(p) \/ Fetch(p) \/ BeginNothing(p) \/ DeleteStorage(p)
            \/ DeletesSent(p) \/ PlanSettles(p) \/ TripRestart(p)
  <2>1. row' = row
    BY <1>12 DEF RecordUsage, ReadOutstanding, ResumeMismatchTrip, ImportRead, Stage1Check,
                 Fetch, BeginNothing, DeleteStorage, DeletesSent, PlanSettles, TripRestart
  <2> QED  BY <1>4, <1>u, <2>1
<1> QED
  BY <1>1, <1>2, <1>3, <1>5, <1>6, <1>7, <1>8, <1>9, <1>10, <1>11, <1>12 DEF UnitStep

\* A mark that drops a row from the selectors is never seen without the latch row
\* it commits with, whoever marks and whatever crashes (_begin, _finish,
\* trip_stranded_latches; the owner's reset clears a trip, it does not unwrite it).
THEOREM LatchAlwaysCommitted == Spec => []LatchCommitted
<1>1. Init => LatchCommitted  BY DEF Init, NewRow, LatchCommitted
<1>2. TypeOK /\ StageSeen /\ LatchCommitted /\ [Next]_vars => LatchCommitted'
  <2> SUFFICES ASSUME TypeOK, StageSeen, LatchCommitted, [Next]_vars, NEW q \in Runs
               PROVE  /\ row'[q].orphaned => trip'[q]["orphaned_start"] # "never"
                      /\ row'[q].storageState = "delete_failed"
                            => trip'[q]["delete_attempts_exhausted"] # "never"
    BY DEF LatchCommitted
  <2>0. "orphaned_start" \in Reason /\ "delete_attempts_exhausted" \in Reason  BY DEF Reason
  <2>1. /\ trip'[q]["orphaned_start"] = "never" => trip[q]["orphaned_start"] = "never"
        /\ trip'[q]["delete_attempts_exhausted"] = "never"
              => trip[q]["delete_attempts_exhausted"] = "never"
    BY <2>0, LatchMoves DEF Moves
  <2>2. /\ row[q].orphaned => trip[q]["orphaned_start"] # "never"
        /\ row[q].storageState = "delete_failed"
              => trip[q]["delete_attempts_exhausted"] # "never"
    BY DEF LatchCommitted
  <2>3. CASE NoMark(row'[q], row[q])  BY <2>1, <2>2, <2>3 DEF NoMark
  <2>4. ASSUME NEW r \in Runs, StartCheck(r) \/ StartStep(r) PROVE NoMark(row'[q], row[q])
    BY <2>4, StartNoMark
  <2>5. ASSUME NEW p \in Processes, UnitStep(p)
        PROVE  \/ NoMark(row'[q], row[q])
               \/ /\ row'[q].storageState = row[q].storageState
                  /\ trip'[q]["orphaned_start"] = "open"
               \/ /\ row'[q].orphaned => row[q].orphaned
                  /\ trip'[q]["delete_attempts_exhausted"] = "open"
    BY <2>5, UnitMarks
  <2>6. ASSUME NEW p \in Processes, TripStranded(p)
        PROVE  \/ NoMark(row'[q], row[q])
               \/ /\ row'[q].orphaned => row[q].orphaned
                  /\ trip'[q]["delete_attempts_exhausted"] = "open"
    <3>1. row'[q] = IF StrandedExhausted(q) THEN MarkDeleteFailed(row[q]) ELSE row[q]
      BY <2>6 DEF TripStranded
    <3>2. StrandedExhausted(q) => trip'[q]["delete_attempts_exhausted"] = "open"
      BY <2>0, <2>6 DEF TripStranded
    <3>3. MarkDeleteFailed(row[q]).orphaned = row[q].orphaned  BY FailedFields DEF TypeOK
    <3> QED  BY <3>1, <3>2, <3>3 DEF NoMark
  <2>7. ASSUME NEW r \in Runs, DeadlinePasses(r) PROVE NoMark(row'[q], row[q])
    <3>0. row[r] \in Row /\ row \in [Runs -> Row]  BY DEF TypeOK
    <3>1. row' = [row EXCEPT ![r] = [row[r] EXCEPT !.due = TRUE]]
      BY <2>7, <3>0 DEF DeadlinePasses
    <3>2. NoMark([row[r] EXCEPT !.due = TRUE], row[r])  BY <3>0, NoMarkFrame
    <3> QED  BY <3>1, <3>2, OneNoMark
  <2>8. ASSUME UNCHANGED row PROVE NoMark(row'[q], row[q])  BY <2>8 DEF NoMark
  <2>9. ASSUME \/ \E r \in Runs : RemoteFinishes(r)
               \/ \E p \in Processes : Select(p) \/ ReleaseUnattached(p) \/ Crash(p)
               \/ OwnerReset
               \/ UNCHANGED vars
        PROVE  UNCHANGED row
    BY <2>9 DEF RemoteFinishes, Select, SelectActive, SelectOutstanding, SelectOverdue, Handed,
                ReleaseUnattached, Crash, OwnerReset, vars
  <2>10. \/ NoMark(row'[q], row[q])
         \/ /\ row'[q].storageState = row[q].storageState
            /\ trip'[q]["orphaned_start"] = "open"
         \/ /\ row'[q].orphaned => row[q].orphaned
            /\ trip'[q]["delete_attempts_exhausted"] = "open"
    BY <2>4, <2>5, <2>6, <2>7, <2>8, <2>9 DEF Next, Sweep
  <2> QED  BY <2>1, <2>2, <2>3, <2>10
<1> QED  BY <1>1, <1>2, TypeCorrect, PTL DEF Spec

\* The account's own refusal is never cleared by an estimator bump.
RefusalUnbumped == \A q \in Runs : trip[q]["account_limit_refused"] # "bumped"

LEMMA RefusalNeverBumped == Spec => []RefusalUnbumped
<1>0. "account_limit_refused" \in Reason  BY DEF Reason
<1>1. Init => RefusalUnbumped  BY <1>0 DEF Init, RefusalUnbumped
<1>2. TypeOK /\ RefusalUnbumped /\ [Next]_vars => RefusalUnbumped'
  BY <1>0, LatchMoves DEF RefusalUnbumped, Moves
<1> QED  BY <1>1, <1>2, TypeCorrect, PTL DEF Spec

\* Only reserve turns an absent reservation into an open one.
LEMMA OnlyReserve ==
  ASSUME TypeOK, StageSeen, RunsOK, UnitsOK, [Next]_vars, NEW q \in Runs,
         resv[q] = "none", resv'[q] = "reserved"
  PROVE  Reserve(q)
<1>1. ASSUME NEW r \in Runs, StartCheck(r) \/ StartStep(r) PROVE Reserve(q)
  <2>0. resv \in [Runs -> ReservationStatus]  BY DEF TypeOK
  <2>1. CASE Reserve(r)
    <3>1. resv' = resv \/ resv' = [resv EXCEPT ![r] = "reserved"]  BY <2>1 DEF Reserve
    <3>2. r = q  BY <2>0, <3>1
    <3> QED  BY <2>1, <3>2
  <2>2. CASE CreateRun(r)
    <3>1. resv' = resv \/ resv' = [resv EXCEPT ![r] = "attached"]  BY <2>2 DEF CreateRun
    <3> QED  BY <2>0, <3>1
  <2>3. CASE \/ StartCheck(r) \/ SendStart(r) \/ RecordStartError(r) \/ TripStartRefusal(r)
             \/ RecordStart(r) \/ TripMismatch(r) \/ StartReject(r) \/ StartAbort(r)
             \/ StartTripRestart(r)
    BY <2>3 DEF StartCheck, SendStart, RecordStartError, TripStartRefusal, RecordStart,
                TripMismatch, StartReject, StartAbort, StartTripRestart
  <2> QED  BY <1>1, <2>1, <2>2, <2>3 DEF StartStep
<1>2. ASSUME NEW p \in Processes, UnitStep(p) PROVE FALSE
  <2>1. CASE DeleteStorage(p) \/ Finish(p)  BY <2>1 DEF DeleteStorage, Finish
  <2>2. CASE ~DeleteStorage(p) /\ ~Finish(p)  BY <1>2, <2>2, UnitEvolves DEF Books
  <2> QED  BY <2>1, <2>2
<1>3. ASSUME NEW p \in Processes, ReleaseUnattached(p) PROVE FALSE
  BY <1>3 DEF ReleaseUnattached, TypeOK
<1>4. ASSUME \/ \E r \in Runs : RemoteFinishes(r) \/ DeadlinePasses(r)
             \/ \E p \in Processes : Select(p) \/ TripStranded(p) \/ Crash(p)
             \/ OwnerReset
             \/ UNCHANGED vars
      PROVE  UNCHANGED resv
  BY <1>4 DEF RemoteFinishes, DeadlinePasses, Select, SelectActive, SelectOutstanding,
              SelectOverdue, Handed, TripStranded, Crash, OwnerReset, vars
<1> QED  BY <1>1, <1>2, <1>3, <1>4 DEF Next, Sweep

\* After a recorded account refusal nothing is admitted until the owner's own
\* reset, in whatever order the refusal's record, its trip, a crash, an estimator
\* bump and other starts come (reserve trips lost refusals before it decides).
THEOREM RefusalAlwaysStops == Spec => RefusalStopsAdmission
<1>1. TypeOK /\ StageSeen /\ RunsOK /\ UnitsOK /\ RefusalUnbumped /\ RefusalUnbumped'
        /\ [Next]_vars
        => \A r, q \in Runs :
              resv[r] = "none" /\ resv'[r] = "reserved" /\ row[q].refused
                  => trip'[q]["account_limit_refused"] = "reset"
  <2> SUFFICES ASSUME TypeOK, StageSeen, RunsOK, UnitsOK, RefusalUnbumped', [Next]_vars,
                      NEW r \in Runs, NEW q \in Runs,
                      resv[r] = "none", resv'[r] = "reserved", row[q].refused
               PROVE  trip'[q]["account_limit_refused"] = "reset"
    OBVIOUS
  <2>0. "account_limit_refused" \in Reason  BY DEF Reason
  <2>1. Reserve(r)  BY OnlyReserve
  <2>2. PICK b \in BOOLEAN :
          LET t == WithStrandedRefusals(IF b THEN ClearedByBump(trip) ELSE trip)
          IN  trip' = t /\ (~LatchTripped(t) \/ resv' = resv)
    BY <2>1 DEF Reserve
  <2> DEFINE u == IF b THEN ClearedByBump(trip) ELSE trip
  <2>3. trip' = WithStrandedRefusals(u) /\ ~LatchTripped(trip')  BY <2>2
  <2>4. trip'[q]["account_limit_refused"] =
          IF UnrecordedRefusal(q) THEN "open" ELSE u[q]["account_limit_refused"]
    BY <2>0, <2>3, LatchRows
  <2>5. trip'[q]["account_limit_refused"] # "open"  BY <2>0, <2>3 DEF LatchTripped
  <2>6. u[q]["account_limit_refused"] = trip[q]["account_limit_refused"]
    BY <2>0, LatchRows
  <2>7. trip'[q]["account_limit_refused"] # "never"
    BY <2>4, <2>5, <2>6 DEF UnrecordedRefusal
  <2>8. trip'[q]["account_limit_refused"] # "bumped"  BY DEF RefusalUnbumped
  <2>9. trip'[q]["account_limit_refused"] \in TripState
    <3>1. TypeOK'  BY <2>1, StartStepType DEF StartStep
    <3> QED  BY <2>0, <3>1 DEF TypeOK
  <2> QED  BY <2>5, <2>7, <2>8, <2>9 DEF TripState
<1> QED
  BY <1>1, TypeCorrect, EvidenceAlways, RefusalNeverBumped, PTL DEF Spec, RefusalStopsAdmission

-----------------------------------------------------------------------------
(* One undecided import per scope, under the scheduler.                      *)

Active(r) == start[r] \notin {"idle", "done"}
Before(r) == start[r] \in {"checked", "admitted"}

\* Jobs of one scope exclude each other, and a start that passed its check finds
\* every other import of its scope decided until its own row exists.
OneStart ==
    \A r, q \in Runs :
        r # q /\ ScopeOf[r] = ScopeOf[q]
            => /\ ~(Active(r) /\ Active(q))
               /\ Before(r) /\ row[q].created => row[q].importState \in TerminalImport

\* A decided import stays decided.
LEMMA DecidedStays ==
  ASSUME TypeOK, StageSeen, [Next]_vars, NEW q \in Runs,
         row[q].importState \in TerminalImport
  PROVE  row'[q].importState \in TerminalImport
<1>1. OutcomeStep(row'[q], row[q])  BY OutcomeSteps
<1>2. row[q] \in Row  BY DEF TypeOK
<1>3. ASSUME NEW x \in Row, SameOutcome(x, row[q])
      PROVE  /\ Stamp([x EXCEPT !.storageState = "deleted"]).importState = row[q].importState
             /\ MarkDeleteFailed(x).importState = row[q].importState
  <2>1. /\ [x EXCEPT !.storageState = "deleted"] \in Row
        /\ [x EXCEPT !.storageState = "deleted"].importState = x.importState
    BY DEF Row
  <2> QED  BY <1>3, <2>1, StampFields, FailedFields DEF SameOutcome
<1>4. Rejected(row[q]) = row[q]  BY DEF Rejected
<1>5. row[q].importState # "pending"  BY DEF TerminalImport
<1> QED  BY <1>1, <1>3, <1>4, <1>5 DEF OutcomeStep, SameOutcome

\* A row appears only behind an admitted start.
LEMMA CreatedMoves ==
  ASSUME TypeOK, StageSeen, RunsOK, UnitsOK, [Next]_vars, NEW q \in Runs,
         row'[q].created, ~row[q].created
  PROVE  start[q] = "admitted"
<1>0. row \in [Runs -> Row]  BY DEF TypeOK
<1>1. ASSUME NEW r \in Runs, StartCheck(r) \/ StartStep(r) PROVE start[q] = "admitted"
  <2>0. row[r] \in Row  BY <1>0
  <2>1. CASE CreateRun(r)
    <3>1. row' = row \/ row' = [row EXCEPT ![r].created = TRUE]  BY <2>1 DEF CreateRun
    <3>2. r = q  BY <1>0, <3>1
    <3> QED  BY <2>1, <3>2 DEF CreateRun
  <2>2. ASSUME NEW x, x.created = row[r].created, row' = row \/ row' = [row EXCEPT ![r] = x]
        PROVE  FALSE
    BY <1>0, <2>2
  <2>3. CASE RecordStartError(r)
    <3> DEFINE x == [row[r] EXCEPT !.refused = start[r] = "refused"]
    <3>1. row' = [row EXCEPT ![r] = x]  BY <1>0, <2>3 DEF RecordStartError
    <3>2. x.created = row[r].created  BY <2>0 DEF Row
    <3> HIDE DEF x
    <3> QED  BY <2>2, <3>1, <3>2
  <2>4. CASE RecordStart(r)
    <3> DEFINE x == Started(row[r], start[r] = "mismatched")
    <3>1. row' = [row EXCEPT ![r] = x]  BY <2>4 DEF RecordStart
    <3>2. x.created = row[r].created  BY <2>0 DEF Row, Started
    <3> HIDE DEF x
    <3> QED  BY <2>2, <3>1, <3>2
  <2>5. CASE StartReject(r)
    <3>1. row' = [row EXCEPT ![r] = Rejected(row[r])]  BY <2>5 DEF StartReject
    <3>2. Rejected(row[r]).created = row[r].created  BY <2>0, RejectedFields
    <3> QED  BY <2>2, <3>1, <3>2
  <2>6. CASE StartAbort(r)
    <3> DEFINE x == [row[r] EXCEPT !.remoteStatus = "terminal"]
    <3>1. row' = row \/ row' = [row EXCEPT ![r].remoteStatus = "terminal"]
      BY <2>6, Zenon DEF StartAbort
    <3>2. row' = row \/ row' = [row EXCEPT ![r] = x]  BY <1>0, <3>1
    <3>3. x.created = row[r].created  BY <2>0 DEF Row
    <3> HIDE DEF x
    <3> QED  BY <2>2, <3>2, <3>3
  <2>7. CASE \/ StartCheck(r) \/ Reserve(r) \/ SendStart(r) \/ TripStartRefusal(r)
             \/ TripMismatch(r) \/ StartTripRestart(r)
    BY <2>7 DEF StartCheck, Reserve, SendStart, TripStartRefusal, TripMismatch,
                StartTripRestart
  <2> QED  BY <1>1, <2>1, <2>3, <2>4, <2>5, <2>6, <2>7 DEF StartStep
<1>2. ASSUME NEW p \in Processes, UnitStep(p) PROVE FALSE
  <2>1. CASE DeleteStorage(p)  BY <2>1 DEF DeleteStorage
  <2>2. CASE Finish(p)
    <3>1. RunsOK' /\ resv' = resv  BY <2>2, FinishKeepsOK DEF Finish
    <3> QED  BY <3>1 DEF RunsOK, RunOK
  <2>3. CASE ~DeleteStorage(p) /\ ~Finish(p)  BY <1>2, <2>3, UnitEvolves DEF Evolves
  <2> QED  BY <2>1, <2>2, <2>3
<1>3. ASSUME NEW p \in Processes, TripStranded(p) PROVE FALSE
  <2>1. row'[q] = IF StrandedExhausted(q) THEN MarkDeleteFailed(row[q]) ELSE row[q]
    BY <1>3 DEF TripStranded
  <2> QED  BY <1>0, <2>1, FailedFields
<1>4. ASSUME NEW r \in Runs, DeadlinePasses(r) PROVE FALSE
  <2>1. row' = [row EXCEPT ![r].due = TRUE]  BY <1>4 DEF DeadlinePasses
  <2>2. [row[r] EXCEPT !.due = TRUE].created = row[r].created  BY <1>0 DEF Row
  <2> QED  BY <1>0, <2>1, <2>2
<1>5. ASSUME \/ \E r \in Runs : RemoteFinishes(r)
             \/ \E p \in Processes : Select(p) \/ ReleaseUnattached(p) \/ Crash(p)
             \/ OwnerReset
             \/ UNCHANGED vars
      PROVE  UNCHANGED row
  BY <1>5 DEF RemoteFinishes, Select, SelectActive, SelectOutstanding, SelectOverdue, Handed,
              ReleaseUnattached, Crash, OwnerReset, vars
<1> QED  BY <1>1, <1>2, <1>3, <1>4, <1>5 DEF Next, Sweep

\* How a start job moves: into its check, one step on, or to its end.
LEMMA StartMovesOn ==
  ASSUME TypeOK, StageSeen, RunsOK, UnitsOK, [Next]_vars
  PROVE  \/ \E r \in Runs : StartCheck(r) /\ ~Outstanding(r)
         \/ \A q \in Runs : Active(q)' => Active(q) /\ (Before(q)' => Before(q))
<1>0. start \in [Runs -> StartPC]  BY DEF TypeOK
<1>1. ASSUME NEW r \in Runs, StartStep(r)
      PROVE  \A q \in Runs : Active(q)' => Active(q) /\ (Before(q)' => Before(q))
  <2>1. \/ start[r] \in {"checked", "admitted"}
        \/ start[r] \notin {"idle", "done"} /\ start'[r] \notin {"checked", "admitted"}
    BY <1>0, <1>1 DEF StartStep, Reserve, CreateRun, SendStart, RecordStartError,
                      TripStartRefusal, RecordStart, TripMismatch, StartReject, StartAbort,
                      StartTripRestart
  <2>2. \A q \in Runs \ {r} : start'[q] = start[q]
    BY <1>0, <1>1 DEF StartStep, Reserve, CreateRun, SendStart, RecordStartError,
                      TripStartRefusal, RecordStart, TripMismatch, StartReject, StartAbort,
                      StartTripRestart
  <2> QED  BY <2>1, <2>2 DEF Active, Before
<1>2. ASSUME NEW r \in Runs, StartCheck(r)
      PROVE  \/ ~Outstanding(r)
             \/ \A q \in Runs : Active(q)' => Active(q) /\ (Before(q)' => Before(q))
  BY <1>0, <1>2 DEF StartCheck, Active, Before
<1>3. ASSUME NEW p \in Processes, Crash(p)
      PROVE  \A q \in Runs : Active(q)' => Active(q) /\ (Before(q)' => Before(q))
  BY <1>3 DEF Crash, Active, Before
<1>4. ASSUME UNCHANGED start
      PROVE  \A q \in Runs : Active(q)' => Active(q) /\ (Before(q)' => Before(q))
  BY <1>4 DEF Active, Before
<1>5. ASSUME NEW p \in Processes, UnitStep(p) PROVE UNCHANGED start
  <2>1. CASE DeleteStorage(p) \/ Finish(p)  BY <2>1 DEF DeleteStorage, Finish
  <2>2. CASE ~DeleteStorage(p) /\ ~Finish(p)  BY <1>5, <2>2, UnitEvolves
  <2> QED  BY <2>1, <2>2
<1>6. ASSUME \/ \E r \in Runs : RemoteFinishes(r) \/ DeadlinePasses(r)
             \/ \E p \in Processes : Select(p) \/ Sweep(p)
             \/ OwnerReset
             \/ UNCHANGED vars
      PROVE  UNCHANGED start
  BY <1>6 DEF RemoteFinishes, DeadlinePasses, Select, SelectActive, SelectOutstanding,
              SelectOverdue, Handed, Sweep, TripStranded, ReleaseUnattached, OwnerReset, vars
<1> QED  BY <1>1, <1>2, <1>3, <1>4, <1>5, <1>6 DEF Next

\* Where every start is the scheduler's, two runs of one scope never have
\* undecided imports at once, for any number of attempts, executors and crashes
\* (_has_outstanding_full_run under max_instances=1; a smoke start is not held
\* back by it).
THEOREM OneOutstandingAlways ==
  ASSUME OwnStarter = {}
  PROVE  Spec => []OneOutstandingFull
<1>1. Init => OneStart /\ OneOutstandingFull
  BY DEF Init, OneStart, OneOutstandingFull, NewRow, Active
<1>2. TypeOK /\ StageSeen /\ RunsOK /\ UnitsOK /\ OneStart /\ OneOutstandingFull /\ [Next]_vars
        => OneStart' /\ OneOutstandingFull'
  <2> SUFFICES ASSUME TypeOK, StageSeen, RunsOK, UnitsOK, OneStart, OneOutstandingFull,
                      [Next]_vars, NEW r \in Runs, NEW q \in Runs,
                      r # q, ScopeOf[r] = ScopeOf[q]
               PROVE  /\ ~(Active(r)' /\ Active(q)')
                      /\ Before(r)' /\ row'[q].created => row'[q].importState \in TerminalImport
                      /\ row'[r].created /\ row'[q].created
                            => \/ row'[r].importState \in TerminalImport
                               \/ row'[q].importState \in TerminalImport
    BY DEF OneStart, OneOutstandingFull, Active, Before
  <2>1. /\ ~(Active(r) /\ Active(q))
        /\ Before(r) /\ row[q].created => row[q].importState \in TerminalImport
        /\ Before(q) /\ row[r].created => row[r].importState \in TerminalImport
        /\ row[r].created /\ row[q].created
              => row[r].importState \in TerminalImport \/ row[q].importState \in TerminalImport
    BY DEF OneStart, OneOutstandingFull
  <2>2. \A x \in {r, q} :
           /\ row[x].importState \in TerminalImport => row'[x].importState \in TerminalImport
           /\ row'[x].created /\ ~row[x].created => start[x] = "admitted"
    BY DecidedStays, CreatedMoves
  <2>3. \A x \in {r, q} : start[x] = "admitted" => Active(x) /\ Before(x)
    BY DEF Active, Before
  <2>4. \A x \in {r, q} : Before(x) => ~row[x].created
    BY DEF Before, RunsOK, RunOK
  <2>5. row'[r].created /\ row'[q].created
          => row'[r].importState \in TerminalImport \/ row'[q].importState \in TerminalImport
    BY <2>1, <2>2, <2>3
  <2>6. CASE \A x \in Runs : Active(x)' => Active(x) /\ (Before(x)' => Before(x))
    <3>1. Before(r)' => Active(r)'  BY DEF Before, Active
    <3>2. Before(r)' => Active(r) /\ Before(r)  BY <2>6, <3>1
    <3>3. Before(r)' /\ row'[q].created => row[q].created  BY <2>1, <2>2, <2>3, <3>2
    <3> QED  BY <2>1, <2>2, <2>5, <2>6, <3>2, <3>3
  <2>7. ASSUME NEW x \in Runs, StartCheck(x), ~Outstanding(x)
        PROVE  /\ ~(Active(r)' /\ Active(q)')
               /\ Before(r)' /\ row'[q].created => row'[q].importState \in TerminalImport
    <3>1. /\ start' = [start EXCEPT ![x] = "checked"] /\ row' = row /\ ~JobRunning(x)
          /\ start \in [Runs -> StartPC]
      BY <2>7 DEF StartCheck, TypeOK
    <3>2. \A y \in Runs \ {x} : /\ start'[y] = start[y]
                                /\ ScopeOf[y] = ScopeOf[x] => ~Active(y)
      BY <3>1 DEF JobRunning, Active
    <3>3. \A y \in Runs \ {x} : ScopeOf[y] = ScopeOf[x] /\ row[y].created
                                  => row[y].importState \in TerminalImport
      BY <2>7 DEF Outstanding
    <3>4. CASE x = r
      BY <3>1, <3>2, <3>3, <3>4 DEF Active, Before
    <3>5. CASE x = q
      <4>1. ~Active(r) /\ ~Active(r)' /\ ~Before(r)'
        BY <3>2, <3>5 DEF Active, Before
      <4> QED  BY <4>1
    <3>6. CASE x # r /\ x # q
      BY <2>1, <3>1, <3>2, <3>6 DEF Active, Before
    <3> QED  BY <3>4, <3>5, <3>6
  <2> QED  BY <2>5, <2>6, <2>7, StartMovesOn
<1> QED  BY <1>1, <1>2, TypeCorrect, EvidenceAlways, PTL DEF Spec

-----------------------------------------------------------------------------
(* One executor of the tick: what its unit has read of the row still holds   *)
(* when it acts, although the start jobs of its process run between.         *)

OneExecutor == \A p, o \in Processes : p = o

\* A row as it was, in all that the two properties below rest on: only evidence
\* and the state of its storage may have moved.
Quiet(x, w) ==
    /\ x.extId = w.extId /\ x.mismatch = w.mismatch /\ x.importState = w.importState
    /\ x.attempts = w.attempts /\ x.orphaned = w.orphaned
    /\ w.remoteStatus = "terminal" => x.remoteStatus = "terminal"
    /\ w.storageState = "deleted" => x.storageState = "deleted"

LEMMA QuietFrame ==
  ASSUME NEW w \in Row
  PROVE  /\ Quiet(w, w)
         /\ \A b : Quiet([w EXCEPT !.created = b], w)
         /\ \A b : Quiet([w EXCEPT !.refused = b], w)
         /\ \A b : Quiet([w EXCEPT !.due = b], w)
         /\ \A n : Quiet([w EXCEPT !.polls = n], w)
         /\ \A n : Quiet([w EXCEPT !.reads = n], w)
         /\ \A v : Quiet([w EXCEPT !.verified = v], w)
         /\ Quiet([w EXCEPT !.remoteStatus = "terminal"], w)
         /\ w.remoteStatus # "terminal" => Quiet([w EXCEPT !.remoteStatus = "active"], w)
         /\ w.storageState # "deleted" => Quiet(MarkDeleteFailed(w), w)
  BY DEF Quiet, Row, MarkDeleteFailed

LEMMA OneRowMoves ==
  ASSUME TypeOK, NEW r \in Runs, NEW x, row' = row \/ row' = [row EXCEPT ![r] = x]
  PROVE  /\ \A q \in Runs \ {r} : row'[q] = row[q]
         /\ row'[r] = row[r] \/ row'[r] = x
  BY DEF TypeOK

LEMMA OneRowQuiet ==
  ASSUME TypeOK, NEW r \in Runs, NEW x, row' = row \/ row' = [row EXCEPT ![r] = x],
         Quiet(x, row[r])
  PROVE  (\A q \in Runs \ {r} : row'[q] = row[q]) /\ Quiet(row'[r], row[r])
  BY QuietFrame, OneRowMoves DEF TypeOK

\* What a start job does to its row.
RejectDue == {"trip_mismatch", "reject"}
StartsRow(r) ==
    \/ Quiet(row'[r], row[r]) /\ (start'[r] \in RejectDue => start[r] = "trip_mismatch")
    \/ /\ start[r] \in {"ok", "mismatched"}
       /\ start'[r] \in RejectDue => start[r] = "mismatched"
       /\ row'[r] = Started(row[r], start[r] = "mismatched")
    \/ start[r] = "reject" /\ start'[r] = "abort" /\ row'[r] = Rejected(row[r])

LEMMA StartRows ==
  ASSUME TypeOK, NEW r \in Runs, StartCheck(r) \/ StartStep(r)
  PROVE  /\ unit' = unit /\ StartsRow(r)
         /\ \A q \in Runs \ {r} : row'[q] = row[q] /\ start'[q] = start[q]
<1>0. row[r] \in Row /\ row \in [Runs -> Row] /\ start \in [Runs -> StartPC]  BY DEF TypeOK
<1>u. unit' = unit
  BY DEF StartStep, StartCheck, Reserve, CreateRun, SendStart, RecordStartError,
         TripStartRefusal, RecordStart, TripMismatch, StartReject, StartAbort,
         StartTripRestart
<1>s. \A q \in Runs \ {r} : start'[q] = start[q]
  BY <1>0 DEF StartStep, StartCheck, Reserve, CreateRun, SendStart, RecordStartError,
              TripStartRefusal, RecordStart, TripMismatch, StartReject, StartAbort,
              StartTripRestart
<1>q. ASSUME NEW x, Quiet(x, row[r]), row' = row \/ row' = [row EXCEPT ![r] = x],
             start'[r] \in RejectDue => start[r] = "trip_mismatch"
      PROVE  StartsRow(r) /\ \A q \in Runs \ {r} : row'[q] = row[q]
  BY <1>q, OneRowQuiet DEF StartsRow
<1>1. CASE CreateRun(r)
  <2> DEFINE x == [row[r] EXCEPT !.created = TRUE]
  <2>1. row' = row \/ row' = [row EXCEPT ![r] = x]  BY <1>0, <1>1 DEF CreateRun
  <2>2. start'[r] \notin RejectDue  BY <1>0, <1>1 DEF CreateRun, RejectDue
  <2>3. Quiet(x, row[r])  BY <1>0, QuietFrame
  <2> HIDE DEF x
  <2> QED  BY <1>q, <1>u, <1>s, <2>1, <2>2, <2>3
<1>2. CASE RecordStartError(r)
  <2> DEFINE x == [row[r] EXCEPT !.refused = start[r] = "refused"]
  <2>1. row' = [row EXCEPT ![r] = x]  BY <1>0, <1>2 DEF RecordStartError
  <2>2. start'[r] \notin RejectDue  BY <1>0, <1>2 DEF RecordStartError, RejectDue
  <2>3. Quiet(x, row[r])  BY <1>0, QuietFrame
  <2> HIDE DEF x
  <2> QED  BY <1>q, <1>u, <1>s, <2>1, <2>2, <2>3
<1>3. CASE RecordStart(r)
  <2> DEFINE x == Started(row[r], start[r] = "mismatched")
  <2>1. row' = [row EXCEPT ![r] = x] /\ start[r] \in {"ok", "mismatched"}
    BY <1>3 DEF RecordStart
  <2>2. start'[r] \in RejectDue => start[r] = "mismatched"
    BY <1>0, <1>3 DEF RecordStart, RejectDue
  <2> HIDE DEF x
  <2>3. row'[r] = x /\ \A q \in Runs \ {r} : row'[q] = row[q]  BY <1>0, <2>1
  <2> QED  BY <1>u, <1>s, <2>1, <2>2, <2>3 DEF StartsRow, x
<1>4. CASE StartReject(r)
  <2> DEFINE x == Rejected(row[r])
  <2>1. row' = [row EXCEPT ![r] = x] /\ start[r] = "reject"  BY <1>4 DEF StartReject
  <2>2. start'[r] = "abort"  BY <1>0, <1>4 DEF StartReject
  <2> HIDE DEF x
  <2>3. row'[r] = x /\ \A q \in Runs \ {r} : row'[q] = row[q]  BY <1>0, <2>1
  <2> QED  BY <1>u, <1>s, <2>1, <2>2, <2>3 DEF StartsRow, x
<1>5. CASE StartAbort(r)
  <2> DEFINE x == [row[r] EXCEPT !.remoteStatus = "terminal"]
  <2>1. row' = row \/ row' = [row EXCEPT ![r].remoteStatus = "terminal"]
    BY <1>5, Zenon DEF StartAbort
  <2>2. row' = row \/ row' = [row EXCEPT ![r] = x]  BY <1>0, <2>1
  <2>3. Quiet(x, row[r])  BY <1>0, QuietFrame
  <2>4. start' = [start EXCEPT ![r] = "trip_restart"] \/ start' = [start EXCEPT ![r] = "done"]
    BY <1>5, Zenon DEF StartAbort
  <2>5. start'[r] \notin RejectDue  BY <1>0, <2>4 DEF RejectDue
  <2> HIDE DEF x
  <2> QED  BY <1>q, <1>u, <1>s, <2>2, <2>3, <2>5
<1>6. CASE \/ StartCheck(r) \/ Reserve(r) \/ SendStart(r) \/ TripStartRefusal(r)
           \/ TripMismatch(r) \/ StartTripRestart(r)
  <2>1. row' = row
    BY <1>6 DEF StartCheck, Reserve, SendStart, TripStartRefusal, TripMismatch, StartTripRestart
  <2>2. start'[r] \in RejectDue => start[r] = "trip_mismatch"
    BY <1>0, <1>6 DEF StartCheck, Reserve, SendStart, TripStartRefusal, TripMismatch,
                      StartTripRestart, RejectDue
  <2>3. Quiet(row[r], row[r])  BY <1>0, QuietFrame
  <2> QED  BY <1>q, <1>u, <1>s, <2>1, <2>2, <2>3
<1> QED  BY <1>1, <1>2, <1>3, <1>4, <1>5, <1>6 DEF StartStep

\* What a unit does to the row it works on.
UnitRow(u, x, w) ==
    \/ Quiet(x, w)
    \/ u.pc = "commit" /\ w.importState = "pending"
       /\ x = [w EXCEPT !.importState = "observations_committed"]
    \/ u.pc = "stage" /\ u.seen # "pending" /\ w.importState = u.seen /\ x = Advanced(w)
    \/ u.pc = "reject" /\ x = Rejected(w)
    \/ u.pc = "overdue" /\ w.importState = "pending" /\ x = Rejected(w)
    \/ u.pc = "begin" /\ ~w.extId /\ x = [w EXCEPT !.orphaned = TRUE]
    \/ u.pc = "begin" /\ w.extId /\ w.attempts < MaxDeleteAttempts
       /\ x = [w EXCEPT !.attempts = w.attempts + 1]

LEMMA UnitRows ==
  ASSUME TypeOK, NEW p \in Processes, UnitStep(p)
  PROVE  /\ \A q \in Runs \ {unit[p].run} : row'[q] = row[q]
         /\ UnitRow(unit[p], row'[unit[p].run], row[unit[p].run])
<1> DEFINE r == unit[p].run
           w == row[r]
<1>0. /\ r \in Runs /\ w \in Row /\ unit[p] \in Unit /\ row \in [Runs -> Row]
  BY UnitUpdate DEF TypeOK
<1>q. ASSUME NEW x, Quiet(x, w), row' = row \/ row' = [row EXCEPT ![r] = x]
      PROVE  (\A q \in Runs \ {r} : row'[q] = row[q]) /\ UnitRow(unit[p], row'[r], w)
  BY <1>0, <1>q, OneRowQuiet DEF UnitRow
<1>x. ASSUME NEW x, UnitRow(unit[p], x, w), row' = row \/ row' = [row EXCEPT ![r] = x]
      PROVE  (\A q \in Runs \ {r} : row'[q] = row[q]) /\ UnitRow(unit[p], row'[r], w)
  <2>1. UnitRow(unit[p], w, w)  BY <1>0, QuietFrame DEF UnitRow
  <2> QED  BY <1>0, <1>x, <2>1, OneRowMoves
<1>1. CASE BeginOrphan(p)
  <2> DEFINE x == [w EXCEPT !.orphaned = TRUE]
  <2>1. row' = [row EXCEPT ![r] = x]  BY <1>0, <1>1 DEF BeginOrphan
  <2>2. unit[p].pc = "begin" /\ ~w.extId  BY <1>1 DEF BeginOrphan, At
  <2>3. UnitRow(unit[p], x, w)  BY <2>2 DEF UnitRow
  <2> HIDE DEF x
  <2> QED  BY <1>x, <2>1, <2>3
<1>2. CASE BeginAttempt(p)
  <2> DEFINE x == [w EXCEPT !.attempts = w.attempts + 1]
  <2>1. row' = [row EXCEPT ![r] = x]  BY <1>0, <1>2 DEF BeginAttempt
  <2>2. unit[p].pc = "begin" /\ w.extId /\ w.attempts < MaxDeleteAttempts
    BY <1>2 DEF BeginAttempt, Attemptable, At
  <2>3. UnitRow(unit[p], x, w)  BY <2>2 DEF UnitRow
  <2> HIDE DEF x
  <2> QED  BY <1>x, <2>1, <2>3
<1>3. CASE Reject(p) \/ OverdueReject(p)
  <2> DEFINE x == Rejected(w)
  <2>1. \/ row' = row
        \/ /\ row' = [row EXCEPT ![r] = x]
           /\ unit[p].pc = "reject" \/ (unit[p].pc = "overdue" /\ w.importState = "pending")
    BY <1>3 DEF Reject, OverdueReject, At
  <2>2. unit[p].pc = "reject" \/ (unit[p].pc = "overdue" /\ w.importState = "pending")
          => UnitRow(unit[p], x, w)
    BY DEF UnitRow
  <2> HIDE DEF x
  <2>3. Quiet(w, w)  BY <1>0, QuietFrame
  <2> QED  BY <1>x, <1>q, <2>1, <2>2, <2>3
<1>4. CASE Stage1Commit(p)
  <2> DEFINE x == [w EXCEPT !.importState = "observations_committed"]
  <2>1. \/ row' = row
        \/ /\ row' = [row EXCEPT ![r] = x]
           /\ unit[p].pc = "commit" /\ w.importState = "pending"
    BY <1>0, <1>4 DEF Stage1Commit, Exhausted, At
  <2>2. unit[p].pc = "commit" /\ w.importState = "pending" => UnitRow(unit[p], x, w)
    BY DEF UnitRow
  <2> HIDE DEF x
  <2>3. Quiet(w, w)  BY <1>0, QuietFrame
  <2> QED  BY <1>x, <1>q, <2>1, <2>2, <2>3
<1>5. CASE LaterStage(p)
  <2> DEFINE x == Advanced(w)
  <2>1. \/ row' = row
        \/ /\ row' = [row EXCEPT ![r] = x]
           /\ unit[p].pc = "stage" /\ unit[p].seen # "pending" /\ w.importState = unit[p].seen
    BY <1>5 DEF LaterStage, Exhausted, At
  <2>2. unit[p].pc = "stage" /\ unit[p].seen # "pending" /\ w.importState = unit[p].seen
          => UnitRow(unit[p], x, w)
    BY DEF UnitRow
  <2> HIDE DEF x
  <2>3. Quiet(w, w)  BY <1>0, QuietFrame
  <2> QED  BY <1>x, <1>q, <2>1, <2>2, <2>3
<1>6. CASE CountPoll(p) \/ PlanSettlement(p)
  <2> DEFINE x == [w EXCEPT !.polls = w.polls + 1]
  <2>1. row' = row \/ row' = [row EXCEPT ![r] = x]
    BY <1>0, <1>6 DEF CountPoll, PlanSettlement
  <2>2. Quiet(x, w)  BY <1>0, QuietFrame
  <2> HIDE DEF x
  <2> QED  BY <1>q, <2>1, <2>2
<1>7. CASE CountReads(p)
  <2> DEFINE x == [w EXCEPT !.reads = w.reads + 1]
  <2>1. row' = row \/ row' = [row EXCEPT ![r] = x]  BY <1>0, <1>7 DEF CountReads
  <2>2. Quiet(x, w)  BY <1>0, QuietFrame
  <2> HIDE DEF x
  <2> QED  BY <1>q, <2>1, <2>2
<1>8. CASE GetRun(p) \/ Confirm(p) \/ Abort(p)
  <2> DEFINE t == [w EXCEPT !.remoteStatus = "terminal"]
             a == [w EXCEPT !.remoteStatus = "active"]
  <2>1. Quiet(t, w) /\ (w.remoteStatus # "terminal" => Quiet(a, w)) /\ Quiet(w, w)
    BY <1>0, QuietFrame
  <2>2. \/ row' = row
        \/ row' = [row EXCEPT ![r] = t]
        \/ w.remoteStatus # "terminal" /\ row' = [row EXCEPT ![r] = a]
    <3>1. CASE GetRun(p) \/ Confirm(p)  BY <1>0, <3>1 DEF GetRun, Confirm, Observed
    <3>2. CASE Abort(p)
      <4>1. row' = row \/ row' = [row EXCEPT ![r].remoteStatus = "terminal"]
        BY <3>2, Zenon DEF Abort
      <4> QED  BY <1>0, <4>1
    <3> QED  BY <1>8, <3>1, <3>2
  <2> HIDE DEF t, a
  <2> QED  BY <1>q, <2>1, <2>2
<1>9. CASE BeginAtCap(p)
  <2> DEFINE x == MarkDeleteFailed(w)
  <2>1. w.storageState # "deleted" /\ row' = [row EXCEPT ![r] = x]
    BY <1>9 DEF BeginAtCap, Attemptable
  <2>2. Quiet(x, w)  BY <1>0, <2>1, QuietFrame
  <2> HIDE DEF x
  <2> QED  BY <1>q, <2>1, <2>2
<1>10. CASE Finish(p)
  <2> DEFINE v == w.verified \cup unit[p].deleted
             y == [w EXCEPT !.verified = v]
             z == [y EXCEPT !.storageState = "deleted"]
             s == Stamp(z)
             f == MarkDeleteFailed(y)
  <2>1. \/ row' = [row EXCEPT ![r] = s]
        \/ row' = [row EXCEPT ![r] = f] /\ y.storageState # "deleted"
        \/ row' = [row EXCEPT ![r] = y]
    BY <1>10, Zenon DEF Finish
  <2>2. v \in SUBSET Storage  BY <1>0, RowFields, UnitUpdate
  <2>3. /\ y \in Row /\ y.orphaned = w.orphaned /\ y.storageState = w.storageState
        /\ y.extId = w.extId /\ y.mismatch = w.mismatch /\ y.importState = w.importState
        /\ y.attempts = w.attempts /\ y.remoteStatus = w.remoteStatus
    <3> HIDE DEF v
    <3> QED  BY <1>0, <2>2 DEF Row
  <2> HIDE DEF y
  <2>4. /\ z \in Row /\ z.orphaned = y.orphaned /\ z.storageState = "deleted"
        /\ z.extId = y.extId /\ z.mismatch = y.mismatch /\ z.importState = y.importState
        /\ z.attempts = y.attempts /\ z.remoteStatus = y.remoteStatus
    BY <2>3 DEF Row
  <2> HIDE DEF z
  <2>5. Quiet(s, w)  BY <2>3, <2>4, StampFields DEF Quiet
  <2>6. y.storageState # "deleted" => Quiet(f, w)  BY <2>3, FailedFields DEF Quiet
  <2>7. Quiet(y, w)  BY <2>3 DEF Quiet
  <2> HIDE DEF s, f
  <2> QED  BY <1>q, <2>1, <2>5, <2>6, <2>7
<1>11. CASE \/ RecordUsage(p) \/ ReadOutstanding(p) \/ ResumeMismatchTrip(p) \/ ImportRead(p)
            \/ Stage1Check(p) \/ Fetch(p) \/ BeginNothing(p) \/ DeleteStorage(p)
            \/ DeletesSent(p) \/ PlanSettles(p) \/ TripRestart(p)
  <2>1. row' = row
    BY <1>11 DEF RecordUsage, ReadOutstanding, ResumeMismatchTrip, ImportRead, Stage1Check,
                 Fetch, BeginNothing, DeleteStorage, DeletesSent, PlanSettles, TripRestart
  <2>2. Quiet(w, w)  BY <1>0, QuietFrame
  <2> QED  BY <1>q, <2>1, <2>2
<1> QED
  BY <1>1, <1>2, <1>3, <1>4, <1>5, <1>6, <1>7, <1>8, <1>9, <1>10, <1>11 DEF UnitStep

\* How a unit comes to the points of selector 2's import: everything else it may
\* turn to reads its row again first.
ImportingPC == {"read", "stage", "count", "fetch", "commit"}
ImportPC == ImportingPC \cup {"outstanding", "mm_trip", "reject"}

Imports(n, u, x, w) ==
    \/ n.pc \notin ImportPC
    \/ n.pc = u.pc /\ n.seen = u.seen /\ x = w
    \/ u.pc = "outstanding" /\ x = w
       /\ \/ n.pc = "mm_trip" /\ w.mismatch
          \/ n.pc = "read" /\ ~w.mismatch
    \/ u.pc = "mm_trip" /\ n.pc = "reject" /\ x = w
    \/ u.pc = "read" /\ n.pc = "stage" /\ n.seen = w.importState /\ x = w
    \/ u.pc = "stage" /\ u.seen = "pending" /\ n.pc \in {"reject", "count"} /\ x = w
    \/ u.pc = "count" /\ n.pc \in {"reject", "fetch"}
    \/ u.pc = "fetch" /\ n.pc \in {"reject", "commit"} /\ x = w
    \/ u.pc = "commit" /\ w.importState = "pending" /\ n.pc = "reject" /\ x = w
    \/ u.pc \in {"commit", "stage"} /\ n.pc = "read"

LEMMA GotoFields ==
  ASSUME TypeOK, NEW p \in Processes, NEW pc, Goto(p, pc)
  PROVE  /\ unit'[p].pc = pc /\ unit'[p].run = unit[p].run /\ unit'[p].seen = unit[p].seen
         /\ \A o \in Processes \ {p} : unit'[o] = unit[o]
<1>1. unit \in [Processes -> Unit]  BY DEF TypeOK
<1> QED  BY <1>1 DEF Goto, Unit

LEMMA EndFields ==
  ASSUME TypeOK, NEW p \in Processes, EndUnit(p)
  PROVE  unit'[p].pc = "idle"
<1>1. unit \in [Processes -> Unit]  BY DEF TypeOK
<1>2. unit'[p] = IdleUnit  BY <1>1 DEF EndUnit
<1> QED  BY <1>2 DEF IdleUnit

LEMMA UnitImports ==
  ASSUME TypeOK, NEW p \in Processes, UnitStep(p)
  PROVE  LET r == unit[p].run
         IN  /\ unit'[p].pc = "idle" \/ unit'[p].run = r
             /\ Imports(unit'[p], unit[p], row'[r], row[r])
<1> DEFINE r == unit[p].run
           w == row[r]
           Goal == /\ unit'[p].pc = "idle" \/ unit'[p].run = r
                   /\ Imports(unit'[p], unit[p], row'[r], w)
<1>0. r \in Runs /\ unit[p] \in Unit /\ unit \in [Processes -> Unit] /\ row \in [Runs -> Row]
  BY UnitUpdate DEF TypeOK
<1>e. ASSUME EndUnit(p) PROVE Goal
  BY <1>e, EndFields DEF Imports, ImportPC, ImportingPC
<1>v. ASSUME NEW pc, Goto(p, pc), pc \notin ImportPC PROVE Goal
  BY <1>v, GotoFields DEF Imports
<1>n. {"poll_get", "usage", "plan", "begin", "abort", "confirm", "delete", "finish"}
        \cap ImportPC = {}
  BY DEF ImportPC, ImportingPC
<1>1. CASE ReadOutstanding(p)
  <2>1. row' = row /\ unit[p].pc = "outstanding"  BY <1>1 DEF ReadOutstanding, At
  <2>2. \/ Goto(p, "plan") \/ Goto(p, "begin")
        \/ Goto(p, "mm_trip") /\ w.mismatch
        \/ Goto(p, "read") /\ ~w.mismatch
    BY <1>1 DEF ReadOutstanding
  <2>3. CASE Goto(p, "plan") \/ Goto(p, "begin")  BY <1>v, <1>n, <2>3
  <2>4. CASE Goto(p, "mm_trip") /\ w.mismatch  BY <2>1, <2>4, GotoFields DEF Imports
  <2>5. CASE Goto(p, "read") /\ ~w.mismatch  BY <2>1, <2>5, GotoFields DEF Imports
  <2> QED  BY <2>2, <2>3, <2>4, <2>5
<1>2. CASE ResumeMismatchTrip(p)
  BY <1>2, GotoFields DEF ResumeMismatchTrip, At, Imports
<1>3. CASE ImportRead(p)
  <2>1. row' = row /\ unit[p].pc = "read"  BY <1>3 DEF ImportRead, At
  <2>2. \/ EndUnit(p)
        \/ unit' = [unit EXCEPT ![p].pc = "stage", ![p].seen = row[r].importState]
    BY <1>3 DEF ImportRead
  <2>3. ASSUME unit' = [unit EXCEPT ![p].pc = "stage", ![p].seen = row[r].importState]
        PROVE  unit'[p].pc = "stage" /\ unit'[p].run = r /\ unit'[p].seen = w.importState
    BY <1>0, <2>3 DEF Unit
  <2> QED  BY <1>e, <2>1, <2>2, <2>3 DEF Imports
<1>4. CASE Stage1Check(p)
  <2>1. /\ row' = row /\ unit[p].pc = "stage" /\ unit[p].seen = "pending"
        /\ Goto(p, "reject") \/ Goto(p, "count")
    BY <1>4 DEF Stage1Check, At
  <2> QED  BY <2>1, GotoFields DEF Imports
<1>5. CASE CountReads(p)
  <2>1. unit[p].pc = "count" /\ (EndUnit(p) \/ Goto(p, "reject") \/ Goto(p, "fetch"))
    BY <1>5 DEF CountReads, At
  <2> QED  BY <1>e, <2>1, GotoFields DEF Imports
<1>6. CASE Fetch(p)
  <2>1. /\ row' = row /\ unit[p].pc = "fetch"
        /\ EndUnit(p) \/ Goto(p, "reject") \/ Goto(p, "commit")
    BY <1>6 DEF Fetch, At
  <2> QED  BY <1>e, <2>1, GotoFields DEF Imports
<1>7. CASE Stage1Commit(p)
  <2>1. /\ unit[p].pc = "commit"
        /\ \/ EndUnit(p) \/ Goto(p, "read")
           \/ row[r].importState = "pending" /\ Goto(p, "reject") /\ row' = row
    BY <1>7 DEF Stage1Commit, Exhausted, At
  <2> QED  BY <1>e, <2>1, GotoFields DEF Imports
<1>8. CASE LaterStage(p)
  <2>1. unit[p].pc = "stage" /\ (EndUnit(p) \/ Goto(p, "read"))
    BY <1>8 DEF LaterStage, Exhausted, At
  <2> QED  BY <1>e, <2>1, GotoFields DEF Imports
<1>9. CASE OverdueReject(p) \/ BeginAttempt(p) \/ Confirm(p)
  <2>1. unit'[p].pc \in {"begin", "abort", "delete", "finish"} /\ unit'[p].run = r
    BY <1>0, <1>9, ConfirmUnit DEF OverdueReject, BeginAttempt, Unit
  <2> QED  BY <1>n, <2>1 DEF Imports
<1>10. CASE DeleteStorage(p)
  <2>1. /\ unit[p].pc = "delete"
        /\ \E s, v : unit' = [unit EXCEPT ![p] = Answered(unit[p], s, v)]
    BY <1>10, Zenon DEF DeleteStorage, At
  <2>2. PICK s, v : unit' = [unit EXCEPT ![p] = Answered(unit[p], s, v)]  BY <2>1
  <2>3. Answered(unit[p], s, v).pc = "delete" /\ Answered(unit[p], s, v).run = r
    BY <1>0, <2>1 DEF Answered, Unit
  <2>4. unit'[p] = Answered(unit[p], s, v)  BY <1>0, <2>2
  <2> QED  BY <1>n, <2>3, <2>4 DEF Imports
<1>11. CASE Abort(p)
  <2>1. unit'[p].pc \in {"delete", "confirm"} /\ unit'[p].run = r  BY <1>11, AbortFields
  <2> QED  BY <1>n, <2>1 DEF Imports
<1>12. CASE \/ CountPoll(p) \/ RecordUsage(p) \/ PlanSettlement(p) \/ PlanSettles(p) \/ Reject(p)
            \/ BeginNothing(p) \/ BeginOrphan(p) \/ BeginAtCap(p) \/ DeletesSent(p) \/ Finish(p)
  <2>1. EndUnit(p) \/ Goto(p, "poll_get") \/ Goto(p, "finish")
    BY <1>12 DEF CountPoll, RecordUsage, PlanSettlement, PlanSettles, Reject, BeginNothing,
                 BeginOrphan, BeginAtCap, DeletesSent, Finish
  <2> QED  BY <1>e, <1>v, <1>n, <2>1
<1>13. CASE GetRun(p)
  <2>1. CASE EndUnit(p)  BY <1>e, <2>1
  <2>2. CASE unit'[p].pc = "usage" /\ unit'[p].run = r  BY <1>n, <2>2 DEF Imports
  <2> QED  BY <1>13, <2>1, <2>2, GetRunUnit
<1>14. CASE TripRestart(p)
  <2>1. row' = row  BY <1>14 DEF TripRestart
  <2> QED  BY <1>14, <2>1, TripRestartUnit DEF Imports
<1> QED
  BY <1>1, <1>2, <1>3, <1>4, <1>5, <1>6, <1>7, <1>8, <1>9, <1>10, <1>11, <1>12, <1>13, <1>14
  DEF UnitStep

\* What the rest of the system does: rows stay as they were in what matters here,
\* start jobs end, and units end or are handed a row by a selector.
Selected(u, w) ==
    \/ u.pc = "poll"
    \/ /\ u.pc = "outstanding" /\ w.remoteStatus = "terminal"
       /\ \/ w.importState \notin TerminalImport
          \/ w.storageState = "deleted"
          \/ w.attempts < MaxDeleteAttempts /\ ~w.orphaned
    \/ u.pc = "overdue" /\ w.attempts < MaxDeleteAttempts /\ ~w.orphaned

LEMMA OtherRows ==
  ASSUME TypeOK,
         \/ \E r \in Runs : RemoteFinishes(r) \/ DeadlinePasses(r)
         \/ \E p \in Processes : Select(p) \/ Sweep(p) \/ Crash(p)
         \/ OwnerReset
         \/ UNCHANGED vars
  PROVE  /\ \A q \in Runs : /\ Quiet(row'[q], row[q])
                            /\ start'[q] = start[q] \/ start'[q] = "done"
         /\ \A p \in Processes : \/ unit'[p] = unit[p] \/ unit'[p].pc = "idle"
                                 \/ /\ Selected(unit'[p], row[unit'[p].run]) /\ unit'[p].run \in Runs
                                    /\ UNCHANGED <<row, trip>>
<1> DEFINE Goal ==
             /\ \A q \in Runs : /\ Quiet(row'[q], row[q])
                                /\ start'[q] = start[q] \/ start'[q] = "done"
             /\ \A p \in Processes :
                   \/ unit'[p] = unit[p] \/ unit'[p].pc = "idle"
                   \/ /\ Selected(unit'[p], row[unit'[p].run]) /\ unit'[p].run \in Runs
                      /\ UNCHANGED <<row, trip>>
<1>0. /\ row \in [Runs -> Row] /\ unit \in [Processes -> Unit]
      /\ \A q \in Runs : row[q] \in Row /\ Quiet(row[q], row[q])
  BY QuietFrame DEF TypeOK
<1>1. ASSUME NEW r \in Runs, DeadlinePasses(r) PROVE Goal
  <2> DEFINE x == [row[r] EXCEPT !.due = TRUE]
  <2>1. row' = [row EXCEPT ![r] = x] /\ UNCHANGED <<start, unit>>
    BY <1>0, <1>1 DEF DeadlinePasses
  <2>2. Quiet(x, row[r])  BY <1>0, QuietFrame
  <2> HIDE DEF x
  <2>3. \A q \in Runs : Quiet(row'[q], row[q])  BY <1>0, <2>1, <2>2
  <2> QED  BY <2>1, <2>3
<1>2. ASSUME NEW p \in Processes, TripStranded(p) PROVE Goal
  <2>1. ASSUME NEW q \in Runs PROVE Quiet(row'[q], row[q])
    <3>1. row'[q] = IF StrandedExhausted(q) THEN MarkDeleteFailed(row[q]) ELSE row[q]
      BY <1>2 DEF TripStranded
    <3>2. CASE StrandedExhausted(q)
      <4>1. row[q].storageState # "deleted"  BY <3>2 DEF StrandedExhausted
      <4>2. Quiet(MarkDeleteFailed(row[q]), row[q])  BY <1>0, <4>1, QuietFrame
      <4> QED  BY <3>1, <3>2, <4>2
    <3>3. CASE ~StrandedExhausted(q)  BY <1>0, <3>1, <3>3
    <3> QED  BY <3>2, <3>3
  <2>2. UNCHANGED <<start, unit>>  BY <1>2 DEF TripStranded
  <2> QED  BY <2>1, <2>2
<1>3. ASSUME NEW p \in Processes, Select(p) PROVE Goal
  <2>1. PICK r \in Runs :
          SelectActive(p, r) \/ SelectOutstanding(p, r) \/ SelectOverdue(p, r)
    BY <1>3 DEF Select
  <2>2. PICK pc \in {"poll", "outstanding", "overdue"} :
          /\ Handed(p, r, pc)
          /\ \/ pc = "poll"
             \/ pc = "outstanding" /\ SelectOutstanding(p, r)
             \/ pc = "overdue" /\ SelectOverdue(p, r)
    BY <2>1 DEF SelectActive, SelectOutstanding, SelectOverdue
  <2> DEFINE u == [IdleUnit EXCEPT !.pc = pc, !.run = r]
  <2>3. u.pc = pc /\ u.run = r  BY DEF IdleUnit
  <2>4. unit' = [unit EXCEPT ![p] = u] /\ UNCHANGED <<row, trip, start>>  BY <2>2 DEF Handed
  <2> HIDE DEF u
  <2>5. Selected(u, row[r])
    BY <2>2, <2>3 DEF Selected, SelectOutstanding, SelectOverdue, StorageWorkLeft, Decided
  <2>6. \A o \in Processes : unit'[o] = unit[o] \/ unit'[o] = u  BY <1>0, <2>4
  <2> QED  BY <1>0, <2>3, <2>4, <2>5, <2>6
<1>4. ASSUME NEW p \in Processes, Crash(p) PROVE Goal
  <2>1. /\ row' = row
        /\ unit' = [unit EXCEPT ![p] = IdleUnit]
        /\ \A q \in Runs : start'[q] = "done" \/ start'[q] = start[q]
    BY <1>4 DEF Crash
  <2>2. IdleUnit.pc = "idle"  BY DEF IdleUnit
  <2> QED  BY <1>0, <2>1, <2>2
<1>5. CASE \/ \E r \in Runs : RemoteFinishes(r)
           \/ \E p \in Processes : ReleaseUnattached(p)
           \/ OwnerReset \/ UNCHANGED vars
  <2>1. UNCHANGED <<row, start, unit>>
    BY <1>5 DEF RemoteFinishes, ReleaseUnattached, OwnerReset, vars
  <2> QED  BY <1>0, <2>1
<1> QED  BY <1>1, <1>2, <1>3, <1>4, <1>5 DEF Sweep

\* A rejection is due only before stage 1 commits: a mismatched start, and a row
\* whose start is not on record, have nothing committed.
Uncommitted == {"pending", "rejected"}
MatchOK(w, c) ==
    /\ w.mismatch => w.extId
    /\ w.mismatch \/ ~w.extId => w.importState \in Uncommitted
    /\ c \in RejectDue => w.mismatch

\* What the unit has read of its row and still goes by.
UnitMatchOK(u, w) ==
    /\ u.pc \in ImportingPC \cup {"outstanding", "mm_trip"} => w.extId
    /\ u.pc \in ImportingPC => ~w.mismatch
    /\ u.pc = "mm_trip" => w.mismatch
    /\ u.pc \in {"count", "fetch", "commit", "reject"} => w.importState \in Uncommitted
    /\ u.pc = "stage" /\ u.seen = "pending" => w.importState \in Uncommitted

MatchInv ==
    /\ \A r \in Runs : MatchOK(row[r], start[r])
    /\ \A p \in Processes : UnitMatchOK(unit[p], row[unit[p].run])

Rejects(x, w) == x.importState = "rejected" => w.importState \in Uncommitted

LEMMA QuietMatch ==
  ASSUME NEW x, NEW w, Quiet(x, w)
  PROVE  /\ \A c, d : MatchOK(w, c) /\ (d \in RejectDue => c \in RejectDue) => MatchOK(x, d)
         /\ \A u : UnitMatchOK(u, w) => UnitMatchOK(u, x)
         /\ Rejects(x, w)
  BY DEF Quiet, MatchOK, UnitMatchOK, Rejects, Uncommitted

LEMMA StartKeepsMatch ==
  ASSUME TypeOK, NEW r \in Runs, StartsRow(r), RunOK(row[r], resv[r], remote[r], start[r]),
         MatchOK(row[r], start[r])
  PROVE  /\ MatchOK(row'[r], start'[r]) /\ Rejects(row'[r], row[r])
         /\ \A u : UnitMatchOK(u, row[r]) => UnitMatchOK(u, row'[r])
<1> DEFINE w == row[r]
           x == row'[r]
<1>0. w \in Row  BY DEF TypeOK
<1>1. CASE Quiet(x, w) /\ (start'[r] \in RejectDue => start[r] = "trip_mismatch")
  BY <1>1, QuietMatch DEF RejectDue
<1>2. CASE /\ start[r] \in {"ok", "mismatched"}
           /\ start'[r] \in RejectDue => start[r] = "mismatched"
           /\ x = Started(w, start[r] = "mismatched")
  <2> DEFINE b == start[r] = "mismatched"
  <2>1. x = Started(w, b)  BY <1>2
  <2> HIDE DEF b
  <2>2. x.extId = TRUE /\ x.mismatch = b /\ x.importState = w.importState
    BY <1>0, <2>1 DEF Started, Row
  <2>3. ~w.extId  BY <1>2 DEF RunOK, Unrecorded
  <2>4. start'[r] \in RejectDue => b  BY <1>2 DEF b
  <2>5. w.importState \in Uncommitted  BY <2>3 DEF MatchOK
  <2> QED  BY <2>2, <2>3, <2>4, <2>5 DEF MatchOK, UnitMatchOK, Rejects
<1>3. CASE start[r] = "reject" /\ start'[r] = "abort" /\ x = Rejected(w)
  <2>1. /\ x.extId = w.extId /\ x.mismatch = w.mismatch
        /\ x.importState = IF w.importState \in TerminalImport THEN w.importState ELSE "rejected"
    BY <1>0, <1>3, RejectedFields
  <2>2. w.mismatch /\ w.importState \in Uncommitted  BY <1>3 DEF MatchOK, RejectDue
  <2>3. x.importState \in Uncommitted  BY <2>1, <2>2 DEF Uncommitted, TerminalImport
  <2> QED  BY <1>3, <2>1, <2>2, <2>3 DEF MatchOK, UnitMatchOK, Rejects, RejectDue
<1> QED  BY <1>1, <1>2, <1>3 DEF StartsRow

LEMMA UnitKeepsMatch ==
  ASSUME NEW w \in Row, NEW x, NEW u, NEW n, NEW c, UnitRow(u, x, w), Imports(n, u, x, w),
         u.pc = "stage" => u.seen \notin TerminalImport,
         MatchOK(w, c), UnitMatchOK(u, w)
  PROVE  MatchOK(x, c) /\ Rejects(x, w) /\ UnitMatchOK(n, x)
<1>1. x.extId = w.extId /\ x.mismatch = w.mismatch
  <2>1. CASE Quiet(x, w)  BY <2>1 DEF Quiet
  <2>2. CASE x = [w EXCEPT !.importState = "observations_committed"]  BY <2>2 DEF Row
  <2>3. CASE u.pc = "stage" /\ u.seen # "pending" /\ w.importState = u.seen /\ x = Advanced(w)
    BY <2>3, AdvancedFields
  <2>4. CASE x = Rejected(w)  BY <2>4, RejectedFields
  <2>5. CASE x = [w EXCEPT !.orphaned = TRUE]  BY <2>5 DEF Row
  <2>6. CASE x = [w EXCEPT !.attempts = w.attempts + 1]  BY <2>6 DEF Row
  <2> QED  BY <2>1, <2>2, <2>3, <2>4, <2>5, <2>6 DEF UnitRow
<1>2. \/ x.importState = w.importState
      \/ w.importState \in Uncommitted /\ x.importState = "rejected"
      \/ u.pc = "commit" /\ x.importState = "observations_committed"
      \/ u.pc = "stage" /\ u.seen # "pending" /\ x.importState # "rejected"
  <2>1. CASE Quiet(x, w)  BY <2>1 DEF Quiet
  <2>2. CASE u.pc = "commit" /\ x = [w EXCEPT !.importState = "observations_committed"]
    BY <2>2 DEF Row
  <2>3. CASE u.pc = "stage" /\ u.seen # "pending" /\ w.importState = u.seen /\ x = Advanced(w)
    BY <2>3, AdvancedFields
  <2>4. CASE /\ x = Rejected(w)
             /\ u.pc = "reject" \/ (u.pc = "overdue" /\ w.importState = "pending")
    <3>1. w.importState \in Uncommitted  BY <2>4 DEF UnitMatchOK, Uncommitted
    <3>2. w.importState \in TerminalImport => w.importState = "rejected"
      BY <3>1 DEF Uncommitted, TerminalImport
    <3>3. x.importState = "rejected"  BY <2>4, <3>2, RejectedFields
    <3> QED  BY <3>1, <3>3
  <2>5. CASE x = [w EXCEPT !.orphaned = TRUE]  BY <2>5 DEF Row
  <2>6. CASE x = [w EXCEPT !.attempts = w.attempts + 1]  BY <2>6 DEF Row
  <2> QED  BY <2>1, <2>2, <2>3, <2>4, <2>5, <2>6 DEF UnitRow
<1>3. u.pc \in {"commit", "stage"} => w.extId /\ ~w.mismatch
  BY DEF UnitMatchOK, ImportingPC
<1>4. Rejects(x, w)  BY <1>2 DEF Rejects, Uncommitted
<1>5. MatchOK(x, c)  BY <1>1, <1>2, <1>3 DEF MatchOK, Uncommitted
<1>6. UnitMatchOK(n, x)
  <2>1. CASE n.pc \notin ImportPC  BY <2>1 DEF ImportPC, UnitMatchOK, ImportingPC
  <2>2. CASE x = w /\ u.pc = "outstanding" /\ ((n.pc = "mm_trip" /\ w.mismatch)
                                               \/ (n.pc = "read" /\ ~w.mismatch))
    BY <2>2 DEF UnitMatchOK, ImportingPC
  <2>3. CASE u.pc = "mm_trip" /\ n.pc = "reject" /\ x = w
    BY <2>3 DEF UnitMatchOK, MatchOK, ImportingPC
  <2>4. CASE u.pc = "read" /\ n.pc = "stage" /\ n.seen = w.importState /\ x = w
    BY <2>4 DEF UnitMatchOK, ImportingPC, Uncommitted
  <2>5. CASE u.pc = "stage" /\ u.seen = "pending" /\ n.pc \in {"reject", "count"} /\ x = w
    BY <2>5 DEF UnitMatchOK, ImportingPC
  <2>6. CASE u.pc = "count" /\ n.pc \in {"reject", "fetch"}
    BY <1>1, <1>2, <2>6 DEF UnitMatchOK, ImportingPC, Uncommitted
  <2>7. CASE u.pc = "fetch" /\ n.pc \in {"reject", "commit"} /\ x = w
    BY <2>7 DEF UnitMatchOK, ImportingPC
  <2>8. CASE u.pc = "commit" /\ w.importState = "pending" /\ n.pc = "reject" /\ x = w
    BY <2>8 DEF UnitMatchOK, ImportingPC
  <2>9. CASE u.pc \in {"commit", "stage"} /\ n.pc = "read"
    BY <1>1, <1>3, <2>9 DEF UnitMatchOK, ImportingPC
  <2>10. CASE n.pc = u.pc /\ n.seen = u.seen /\ x = w  BY <2>10 DEF UnitMatchOK
  <2> QED  BY <2>1, <2>2, <2>3, <2>4, <2>5, <2>6, <2>7, <2>8, <2>9, <2>10 DEF Imports
<1> QED  BY <1>4, <1>5, <1>6

LEMMA MatchSteps ==
  ASSUME OneExecutor, TypeOK, StageSeen, RunsOK, MatchInv, [Next]_vars
  PROVE  MatchInv' /\ \A r \in Runs : Rejects(row'[r], row[r])
<1> DEFINE Goal == MatchInv' /\ \A r \in Runs : Rejects(row'[r], row[r])
<1>0. /\ \A r \in Runs : row[r] \in Row /\ Quiet(row[r], row[r]) /\ MatchOK(row[r], start[r])
      /\ \A p \in Processes : /\ unit[p].run \in Runs
                              /\ UnitMatchOK(unit[p], row[unit[p].run])
  BY QuietFrame, UnitUpdate DEF TypeOK, MatchInv
<1>1. ASSUME NEW r \in Runs, StartCheck(r) \/ StartStep(r) PROVE Goal
  <2>1. /\ unit' = unit /\ StartsRow(r)
        /\ \A q \in Runs \ {r} : row'[q] = row[q] /\ start'[q] = start[q]
    BY <1>1, StartRows
  <2>2. RunOK(row[r], resv[r], remote[r], start[r])  BY DEF RunsOK
  <2>3. /\ MatchOK(row'[r], start'[r]) /\ Rejects(row'[r], row[r])
        /\ \A u : UnitMatchOK(u, row[r]) => UnitMatchOK(u, row'[r])
    BY <1>0, <2>1, <2>2, StartKeepsMatch
  <2>4. \A q \in Runs : Rejects(row[q], row[q])  BY <1>0, QuietMatch
  <2>5. \A q \in Runs : MatchOK(row'[q], start'[q]) /\ Rejects(row'[q], row[q])
    BY <1>0, <2>1, <2>3, <2>4
  <2>6. \A p \in Processes : UnitMatchOK(unit'[p], row'[unit'[p].run])
    BY <1>0, <2>1, <2>3
  <2> QED  BY <2>5, <2>6 DEF MatchInv
<1>2. ASSUME NEW p \in Processes, UnitStep(p) PROVE Goal
  <2> DEFINE r == unit[p].run
  <2>1. /\ \A q \in Runs \ {r} : row'[q] = row[q]
        /\ UnitRow(unit[p], row'[r], row[r])
    BY <1>2, UnitRows
  <2>2. /\ unit'[p].pc = "idle" \/ unit'[p].run = r
        /\ Imports(unit'[p], unit[p], row'[r], row[r])
    BY <1>2, UnitImports
  <2>3. start' = start
    BY <1>2 DEF UnitStep, CountPoll, GetRun, RecordUsage, PlanSettlement, ReadOutstanding,
                ResumeMismatchTrip, ImportRead, Stage1Check, CountReads, Fetch, Stage1Commit,
                LaterStage, Exhausted, Reject, OverdueReject, BeginNothing, BeginOrphan,
                BeginAtCap, BeginAttempt, Abort, Confirm, DeleteStorage, DeletesSent, Finish,
                TripRestart, PlanSettles
  <2>4. /\ MatchOK(row'[r], start[r]) /\ Rejects(row'[r], row[r])
        /\ UnitMatchOK(unit'[p], row'[r])
    <3>1. unit[p].pc = "stage" => unit[p].seen \notin TerminalImport  BY DEF StageSeen
    <3>2. row[r] \in Row /\ MatchOK(row[r], start[r]) /\ UnitMatchOK(unit[p], row[r])
      BY <1>0
    <3> HIDE DEF r
    <3> QED  BY <2>1, <2>2, <3>1, <3>2, UnitKeepsMatch
  <2>5. \A q \in Runs : Rejects(row[q], row[q])  BY <1>0, QuietMatch
  <2>6. \A q \in Runs : MatchOK(row'[q], start'[q]) /\ Rejects(row'[q], row[q])
    BY <1>0, <2>1, <2>3, <2>4, <2>5
  <2>7. UnitMatchOK(unit'[p], row'[unit'[p].run])
    <3>1. unit'[p].pc = "idle" => \A w : UnitMatchOK(unit'[p], w)
      BY DEF UnitMatchOK, ImportingPC
    <3> QED  BY <2>2, <2>4, <3>1
  <2>8. \A o \in Processes : UnitMatchOK(unit'[o], row'[unit'[o].run])
    BY <2>7 DEF OneExecutor
  <2> QED  BY <2>6, <2>8 DEF MatchInv
<1>3. ASSUME \/ \E r \in Runs : RemoteFinishes(r) \/ DeadlinePasses(r)
             \/ \E p \in Processes : Select(p) \/ Sweep(p) \/ Crash(p)
             \/ OwnerReset
             \/ UNCHANGED vars
      PROVE  Goal
  <2>1. /\ \A q \in Runs : /\ Quiet(row'[q], row[q])
                           /\ start'[q] = start[q] \/ start'[q] = "done"
        /\ \A p \in Processes : \/ unit'[p] = unit[p] \/ unit'[p].pc = "idle"
                                \/ /\ Selected(unit'[p], row[unit'[p].run]) /\ unit'[p].run \in Runs
                                   /\ UNCHANGED <<row, trip>>
    BY <1>3, OtherRows
  <2>2. "done" \notin RejectDue  BY DEF RejectDue
  <2>3. \A q \in Runs : MatchOK(row'[q], start'[q]) /\ Rejects(row'[q], row[q])
    BY <1>0, <2>1, <2>2, QuietMatch
  <2>4. ASSUME NEW p \in Processes PROVE UnitMatchOK(unit'[p], row'[unit'[p].run])
    <3>1. CASE unit'[p] = unit[p]  BY <1>0, <2>1, <3>1, QuietMatch
    <3>2. CASE unit'[p].pc = "idle"  BY <3>2 DEF UnitMatchOK, ImportingPC
    <3>3. CASE /\ Selected(unit'[p], row[unit'[p].run]) /\ unit'[p].run \in Runs
               /\ UNCHANGED <<row, trip>>
      <4> DEFINE q == unit'[p].run
      <4>1. row[q].remoteStatus = "terminal" => row[q].extId
        BY <3>3 DEF RunsOK, RunOK
      <4>2. \/ unit'[p].pc \in {"poll", "overdue"}
            \/ unit'[p].pc = "outstanding" /\ row[q].extId
        BY <3>3, <4>1 DEF Selected
      <4> QED  BY <3>3, <4>2 DEF UnitMatchOK, ImportingPC
    <3> QED  BY <2>1, <3>1, <3>2, <3>3
  <2> QED  BY <2>3, <2>4 DEF MatchInv
<1> QED  BY <1>1, <1>2, <1>3 DEF Next

\* With one process running the tick no import is rejected once its stage 1 has
\* committed: the stage-1 verdicts and the resumed mismatch go by what the unit
\* has read, and what it has read still holds (_reject, and only_from in the
\* overdue unit).
THEOREM RejectsAlwaysUncommitted ==
  ASSUME OneExecutor
  PROVE  Spec => RejectsOnlyUncommitted
<1>1. Init => MatchInv
  <2> SUFFICES ASSUME Init PROVE MatchInv
    OBVIOUS
  <2>1. \A r \in Runs : /\ row[r].mismatch = FALSE /\ row[r].importState = "pending"
                        /\ start[r] = "idle"
    BY DEF Init, NewRow
  <2>2. \A p \in Processes : unit[p].pc = "idle"  BY DEF Init, IdleUnit
  <2> QED  BY <2>1, <2>2 DEF MatchInv, MatchOK, UnitMatchOK, ImportingPC, RejectDue, Uncommitted
<1>2. TypeOK /\ StageSeen /\ RunsOK /\ MatchInv /\ [Next]_vars
        => /\ MatchInv'
           /\ \A r \in Runs : row'[r].importState = "rejected"
                                => row[r].importState \in {"pending", "rejected"}
  BY MatchSteps DEF Rejects, Uncommitted
<1> QED
  BY <1>1, <1>2, TypeCorrect, EvidenceAlways, PTL DEF Spec, RejectsOnlyUncommitted

-----------------------------------------------------------------------------
(* The owner's reset is final.                                               *)

DX == "delete_attempts_exhausted"
MarkReasons == {"orphaned_start", DX}

\* A run's latch rows, where no mark is tripped.
Stays(y, t) == \A c \in MarkReasons : y[c] = t[c] \/ (t[c] = "open" /\ y[c] # "never")

LEMMA StartTripsStay ==
  ASSUME TypeOK, NEW r \in Runs, StartCheck(r) \/ StartStep(r), NEW q \in Runs
  PROVE  Stays(trip'[q], trip[q])
<1> SUFFICES ASSUME NEW d \in MarkReasons
             PROVE  trip'[q][d] = trip[q][d] \/ (trip[q][d] = "open" /\ trip'[q][d] # "never")
  BY DEF Stays
<1>0. d \in Reason /\ d # "account_limit_refused" /\ d # "start_option_mismatch"
  BY DEF MarkReasons, DX, Reason
<1>1. CASE Reserve(r)
  <2>1. PICK b \in BOOLEAN :
          trip' = WithStrandedRefusals(IF b THEN ClearedByBump(trip) ELSE trip)
    BY <1>1 DEF Reserve
  <2>2. CASE b
    <3>1. trip'[q][d] = ClearedByBump(trip)[q][d]  BY <1>0, <2>1, <2>2, LatchRows
    <3>2. ClearedByBump(trip)[q][d] = IF trip[q][d] = "open" THEN "bumped" ELSE trip[q][d]
      BY <1>0, LatchRows
    <3> QED  BY <3>1, <3>2
  <2>3. CASE ~b  BY <1>0, <2>1, <2>3, LatchRows
  <2> QED  BY <2>2, <2>3
<1>2. CASE TripStartRefusal(r) \/ TripMismatch(r) \/ StartTripRestart(r)
  <2>1. \/ trip' = trip
        \/ trip' = Tripped(trip, r, "account_limit_refused")
        \/ trip' = Tripped(trip, r, "start_option_mismatch")
    BY <1>2 DEF TripStartRefusal, TripMismatch, StartTripRestart
  <2>2. "account_limit_refused" \in Reason /\ "start_option_mismatch" \in Reason  BY DEF Reason
  <2> QED  BY <1>0, <2>1, <2>2, LatchRows
<1>3. CASE \/ StartCheck(r) \/ CreateRun(r) \/ SendStart(r) \/ RecordStartError(r)
           \/ RecordStart(r) \/ StartReject(r) \/ StartAbort(r)
  <2>1. trip' = trip
    BY <1>3 DEF StartCheck, CreateRun, SendStart, RecordStartError, RecordStart, StartReject,
                StartAbort
  <2> QED  BY <2>1
<1> QED  BY <1>1, <1>2, <1>3 DEF StartStep

\* A unit that trips for a mark has just made it, or has spent the attempts.
UnitTrip(p) ==
    LET r == unit[p].run
    IN  \/ Stays(trip'[r], trip[r])
        \/ /\ ~row[r].orphaned /\ row'[r].orphaned /\ unit'[p].pc = "idle"
           /\ trip'[r][DX] = trip[r][DX]
        \/ /\ row[r].attempts >= MaxDeleteAttempts /\ unit[p].pc \in {"begin", "finish"}
           /\ unit'[p].pc = "idle" /\ trip'[r]["orphaned_start"] = trip[r]["orphaned_start"]

LEMMA UnitTripsMarks ==
  ASSUME TypeOK, NEW p \in Processes, UnitStep(p)
  PROVE  UnitTrip(p) /\ \A q \in Runs \ {unit[p].run} : trip'[q] = trip[q]
<1> DEFINE r == unit[p].run
           w == row[r]
<1>0. /\ r \in Runs /\ w \in Row /\ unit[p] \in Unit /\ row \in [Runs -> Row]
      /\ trip \in [Runs -> [Reason -> TripState]]
  BY UnitUpdate DEF TypeOK
<1>r. /\ "orphaned_start" \in Reason /\ DX \in Reason /\ MarkReasons = {"orphaned_start", DX}
      /\ DX # "orphaned_start"
  BY DEF Reason, DX, MarkReasons
<1>o. \A q \in Runs \ {r} : trip'[q] = trip[q]
  <2>1. ASSUME NEW c \in Reason, trip' = Tripped(trip, r, c)
        PROVE  \A q \in Runs \ {r} : trip'[q] = trip[q]
    BY <1>0, <2>1 DEF Tripped
  <2> QED  BY <2>1, UnitTrips
<1>s. ASSUME NEW c \in Reason \ MarkReasons, trip' = trip \/ trip' = Tripped(trip, r, c)
      PROVE  Stays(trip'[r], trip[r])
  <2>1. \A d \in MarkReasons : trip'[r][d] = trip[r][d]
    <3>1. MarkReasons \subseteq Reason  BY <1>r
    <3> QED  BY <1>0, <1>s, <3>1, LatchRows
  <2> QED  BY <2>1 DEF Stays
<1>x. {"start_option_mismatch", "observed_excess"} \subseteq Reason \ MarkReasons
  BY DEF Reason, MarkReasons, DX
<1>1. CASE BeginOrphan(p)
  <2>1. trip' = Tripped(trip, r, "orphaned_start")  BY <1>1 DEF BeginOrphan
  <2>2. trip'[r][DX] = trip[r][DX]  BY <1>0, <1>r, <2>1, LatchRows
  <2>3. ~w.orphaned /\ row' = [row EXCEPT ![r].orphaned = TRUE]  BY <1>1 DEF BeginOrphan
  <2>4. row'[r].orphaned  BY <1>0, <2>3 DEF Row
  <2>5. unit'[p].pc = "idle"  BY <1>1, EndFields DEF BeginOrphan
  <2> QED  BY <1>o, <2>2, <2>3, <2>4, <2>5 DEF UnitTrip
<1>2. CASE BeginAtCap(p)
  <2>1. trip' = Tripped(trip, r, DX) /\ w.attempts >= MaxDeleteAttempts /\ unit[p].pc = "begin"
    BY <1>2 DEF BeginAtCap, At, DX
  <2>2. trip'[r]["orphaned_start"] = trip[r]["orphaned_start"]  BY <1>0, <1>r, <2>1, LatchRows
  <2>3. unit'[p].pc = "idle"  BY <1>2, EndFields DEF BeginAtCap
  <2> QED  BY <1>o, <2>1, <2>2, <2>3 DEF UnitTrip
<1>3. CASE Finish(p)
  <2> DEFINE y == [w EXCEPT !.verified = w.verified \cup unit[p].deleted]
  <2>1. trip' = trip \/ (trip' = Tripped(trip, r, DX) /\ y.attempts >= MaxDeleteAttempts)
    BY <1>3, Zenon DEF Finish, DX
  <2>2. y.attempts = w.attempts  BY <1>0 DEF Row
  <2>3. unit[p].pc = "finish" /\ unit'[p].pc = "idle"  BY <1>3, EndFields DEF Finish, At
  <2> HIDE DEF y
  <2>4. CASE trip' = trip  BY <1>o, <1>s, <1>x, <2>4 DEF UnitTrip
  <2>5. CASE trip' = Tripped(trip, r, DX) /\ y.attempts >= MaxDeleteAttempts
    <3>1. trip'[r]["orphaned_start"] = trip[r]["orphaned_start"]
      BY <1>0, <1>r, <2>5, LatchRows
    <3> QED  BY <1>o, <2>2, <2>3, <2>5, <3>1 DEF UnitTrip
  <2> QED  BY <2>1, <2>4, <2>5
<1>4. CASE ~(BeginOrphan(p) \/ BeginAtCap(p) \/ Finish(p))
  <2>1. \/ trip' = trip
        \/ trip' = Tripped(trip, r, "start_option_mismatch")
        \/ trip' = Tripped(trip, r, "observed_excess")
    <3>1. CASE \/ GetRun(p) \/ RecordUsage(p) \/ Fetch(p) \/ PlanSettles(p)
      BY <3>1 DEF GetRun, RecordUsage, Fetch, PlanSettles, MayTrip
    <3>2. CASE PlanSettlement(p) \/ Confirm(p)  BY <3>2 DEF PlanSettlement, Confirm
    <3>3. CASE Abort(p)  BY <3>3, Zenon DEF Abort
    <3>4. CASE ResumeMismatchTrip(p) \/ TripRestart(p)
      BY <3>4 DEF ResumeMismatchTrip, TripRestart
    <3>5. CASE \/ CountPoll(p) \/ ReadOutstanding(p) \/ ImportRead(p) \/ Stage1Check(p)
               \/ CountReads(p) \/ Stage1Commit(p) \/ LaterStage(p) \/ Reject(p)
               \/ OverdueReject(p) \/ BeginNothing(p) \/ BeginAttempt(p) \/ DeleteStorage(p)
               \/ DeletesSent(p)
      BY <3>5 DEF CountPoll, ReadOutstanding, ImportRead, Stage1Check, CountReads,
                  Stage1Commit, LaterStage, Reject, OverdueReject, BeginNothing, BeginAttempt,
                  DeleteStorage, DeletesSent, Exhausted
    <3> QED  BY <1>4, <3>1, <3>2, <3>3, <3>4, <3>5 DEF UnitStep
  <2>2. Stays(trip'[r], trip[r])  BY <1>s, <1>x, <2>1
  <2> QED  BY <1>o, <2>2 DEF UnitTrip
<1> QED  BY <1>1, <1>2, <1>3, <1>4

\* How a unit comes to the steps of a cleanup attempt.
CleanupPC == {"overdue", "begin", "abort", "confirm", "delete", "finish"}
Cleans(n, u, x, w) ==
    \/ n.pc \notin CleanupPC \cup {"outstanding"}
    \/ n.pc = u.pc /\ x = w
    \/ n.pc \in CleanupPC /\ u.pc \in CleanupPC
    \/ /\ u.pc = "outstanding" /\ n.pc = "begin" /\ x = w
       /\ w.importState \in TerminalImport /\ w.storageState # "deleted"

LEMMA UnitCleans ==
  ASSUME TypeOK, NEW p \in Processes, UnitStep(p)
  PROVE  Cleans(unit'[p], unit[p], row'[unit[p].run], row[unit[p].run])
<1> DEFINE r == unit[p].run
           w == row[r]
           Goal == Cleans(unit'[p], unit[p], row'[r], w)
<1>0. r \in Runs /\ unit[p] \in Unit /\ unit \in [Processes -> Unit] /\ row \in [Runs -> Row]
  BY UnitUpdate DEF TypeOK
<1>e. ASSUME EndUnit(p) PROVE Goal
  BY <1>e, EndFields DEF Cleans, CleanupPC
<1>v. ASSUME NEW pc, Goto(p, pc), pc \notin CleanupPC \cup {"outstanding"} PROVE Goal
  BY <1>v, GotoFields DEF Cleans
<1>n. {"poll_get", "usage", "plan", "mm_trip", "read", "stage", "count", "fetch", "commit", "reject"}
        \cap (CleanupPC \cup {"outstanding"}) = {}
  BY DEF CleanupPC
<1>c. ASSUME NEW pc \in CleanupPC, Goto(p, pc), unit[p].pc \in CleanupPC PROVE Goal
  BY <1>c, GotoFields DEF Cleans
<1>1. CASE ReadOutstanding(p)
  <2>1. row' = row /\ unit[p].pc = "outstanding"  BY <1>1 DEF ReadOutstanding, At
  <2>2. \/ Goto(p, "plan") \/ Goto(p, "mm_trip") \/ Goto(p, "read")
        \/ Goto(p, "begin") /\ w.importState \in TerminalImport /\ w.storageState # "deleted"
    BY <1>1 DEF ReadOutstanding, Decided
  <2> QED  BY <1>v, <1>n, <2>1, <2>2, GotoFields DEF Cleans
<1>2. CASE ImportRead(p)
  <2>1. \/ EndUnit(p)
        \/ unit' = [unit EXCEPT ![p].pc = "stage", ![p].seen = row[r].importState]
    BY <1>2 DEF ImportRead
  <2>2. ASSUME unit' = [unit EXCEPT ![p].pc = "stage", ![p].seen = row[r].importState]
        PROVE  unit'[p].pc = "stage"
    BY <1>0, <2>2 DEF Unit
  <2> QED  BY <1>e, <1>n, <2>1, <2>2 DEF Cleans
<1>3. CASE OverdueReject(p) \/ BeginAttempt(p) \/ Confirm(p)
  <2>1. unit'[p].pc \in {"begin", "abort", "delete", "finish"}
    BY <1>0, <1>3, ConfirmUnit DEF OverdueReject, BeginAttempt, Unit
  <2>2. unit[p].pc \in {"overdue", "begin", "confirm"}
    BY <1>3 DEF OverdueReject, BeginAttempt, Confirm, At
  <2> QED  BY <2>1, <2>2 DEF Cleans, CleanupPC
<1>4. CASE DeleteStorage(p)
  <2>1. /\ unit[p].pc = "delete"
        /\ \E s, v : unit' = [unit EXCEPT ![p] = Answered(unit[p], s, v)]
    BY <1>4, Zenon DEF DeleteStorage, At
  <2>2. PICK s, v : unit' = [unit EXCEPT ![p] = Answered(unit[p], s, v)]  BY <2>1
  <2>3. Answered(unit[p], s, v).pc = "delete"  BY <1>0, <2>1 DEF Answered, Unit
  <2>4. unit'[p] = Answered(unit[p], s, v)  BY <1>0, <2>2
  <2> QED  BY <2>1, <2>3, <2>4 DEF Cleans, CleanupPC
<1>5. CASE Abort(p)
  <2>1. unit[p].pc = "abort"  BY <1>5, Zenon DEF Abort, At
  <2>2. unit'[p].pc \in {"delete", "confirm"}  BY <1>5, AbortFields
  <2> QED  BY <2>1, <2>2 DEF Cleans, CleanupPC
<1>6. CASE DeletesSent(p)
  <2>1. Goto(p, "finish") /\ unit[p].pc = "delete"  BY <1>6 DEF DeletesSent, At
  <2>2. {"delete", "finish"} \subseteq CleanupPC  BY DEF CleanupPC
  <2> QED  BY <1>c, <2>1, <2>2
<1>7. CASE \/ CountPoll(p) \/ RecordUsage(p) \/ PlanSettlement(p) \/ PlanSettles(p) \/ Reject(p)
           \/ ResumeMismatchTrip(p) \/ Stage1Check(p) \/ CountReads(p) \/ Fetch(p)
           \/ Stage1Commit(p) \/ LaterStage(p) \/ BeginNothing(p) \/ BeginOrphan(p)
           \/ BeginAtCap(p) \/ Finish(p)
  <2>1. \/ EndUnit(p)
        \/ \E pc \in {"poll_get", "reject", "count", "fetch", "commit", "read"} :
              Goto(p, pc)
    BY <1>7 DEF CountPoll, RecordUsage, PlanSettlement, PlanSettles, Reject, ResumeMismatchTrip,
                Stage1Check, CountReads, Fetch, Stage1Commit, LaterStage, Exhausted,
                BeginNothing, BeginOrphan, BeginAtCap, Finish
  <2> QED  BY <1>e, <1>v, <1>n, <2>1
<1>8. CASE GetRun(p)
  <2>1. CASE EndUnit(p)  BY <1>e, <2>1
  <2>2. CASE unit'[p].pc = "usage"  BY <1>n, <2>2 DEF Cleans
  <2> QED  BY <1>8, <2>1, <2>2, GetRunUnit
<1>9. CASE TripRestart(p)
  <2>1. row' = row  BY <1>9 DEF TripRestart
  <2> QED  BY <1>9, <2>1, TripRestartUnit DEF Cleans
<1> QED  BY <1>1, <1>2, <1>3, <1>4, <1>5, <1>6, <1>7, <1>8, <1>9 DEF UnitStep

\* A tripped mark is borne by its row: the attempts are spent, the orphan is
\* marked; and attempts are spent only on a run whose start is on record, before
\* its stage 1 commits only by the mismatched start itself.
CapOK(w, t) ==
    /\ t[DX] # "never" => w.attempts >= MaxDeleteAttempts
    /\ t["orphaned_start"] # "never" => w.orphaned
    /\ w.importState = "pending" => w.attempts <= 1
    /\ ~w.extId => w.attempts = 0

\* A cleanup attempt in flight, or one an outstanding row may still turn to, is
\* of a row whose attempts never ran out.
UnitCapOK(u, w, t) ==
    /\ u.pc \in CleanupPC => t[DX] = "never"
    /\ u.pc = "outstanding" =>
          /\ w.remoteStatus = "terminal"
          /\ \/ w.storageState = "deleted" \/ t[DX] = "never"
             \/ ~w.mismatch /\ w.importState \notin TerminalImport

CapInv ==
    /\ \A r \in Runs : CapOK(row[r], trip[r])
    /\ \A p \in Processes : UnitCapOK(unit[p], row[unit[p].run], trip[unit[p].run])

LEMMA StaysNever ==
  ASSUME NEW y, NEW t, Stays(y, t)
  PROVE  /\ y[DX] = "never" <=> t[DX] = "never"
         /\ y["orphaned_start"] = "never" <=> t["orphaned_start"] = "never"
         /\ \A c \in MarkReasons : t[c] = "reset" => y[c] = "reset"
  BY DEF Stays, MarkReasons

LEMMA QuietCap ==
  ASSUME NEW x, NEW w, Quiet(x, w), NEW y, NEW t,
         y[DX] = "never" <=> t[DX] = "never",
         y["orphaned_start"] = "never" <=> t["orphaned_start"] = "never"
  PROVE  /\ CapOK(w, t) => CapOK(x, y)
         /\ \A u : UnitCapOK(u, w, t) => UnitCapOK(u, x, y)
<1>1. CapOK(w, t) => CapOK(x, y)  BY DEF Quiet, CapOK
<1>2. \A u : UnitCapOK(u, w, t) => UnitCapOK(u, x, y)  BY DEF Quiet, UnitCapOK
<1> QED  BY <1>1, <1>2

LEMMA StartKeepsCap ==
  ASSUME TypeOK, NEW r \in Runs, StartsRow(r), RunOK(row[r], resv[r], remote[r], start[r]),
         MatchOK(row[r], start[r]), CapOK(row[r], trip[r]), Stays(trip'[r], trip[r])
  PROVE  /\ CapOK(row'[r], trip'[r])
         /\ \A u : UnitCapOK(u, row[r], trip[r]) => UnitCapOK(u, row'[r], trip'[r])
<1> DEFINE w == row[r]
           x == row'[r]
<1>0. w \in Row /\ w.attempts \in Nat /\ MaxDeleteAttempts \in Nat
  BY RowFields, CapAssumption DEF TypeOK
<1>t. /\ trip'[r][DX] = "never" <=> trip[r][DX] = "never"
      /\ trip'[r]["orphaned_start"] = "never" <=> trip[r]["orphaned_start"] = "never"
  BY StaysNever
<1>1. CASE Quiet(x, w)  BY <1>1, <1>t, QuietCap
<1>2. CASE start[r] \in {"ok", "mismatched"} /\ x = Started(w, start[r] = "mismatched")
  <2> DEFINE b == start[r] = "mismatched"
  <2>1. x = Started(w, b)  BY <1>2
  <2> HIDE DEF b
  <2>2. /\ x.extId = TRUE /\ x.importState = w.importState /\ x.orphaned = w.orphaned
        /\ x.attempts = IF b THEN w.attempts + 1 ELSE w.attempts
    BY <1>0, <2>1 DEF Started, Row
  <2>3. ~w.extId /\ w.remoteStatus # "terminal"  BY <1>2 DEF RunOK, Unrecorded
  <2>4. w.attempts = 0  BY <2>3 DEF CapOK
  <2>5. x.attempts \in {0, 1} /\ x.attempts >= w.attempts /\ x.attempts \in Nat
    BY <2>2, <2>4
  <2>6. x.attempts <= 1  BY <2>5
  <2>7. trip[r][DX] # "never" => x.attempts >= MaxDeleteAttempts
    BY <1>0, <2>5 DEF CapOK
  <2>8. CapOK(x, trip'[r])  BY <1>t, <2>2, <2>6, <2>7 DEF CapOK
  <2>9. \A u : UnitCapOK(u, w, trip[r]) => UnitCapOK(u, x, trip'[r])
    BY <1>t, <2>3 DEF UnitCapOK
  <2> QED  BY <2>8, <2>9
<1>3. CASE start[r] = "reject" /\ x = Rejected(w)
  <2>1. /\ x.extId = w.extId /\ x.attempts = w.attempts /\ x.orphaned = w.orphaned
        /\ x.remoteStatus = w.remoteStatus /\ x.storageState = w.storageState
        /\ x.importState # "pending"
    BY <1>0, <1>3, RejectedFields DEF TerminalImport
  <2>2. w.mismatch  BY <1>3 DEF MatchOK, RejectDue
  <2>3. CapOK(x, trip'[r])  BY <1>t, <2>1 DEF CapOK
  <2>4. \A u : UnitCapOK(u, w, trip[r]) => UnitCapOK(u, x, trip'[r])
    BY <1>t, <2>1, <2>2 DEF UnitCapOK
  <2> QED  BY <2>3, <2>4
<1> QED  BY <1>1, <1>2, <1>3 DEF StartsRow

LEMMA UnitRowCap ==
  ASSUME NEW w \in Row, NEW x, NEW u, UnitRow(u, x, w),
         u.pc = "stage" => u.seen \notin TerminalImport,
         u.pc = "begin" => w.importState # "pending"
  PROVE  /\ x.extId = w.extId /\ x.attempts \in Nat /\ x.attempts >= w.attempts
         /\ w.orphaned => x.orphaned
         /\ x.importState = "pending" => w.importState = "pending" /\ x.attempts = w.attempts
         /\ ~w.extId => x.attempts = w.attempts
<1>0. w.attempts \in Nat  BY RowFields
<1>1. CASE Quiet(x, w)  BY <1>0, <1>1 DEF Quiet
<1>2. CASE x = [w EXCEPT !.importState = "observations_committed"]  BY <1>0, <1>2 DEF Row
<1>3. CASE u.pc = "stage" /\ u.seen # "pending" /\ w.importState = u.seen /\ x = Advanced(w)
  BY <1>0, <1>3, AdvancedFields
<1>4. CASE x = Rejected(w)
  <2>1. x.importState # "pending"  BY <1>4, RejectedFields DEF TerminalImport
  <2> QED  BY <1>0, <1>4, <2>1, RejectedFields
<1>5. CASE x = [w EXCEPT !.orphaned = TRUE]
  <2>1. /\ x.extId = w.extId /\ x.attempts = w.attempts /\ x.orphaned = TRUE
        /\ x.importState = w.importState
    BY <1>5 DEF Row
  <2> QED  BY <1>0, <2>1
<1>6. CASE u.pc = "begin" /\ w.extId /\ x = [w EXCEPT !.attempts = w.attempts + 1]
  <2>1. /\ x.extId = w.extId /\ x.attempts = w.attempts + 1 /\ x.orphaned = w.orphaned
        /\ x.importState = w.importState
    BY <1>6 DEF Row
  <2>2. w.importState # "pending" /\ w.extId  BY <1>6
  <2> QED  BY <1>0, <2>1, <2>2
<1> QED  BY <1>1, <1>2, <1>3, <1>4, <1>5, <1>6 DEF UnitRow

LEMMA UnitKeepsCap ==
  ASSUME TypeOK, StageSeen, UnitsOK, NEW p \in Processes, UnitStep(p),
         CapOK(row[unit[p].run], trip[unit[p].run]),
         UnitCapOK(unit[p], row[unit[p].run], trip[unit[p].run])
  PROVE  LET r == unit[p].run
         IN  /\ CapOK(row'[r], trip'[r])
             /\ UnitCapOK(unit'[p], row'[r], trip'[r])
             /\ \A c \in MarkReasons : trip[r][c] = "reset" => trip'[r][c] = "reset"
             /\ \A q \in Runs \ {r} : row'[q] = row[q] /\ trip'[q] = trip[q]
<1> DEFINE r == unit[p].run
           w == row[r]
           x == row'[r]
           t == trip[r]
           y == trip'[r]
<1>0. w \in Row /\ w.attempts \in Nat /\ MaxDeleteAttempts \in Nat
  BY RowFields, UnitUpdate, CapAssumption DEF TypeOK
<1>1. UnitRow(unit[p], x, w) /\ \A q \in Runs \ {r} : row'[q] = row[q]  BY UnitRows
<1>2. /\ unit[p].pc = "stage" => unit[p].seen \notin TerminalImport
      /\ unit[p].pc = "begin" => w.importState # "pending"
  BY DEF StageSeen, UnitsOK, UnitOK
<1>3. /\ x.extId = w.extId /\ x.attempts \in Nat /\ x.attempts >= w.attempts
      /\ w.orphaned => x.orphaned
      /\ x.importState = "pending" => w.importState = "pending" /\ x.attempts = w.attempts
      /\ ~w.extId => x.attempts = w.attempts
  <2> HIDE DEF x, w
  <2> QED  BY <1>0, <1>1, <1>2, UnitRowCap
<1>4. UnitTrip(p) /\ \A q \in Runs \ {r} : trip'[q] = trip[q]  BY UnitTripsMarks
<1>5. \/ Stays(y, t)
      \/ /\ ~w.orphaned /\ x.orphaned /\ unit'[p].pc = "idle" /\ y[DX] = t[DX]
      \/ /\ w.attempts >= MaxDeleteAttempts /\ unit[p].pc \in {"begin", "finish"}
         /\ unit'[p].pc = "idle" /\ y["orphaned_start"] = t["orphaned_start"]
  BY <1>4 DEF UnitTrip
<1>6. CapOK(w, t) /\ UnitCapOK(unit[p], w, t)  OBVIOUS
<1>7. Cleans(unit'[p], unit[p], x, w)  BY UnitCleans
<1> HIDE DEF x, w, t, y
<1>8. /\ x.importState = "pending" => x.attempts <= 1
      /\ ~x.extId => x.attempts = 0
  BY <1>3, <1>6 DEF CapOK
<1>9. t[DX] # "never" => x.attempts >= MaxDeleteAttempts  BY <1>0, <1>3, <1>6 DEF CapOK
<1>10. CASE Stays(y, t)
  <2>1. /\ y[DX] = "never" <=> t[DX] = "never"
        /\ y["orphaned_start"] = "never" <=> t["orphaned_start"] = "never"
        /\ \A c \in MarkReasons : t[c] = "reset" => y[c] = "reset"
    BY <1>10, StaysNever
  <2>2. CapOK(x, y)  BY <1>3, <1>6, <1>8, <1>9, <2>1 DEF CapOK
  <2>3. UnitCapOK(unit'[p], x, y)
    <3>1. unit'[p].pc = "outstanding" => unit[p].pc = "outstanding" /\ x = w
      BY <1>7 DEF Cleans, CleanupPC
    <3>2. ASSUME unit'[p].pc \in CleanupPC PROVE t[DX] = "never"
      <4>1. CASE unit[p].pc \in CleanupPC  BY <1>6, <4>1 DEF UnitCapOK
      <4>2. CASE /\ unit[p].pc = "outstanding"
                 /\ w.importState \in TerminalImport /\ w.storageState # "deleted"
        BY <1>6, <4>2 DEF UnitCapOK
      <4> QED  BY <1>7, <3>2, <4>1, <4>2 DEF Cleans
    <3> QED  BY <1>6, <2>1, <3>1, <3>2 DEF UnitCapOK, CleanupPC
  <2> QED  BY <1>1, <1>4, <2>1, <2>2, <2>3 DEF x, y, t
<1>11. CASE ~w.orphaned /\ x.orphaned /\ unit'[p].pc = "idle" /\ y[DX] = t[DX]
  <2>1. CapOK(x, y)  BY <1>8, <1>9, <1>11 DEF CapOK
  <2>2. UnitCapOK(unit'[p], x, y)  BY <1>11 DEF UnitCapOK, CleanupPC
  <2>3. t["orphaned_start"] = "never"  BY <1>6, <1>11 DEF CapOK
  <2>4. \A c \in MarkReasons : t[c] = "reset" => y[c] = "reset"
    BY <1>11, <2>3 DEF MarkReasons
  <2> QED  BY <1>1, <1>4, <2>1, <2>2, <2>4 DEF x, y, t
<1>12. CASE /\ w.attempts >= MaxDeleteAttempts /\ unit[p].pc \in {"begin", "finish"}
            /\ unit'[p].pc = "idle" /\ y["orphaned_start"] = t["orphaned_start"]
  <2>1. x.attempts >= MaxDeleteAttempts  BY <1>0, <1>3, <1>12
  <2>2. CapOK(x, y)  BY <1>3, <1>6, <1>8, <1>12, <2>1 DEF CapOK
  <2>3. UnitCapOK(unit'[p], x, y)  BY <1>12 DEF UnitCapOK, CleanupPC
  <2>4. t[DX] = "never"  BY <1>6, <1>12 DEF UnitCapOK, CleanupPC
  <2>5. \A c \in MarkReasons : t[c] = "reset" => y[c] = "reset"
    BY <1>12, <2>4 DEF MarkReasons
  <2> QED  BY <1>1, <1>4, <2>2, <2>3, <2>5 DEF x, y, t
<1> QED  BY <1>5, <1>10, <1>11, <1>12

\* The sweep trips only what was never tripped, for a row that bears the mark.
LEMMA SweepTrips ==
  ASSUME TypeOK, LatchCommitted, NEW p \in Processes, TripStranded(p), NEW q \in Runs
  PROVE  /\ trip'[q][DX] # trip[q][DX]
               => trip[q][DX] = "never" /\ row[q].attempts >= MaxDeleteAttempts
         /\ trip'[q]["orphaned_start"] # trip[q]["orphaned_start"]
               => trip[q]["orphaned_start"] = "never" /\ row[q].orphaned
<1>0. /\ DX \in Reason /\ "orphaned_start" \in Reason /\ DX = "delete_attempts_exhausted"
  BY DEF Reason, DX
<1>1. \A c \in Reason :
         trip'[q][c] = IF \/ c = "orphaned_start" /\ StrandedOrphan(q)
                          \/ c = "delete_attempts_exhausted" /\ StrandedExhausted(q)
                       THEN "open" ELSE WithStrandedRefusals(trip)[q][c]
  BY DEF TripStranded
<1>2. \A c \in Reason : c # "account_limit_refused"
                          => WithStrandedRefusals(trip)[q][c] = trip[q][c]
  BY LatchRows
<1>3. trip'[q][DX] # trip[q][DX] => StrandedExhausted(q)  BY <1>0, <1>1, <1>2
<1>4. trip'[q]["orphaned_start"] # trip[q]["orphaned_start"] => StrandedOrphan(q)
  BY <1>0, <1>1, <1>2
<1>5. StrandedExhausted(q) => trip[q][DX] = "never" /\ row[q].attempts >= MaxDeleteAttempts
  BY <1>0 DEF StrandedExhausted, LatchCommitted
<1>6. StrandedOrphan(q) => trip[q]["orphaned_start"] = "never" /\ row[q].orphaned
  BY DEF StrandedOrphan
<1> QED  BY <1>3, <1>4, <1>5, <1>6

LEMMA CapSteps ==
  ASSUME OneExecutor, MaxDeleteAttempts >= 2, TypeOK, StageSeen, RunsOK, UnitsOK, MatchInv,
         LatchCommitted, CapInv, [Next]_vars
  PROVE  /\ CapInv'
         /\ \A r \in Runs, c \in MarkReasons : trip[r][c] = "reset" => trip'[r][c] = "reset"
<1> DEFINE Kept(q) == \A c \in MarkReasons : trip[q][c] = "reset" => trip'[q][c] = "reset"
           Goal == CapInv' /\ \A q \in Runs : Kept(q)
<1>0. /\ \A r \in Runs : /\ row[r] \in Row /\ row[r].attempts \in Nat
                         /\ MatchOK(row[r], start[r]) /\ CapOK(row[r], trip[r])
                         /\ Stays(trip[r], trip[r]) /\ Quiet(row[r], row[r])
      /\ \A p \in Processes : /\ unit[p].run \in Runs
                              /\ UnitCapOK(unit[p], row[unit[p].run], trip[unit[p].run])
      /\ MaxDeleteAttempts \in Nat
  BY RowFields, UnitUpdate, QuietFrame, CapAssumption DEF TypeOK, MatchInv, CapInv, Stays
<1>i. \A u : u.pc = "idle" => \A w, t : UnitCapOK(u, w, t)  BY DEF UnitCapOK, CleanupPC
<1>1. ASSUME NEW r \in Runs, StartCheck(r) \/ StartStep(r) PROVE Goal
  <2>1. /\ unit' = unit /\ StartsRow(r)
        /\ \A q \in Runs \ {r} : row'[q] = row[q]
    BY <1>1, StartRows
  <2>2. \A q \in Runs : Stays(trip'[q], trip[q])  BY <1>1, StartTripsStay
  <2>3. RunOK(row[r], resv[r], remote[r], start[r])  BY DEF RunsOK
  <2>4. /\ CapOK(row'[r], trip'[r])
        /\ \A u : UnitCapOK(u, row[r], trip[r]) => UnitCapOK(u, row'[r], trip'[r])
    BY <1>0, <2>1, <2>2, <2>3, StartKeepsCap
  <2>5. ASSUME NEW q \in Runs
        PROVE  /\ CapOK(row'[q], trip'[q]) /\ Kept(q)
               /\ \A u : UnitCapOK(u, row[q], trip[q]) => UnitCapOK(u, row'[q], trip'[q])
    <3>1. /\ trip'[q][DX] = "never" <=> trip[q][DX] = "never"
          /\ trip'[q]["orphaned_start"] = "never" <=> trip[q]["orphaned_start"] = "never"
          /\ Kept(q)
      BY <2>2, StaysNever
    <3>2. CASE q = r  BY <2>4, <3>1, <3>2
    <3>3. CASE q # r
      <4>1. row'[q] = row[q]  BY <2>1, <3>3
      <4>2. Quiet(row'[q], row[q]) /\ CapOK(row[q], trip[q])  BY <1>0, <4>1
      <4> QED  BY <3>1, <4>2, QuietCap
    <3> QED  BY <3>2, <3>3
  <2>6. \A p \in Processes : UnitCapOK(unit'[p], row'[unit'[p].run], trip'[unit'[p].run])
    BY <1>0, <2>1, <2>5
  <2> QED  BY <2>5, <2>6 DEF CapInv
<1>2. ASSUME NEW p \in Processes, UnitStep(p) PROVE Goal
  <2> DEFINE r == unit[p].run
  <2>1. /\ r \in Runs /\ CapOK(row[r], trip[r]) /\ UnitCapOK(unit[p], row[r], trip[r])
    BY <1>0
  <2>2. /\ CapOK(row'[r], trip'[r])
        /\ UnitCapOK(unit'[p], row'[r], trip'[r])
        /\ \A c \in MarkReasons : trip[r][c] = "reset" => trip'[r][c] = "reset"
        /\ \A q \in Runs \ {r} : row'[q] = row[q] /\ trip'[q] = trip[q]
    BY <1>2, <2>1, UnitKeepsCap
  <2>3. \A q \in Runs : CapOK(row'[q], trip'[q]) /\ Kept(q)  BY <1>0, <2>2
  <2>4. unit'[p].pc = "idle" \/ unit'[p].run = r  BY <1>2, UnitImports
  <2>5. UnitCapOK(unit'[p], row'[unit'[p].run], trip'[unit'[p].run])
    BY <1>i, <2>2, <2>4
  <2>6. \A o \in Processes : UnitCapOK(unit'[o], row'[unit'[o].run], trip'[unit'[o].run])
    BY <2>5 DEF OneExecutor
  <2> QED  BY <2>3, <2>6 DEF CapInv
<1>3. ASSUME NEW p \in Processes, TripStranded(p) PROVE Goal
  <2>1. \A q \in Runs : Quiet(row'[q], row[q])  BY <1>3, OtherRows DEF Sweep
  <2>2. unit' = unit /\ unit[p].pc = "idle"  BY <1>3 DEF TripStranded, CanTick
  <2>3. \A o \in Processes : UnitCapOK(unit'[o], row'[unit'[o].run], trip'[unit'[o].run])
    BY <1>i, <2>2 DEF OneExecutor
  <2>4. ASSUME NEW q \in Runs PROVE CapOK(row'[q], trip'[q]) /\ Kept(q)
    <3>1. /\ trip'[q][DX] # trip[q][DX]
                => trip[q][DX] = "never" /\ row[q].attempts >= MaxDeleteAttempts
          /\ trip'[q]["orphaned_start"] # trip[q]["orphaned_start"]
                => trip[q]["orphaned_start"] = "never" /\ row[q].orphaned
      BY <1>3, SweepTrips
    <3>2. Kept(q)  BY <3>1 DEF MarkReasons
    <3>3. /\ row'[q].attempts = row[q].attempts /\ row'[q].orphaned = row[q].orphaned
          /\ row'[q].importState = row[q].importState /\ row'[q].extId = row[q].extId
      BY <2>1 DEF Quiet
    <3>4. CapOK(row[q], trip[q])  BY <1>0
    <3>5. CapOK(row'[q], trip'[q])  BY <3>1, <3>3, <3>4 DEF CapOK
    <3> QED  BY <3>2, <3>5
  <2> QED  BY <2>3, <2>4 DEF CapInv
<1>4. ASSUME \/ \E r \in Runs : RemoteFinishes(r) \/ DeadlinePasses(r)
             \/ \E p \in Processes : Select(p) \/ ReleaseUnattached(p) \/ Crash(p)
             \/ OwnerReset
             \/ UNCHANGED vars
      PROVE  Goal
  <2>1. /\ \A q \in Runs : Quiet(row'[q], row[q])
        /\ \A p \in Processes : \/ unit'[p] = unit[p] \/ unit'[p].pc = "idle"
                                \/ /\ Selected(unit'[p], row[unit'[p].run]) /\ unit'[p].run \in Runs
                                   /\ UNCHANGED <<row, trip>>
    BY <1>4, OtherRows DEF Sweep
  <2>2. ASSUME NEW q \in Runs PROVE Stays(trip'[q], trip[q])
    <3>1. CASE OwnerReset
      <4>1. \A c \in Reason : trip'[q][c] = IF trip[q][c] = "open" THEN "reset" ELSE trip[q][c]
        BY <3>1 DEF OwnerReset
      <4> QED  BY <4>1 DEF Stays, MarkReasons, DX, Reason
    <3>2. CASE ~OwnerReset
      <4>1. trip' = trip
        BY <1>4, <3>2 DEF RemoteFinishes, DeadlinePasses, Select, SelectActive,
                          SelectOutstanding, SelectOverdue, Handed, ReleaseUnattached, Crash,
                          vars
      <4> QED  BY <1>0, <4>1
    <3> QED  BY <3>1, <3>2
  <2>3. ASSUME NEW q \in Runs
        PROVE  /\ CapOK(row'[q], trip'[q]) /\ Kept(q)
               /\ \A u : UnitCapOK(u, row[q], trip[q]) => UnitCapOK(u, row'[q], trip'[q])
    <3>1. /\ trip'[q][DX] = "never" <=> trip[q][DX] = "never"
          /\ trip'[q]["orphaned_start"] = "never" <=> trip[q]["orphaned_start"] = "never"
          /\ Kept(q)
      BY <2>2, StaysNever
    <3>2. Quiet(row'[q], row[q]) /\ CapOK(row[q], trip[q])  BY <1>0, <2>1
    <3> QED  BY <3>1, <3>2, QuietCap
  <2>4. ASSUME NEW p \in Processes
        PROVE  UnitCapOK(unit'[p], row'[unit'[p].run], trip'[unit'[p].run])
    <3>1. CASE unit'[p] = unit[p]  BY <1>0, <2>3, <3>1
    <3>2. CASE unit'[p].pc = "idle"  BY <1>i, <3>2
    <3>3. CASE /\ Selected(unit'[p], row[unit'[p].run]) /\ unit'[p].run \in Runs
               /\ UNCHANGED <<row, trip>>
      <4> DEFINE q == unit'[p].run
                 w == row[q]
                 t == trip[q]
      <4>1. /\ w.attempts \in Nat /\ MaxDeleteAttempts \in Nat /\ CapOK(w, t)
            /\ MatchOK(w, start[q]) /\ w \in Row
        BY <1>0, <3>3
      <4>2. w.attempts < MaxDeleteAttempts => t[DX] = "never"  BY <4>1 DEF CapOK
      <4>3. w.importState \notin TerminalImport /\ w.mismatch => w.attempts < MaxDeleteAttempts
        BY <4>1 DEF CapOK, MatchOK, Uncommitted, TerminalImport
      <4>4. UnitCapOK(unit'[p], w, t)
        BY <3>3, <4>2, <4>3 DEF Selected, UnitCapOK, CleanupPC
      <4> QED  BY <3>3, <4>4
    <3> QED  BY <2>1, <3>1, <3>2, <3>3
  <2> QED  BY <2>3, <2>4 DEF CapInv
<1> QED  BY <1>1, <1>2, <1>3, <1>4 DEF Next, Sweep

\* With one process running the tick, the owner's reset of a mark's trip or of an
\* account refusal is final (clear_latch against _stranded and _begin).  Two
\* attempts are the least for which it is: the start job of a mismatched run
\* counts its abort as the first one, and with no attempt beyond it the unit that
\* finds the import decided in between gives the row up a second time.
THEOREM OwnerResetAlwaysFinal ==
  ASSUME OneExecutor, MaxDeleteAttempts >= 2
  PROVE  Spec => OwnerResetFinal
<1>1. Init => MatchInv /\ CapInv
  <2> SUFFICES ASSUME Init PROVE MatchInv /\ CapInv
    OBVIOUS
  <2>1. \A r \in Runs : /\ row[r].mismatch = FALSE /\ row[r].importState = "pending"
                        /\ row[r].attempts = 0 /\ start[r] = "idle"
                        /\ trip[r][DX] = "never" /\ trip[r]["orphaned_start"] = "never"
    BY DEF Init, NewRow, DX, Reason
  <2>2. \A p \in Processes : unit[p].pc = "idle" /\ unit[p].run \in Runs
    <3>1. IdleUnit \in Unit /\ IdleUnit.pc = "idle"  BY IdleUnitType DEF IdleUnit
    <3> QED  BY <3>1, UnitUpdate DEF Init
  <2>3. MatchInv  BY <2>1, <2>2 DEF MatchInv, MatchOK, UnitMatchOK, ImportingPC, RejectDue, Uncommitted
  <2>4. CapInv  BY <2>1, <2>2 DEF CapInv, CapOK, UnitCapOK, CleanupPC
  <2> QED  BY <2>3, <2>4
<1>2. TypeOK /\ StageSeen /\ RunsOK /\ UnitsOK /\ LatchCommitted /\ MatchInv /\ CapInv /\ [Next]_vars
        => /\ MatchInv' /\ CapInv'
           /\ \A r \in Runs, c \in {"orphaned_start", "delete_attempts_exhausted",
                                    "account_limit_refused"} :
                 trip[r][c] = "reset" => trip'[r][c] = "reset"
  <2> HAVE TypeOK /\ StageSeen /\ RunsOK /\ UnitsOK /\ LatchCommitted /\ MatchInv /\ CapInv /\ [Next]_vars
  <2>1. MatchInv'  BY MatchSteps
  <2>2. /\ CapInv'
        /\ \A r \in Runs, c \in MarkReasons : trip[r][c] = "reset" => trip'[r][c] = "reset"
    BY CapSteps
  <2>3. \A r \in Runs : trip[r]["account_limit_refused"] = "reset"
                          => trip'[r]["account_limit_refused"] = "reset"
    <3>1. "account_limit_refused" \in Reason  BY DEF Reason
    <3> QED  BY <3>1, LatchMoves DEF Moves
  <2> QED  BY <2>1, <2>2, <2>3 DEF MarkReasons, DX
<1> QED
  BY <1>1, <1>2, TypeCorrect, EvidenceAlways, LatchAlwaysCommitted, PTL
  DEF Spec, OwnerResetFinal
=============================================================================
