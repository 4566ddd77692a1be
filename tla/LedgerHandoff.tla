---------------------------- MODULE LedgerHandoff ----------------------------
(***************************************************************************)
(* The spend ledgers of several environments on one Apify account.  Each   *)
(* has its own database and budget lock; authority over a billing cycle is *)
(* claimed once on the owner's word, continues at rollover, and moves only *)
(* with a handoff record exported from a drained ledger and imported by    *)
(* the one destination it names.  Record files may be lost, kept, imported *)
(* late or twice.                                                          *)
(*                                                                         *)
(* Every write is one transaction under its environment's budget lock.  A  *)
(* cycle is its number (the environments configure one anchor); the class  *)
(* caps are one cap.  SpendLedger has the caps, guards and reads of one    *)
(* ledger in full.                                                         *)
(***************************************************************************)
EXTENDS Naturals, FiniteSets, Functions

CONSTANTS
    Env,        \* ledger ids
    Nobody,     \* no ledger
    Ops,        \* paid operations any environment may ask for
    MaxCycle,   \* bound on the clock, in billing cycles
    Cap,        \* the cycle's target
    Est, Mon,   \* reserved estimate and monitoring allowance of an operation
    Actuals,    \* what an operation may settle at
    Extra       \* what a late correction adds

ASSUME HandoffAssumption ==
    /\ Nobody \notin Env
    /\ IsFiniteSet(Ops)
    /\ {MaxCycle, Cap, Est, Mon, Extra} \subseteq Nat
    /\ Actuals \subseteq 0..Est

VARIABLES
    cycle,      \* the billing cycle the clock is in
    enabled,    \* per environment, HW_RADAR_APIFY_ENABLED
    known,      \* per environment, the cycles it has recorded
    auth,       \* per environment and cycle, its authority row
    op          \* the reservation behind each operation

vars == <<cycle, enabled, known, auth, op>>
-----------------------------------------------------------------------------
Cycles == 0..MaxCycle
Kind == {"none", "origin", "continued", "handoff"}
Record == [source: Env, dest: Env, cycle: Cycles, total: Nat]
NoRecord == [source |-> Nobody, dest |-> Nobody, cycle |-> 0, total |-> 0]

\* exported and imported are the two record columns, with their digests: set by
\* the export of this row and by the import that created it.
Authority == [kind: Kind, carried: Nat,
              exported: Record \union {NoRecord}, imported: Record \union {NoRecord}]
NoAuthority == [kind |-> "none", carried |-> 0, exported |-> NoRecord, imported |-> NoRecord]

\* "settled" is reconciled with monitoring open, "closed" after the closing read.
Op == [status: {"free", "open", "settled", "closed"}, env: Env \union {Nobody},
       from: Cycles, to: Cycles, closed: Cycles, actual: Nat, extra: Nat]
FreeOp == [status |-> "free", env |-> Nobody, from |-> 0, to |-> 0, closed |-> 0,
           actual |-> 0, extra |-> 0]

TypeOK ==
    /\ cycle \in Cycles
    /\ enabled \in [Env -> BOOLEAN]
    /\ known \in [Env -> SUBSET Cycles]
    /\ auth \in [Env -> [Cycles -> Authority]]
    /\ op \in [Ops -> Op]

Init ==
    /\ cycle = 0
    /\ enabled = [e \in Env |-> FALSE]
    /\ known = [e \in Env |-> {}]
    /\ auth = [e \in Env |-> [k \in Cycles |-> NoAuthority]]
    /\ op = [o \in Ops |-> FreeOp]
-----------------------------------------------------------------------------
(* What counts in a cycle, and who may admit in it.                        *)

Counts(w, k) ==
    CASE w.status = "open" -> IF w.from <= k THEN Est + Mon ELSE 0
      [] w.status = "settled" ->
            (IF w.from <= k /\ k <= w.to THEN w.actual ELSE 0) + (IF w.to <= k THEN Mon ELSE 0)
      [] w.status = "closed" ->
            (IF w.from <= k /\ k <= w.to THEN w.actual ELSE 0)
            + (IF w.to <= k /\ k <= w.closed THEN Mon ELSE 0)
      [] OTHER -> 0

\* What a late correction has added since the operation settled.
Late(w, k) == IF w.from <= k /\ k <= w.to THEN w.extra ELSE 0

OpsOf(e) == {o \in Ops : op[o].env = e}
Own(e, k) == [o \in Ops |-> IF op[o].env = e THEN Counts(op[o], k) + Late(op[o], k) ELSE 0]
Tally(a, e, k) == a[e][k].carried + SumFunction(Own(e, k))

HeldRow(a) == a.kind # "none" /\ a.exported = NoRecord
Holds(a, e, k) == HeldRow(a[e][k])

\* _ensure_continued_authority: only from the adjacent recorded cycle.
Continues(e) ==
    /\ auth[e][cycle].kind = "none"
    /\ cycle > 0 /\ cycle - 1 \in known[e]
    /\ Holds(auth, e, cycle - 1)

\* ensure_cycle: record the cycle and continue authority into it.
WithCycle(e) == [known EXCEPT ![e] = @ \union {cycle}]
WithContinued(e) ==
    IF Continues(e) THEN [auth EXCEPT ![e][cycle] = [NoAuthority EXCEPT !.kind = "continued"]]
    ELSE auth
-----------------------------------------------------------------------------
(* The commands and the paid work between them.                            *)

\* reserve: denied unless enabled, in authority and within the cap; the cycle is
\* recorded either way.
AdmittedUnchecked(a, e) == enabled[e] /\ Tally(a, e, cycle) + Est + Mon <= Cap
Admitted(a, e) ==
    /\ enabled[e]
    /\ Holds(a, e, cycle)
    /\ Tally(a, e, cycle) + Est + Mon <= Cap
Reserve(e, o) ==
    /\ op[o] = FreeOp
    /\ known' = WithCycle(e)
    /\ auth' = WithContinued(e)
    /\ op' = IF Admitted(auth', e)
             THEN [op EXCEPT ![o] = [FreeOp EXCEPT !.status = "open", !.env = e, !.from = cycle]]
             ELSE op
    /\ <<known', auth', op'>> # <<known, auth, op>>
    /\ UNCHANGED <<cycle, enabled>>

Settle(o, amount) ==
    /\ op[o].status = "open"
    /\ op' = [op EXCEPT ![o] = [@ EXCEPT !.status = "settled", !.actual = amount, !.to = cycle]]
    /\ UNCHANGED <<cycle, enabled, known, auth>>

\* A monitoring read finds more, and corrects the settled amount.
Correct(o) ==
    /\ op[o].status = "settled"
    /\ op[o].extra = 0
    /\ op' = [op EXCEPT ![o].extra = Extra]
    /\ UNCHANGED <<cycle, enabled, known, auth>>

\* The committed closing read ends the row's monitoring.
Close(o) ==
    /\ op[o].status = "settled"
    /\ op' = [op EXCEPT ![o] = [@ EXCEPT !.status = "closed", !.closed = cycle]]
    /\ UNCHANGED <<cycle, enabled, known, auth>>

\* Another environment holds this cycle, or will on its next use of the ledger, or
\* when a record bound to it arrives; or its work counts in it.
Involved(f) ==
    \/ Holds(auth, f, cycle)
    \/ Continues(f)
    \/ \E g \in Env : auth[g][cycle].exported # NoRecord
    \/ Tally(auth, f, cycle) > 0

\* claim_origin.  The attestation is the owner's, and taken to be true in this
\* strong sense; that no other environment admitted in this cycle is not enough.
Attested(e) == \A f \in Env \ {e} : ~Involved(f)
ClaimOrigin(e) ==
    /\ Attested(e)
    /\ known' = WithCycle(e)
    /\ WithContinued(e)[e][cycle].kind = "none"
    /\ auth' = [auth EXCEPT ![e][cycle] = [NoAuthority EXCEPT !.kind = "origin"]]
    /\ UNCHANGED <<cycle, enabled, op>>

\* _drain_refusal looks at every row of the ledger, whatever its cycle.
DrainedOfOpen(e) == \A o \in OpsOf(e) : op[o].status # "open"
Drained(e) == \A o \in OpsOf(e) : op[o].status = "closed"

\* _build_record: what counts here and what was carried in move on together.
BuildRecord(a, e, dest) ==
    [source |-> e, dest |-> dest, cycle |-> cycle, total |-> Tally(a, e, cycle)]

\* export_handoff: bind this cycle's authority to one destination, with the
\* record.  Repeated for that destination it returns the stored record, so a file
\* that was lost can be written again: the records to import are the stored ones.
Export(e, dest) ==
    /\ dest # e
    /\ known' = WithCycle(e)
    /\ LET a == WithContinued(e)
       IN  /\ Holds(a, e, cycle)
           /\ ~enabled[e]
           /\ Drained(e)
           /\ auth' = [a EXCEPT ![e][cycle].exported = BuildRecord(a, e, dest)]
    /\ UNCHANGED <<cycle, enabled, op>>

Records == {auth[e][k].exported : e \in Env, k \in Cycles} \ {NoRecord}

\* import_handoff: refused for another destination or cycle and where this cycle
\* has a row.  (A re-import of the record that made the row changes nothing.)
ForThisLedgerAnyCycle(e, r) == r.dest = e /\ r.source # e
ForThisLedger(e, r) == r.dest = e /\ r.source # e /\ r.cycle = cycle
Import(e, r) ==
    /\ ForThisLedger(e, r)
    /\ known' = WithCycle(e)
    /\ WithContinued(e)[e][cycle].kind = "none"
    /\ auth' = [auth EXCEPT ![e][cycle] =
                   [kind |-> "handoff", carried |-> r.total, exported |-> NoRecord, imported |-> r]]
    /\ UNCHANGED <<cycle, enabled, op>>

SetEnabled(e) ==
    /\ enabled' = [enabled EXCEPT ![e] = ~@]
    /\ UNCHANGED <<cycle, known, auth, op>>

NextCycle ==
    /\ cycle < MaxCycle
    /\ cycle' = cycle + 1
    /\ UNCHANGED <<enabled, known, auth, op>>

Next ==
    \/ \E e \in Env, o \in Ops : Reserve(e, o)
    \/ \E o \in Ops, amount \in Actuals : Settle(o, amount)
    \/ \E o \in Ops : Correct(o) \/ Close(o)
    \/ \E e \in Env : ClaimOrigin(e) \/ SetEnabled(e)
    \/ \E e \in Env, dest \in Env : Export(e, dest)
    \/ \E e \in Env, r \in Records : Import(e, r)
    \/ NextCycle

Spec == Init /\ [][Next]_vars
-----------------------------------------------------------------------------
(* What makes the handoff correct.                                         *)

\* In no cycle do two environments hold authority: claims, continuation and
\* handoff (claim_origin, _ensure_continued_authority, export_handoff,
\* import_handoff) never overlap, whatever is lost, repeated or late.
OneAuthority ==
    \A k \in Cycles, e, f \in Env : Holds(auth, e, k) /\ Holds(auth, f, k) => e = f

\* Once a ledger has exported a cycle, what it counts in that cycle is what the
\* record says: nothing still running, unsettled or open to correction was left
\* behind (_drain_refusal, _build_record).
ExportIsFinal ==
    \A e \in Env, k \in Cycles :
        auth[e][k].exported # NoRecord => auth[e][k].exported.total = Tally(auth, e, k)

\* All environments together stay within one cap in every cycle, late corrections
\* apart, although each checks only its own ledger (reserve, carried consumption).
Total(k) == SumFunction([o \in Ops |-> Counts(op[o], k)])
TogetherWithinCap == \A k \in Cycles : k <= cycle => Total(k) <= Cap

\* The whole as one ledger: the environments implement CycleAuthority.
Holder(k) ==
    IF \E e \in Env : Holds(auth, e, k) THEN CHOOSE e \in Env : Holds(auth, e, k) ELSE Nobody
Pool == INSTANCE CycleAuthority
            WITH holder <- [k \in Cycles |-> Holder(k)], spent <- [k \in Cycles |-> Total(k)]
PoolSpec == Pool!Spec
=============================================================================
