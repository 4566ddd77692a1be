---------------------------- MODULE BillingCycles ----------------------------
(***************************************************************************)
(* The billing cycles an environment records, and how authority to spend   *)
(* continues from one to the next.  Pure operators over a set of recorded  *)
(* cycles and a set of cycle starts; SpendLedger keeps them as state.      *)
(*                                                                         *)
(* A tick is the resolution of the clock: a cycle ends one tick before its *)
(* successor starts.  Months are cycles of one length, CycleLen.           *)
(***************************************************************************)
EXTENDS Integers

CONSTANTS
    CycleLen,   \* ticks in a billing cycle
    Guard       \* HW_RADAR_APIFY_CYCLE_BOUNDARY_GUARD_S

ASSUME CycleAssumption == CycleLen \in Nat \ {0} /\ Guard \in Nat

Cycle == [start: Int, end: Int]

Covers(c, t) == c.start <= t /\ t <= c.end

\* The configured cycle that contains t; there is none before the anchor.
Derivable(anchor, t) == anchor <= t
Derived(anchor, t) ==
    LET s == anchor + ((t - anchor) \div CycleLen) * CycleLen
    IN  [start |-> s, end |-> s + CycleLen - 1]

\* A recorded row with this start was clamped by an earlier change of the
\* anchor, or the anchor moved back into recorded history.
ConflictsOnStart(cycles, b) == \E c \in cycles : c.start = b.start /\ c.end # b.end
Conflicts(cycles, b) ==
    \E c \in cycles : \/ c.start = b.start /\ c.end # b.end
                      \/ b.start < c.start /\ c.start <= b.end

\* ensure_cycle finds or can create the row of the cycle that contains t.
CycleKnown(cycles, anchor, t) ==
    Derivable(anchor, t) /\ ~Conflicts(cycles, Derived(anchor, t))

\* The new row, with every older row that reaches into it cut short.
WithCycle(cycles, b) ==
    IF b \in cycles THEN cycles
    ELSE {IF c.start < b.start /\ c.end >= b.start THEN [c EXCEPT !.end = b.start - 1] ELSE c
             : c \in cycles} \union {b}

EnsureCycle(cycles, anchor, t) ==
    IF CycleKnown(cycles, anchor, t) THEN WithCycle(cycles, Derived(anchor, t)) ELSE cycles

\* The latest row that starts before s, if any, ends next to s.
AdjacentTo(cycles, p, s) ==
    /\ p \in cycles
    /\ p.start < s
    /\ \A q \in cycles : q.start < s => q.start <= p.start
    /\ s - p.end <= Guard

\* Authority held in the adjacent earlier cycle continues into the cycle
\* starting at s, unless that cycle has an authority row of its own.
Continued(cycles, held, gone, s) ==
    IF s \notin held \union gone /\ \E p \in cycles : AdjacentTo(cycles, p, s) /\ p.start \in held
    THEN held \union {s} ELSE held
=============================================================================
