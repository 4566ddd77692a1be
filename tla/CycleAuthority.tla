--------------------------- MODULE CycleAuthority ---------------------------
(***************************************************************************)
(* What the ledgers of all environments promise together: in every billing *)
(* cycle one environment at a time may admit paid work, and what all of    *)
(* them have admitted that counts in the cycle stays within one cap.       *)
(* LedgerHandoff implements this with a database per environment, claims,  *)
(* continuation at rollover and handoff records carried between them.      *)
(***************************************************************************)
EXTENDS Naturals

CONSTANTS Env, Cycles, Cap, Nobody

VARIABLES
    holder,   \* per cycle, the environment that may admit
    spent     \* per cycle, what all environments have counted in it

Init ==
    /\ holder = [k \in Cycles |-> Nobody]
    /\ spent = [k \in Cycles |-> 0]

Acquire(k, e) ==
    /\ holder[k] = Nobody
    /\ holder' = [holder EXCEPT ![k] = e]
    /\ UNCHANGED spent

Yield(k) ==
    /\ holder[k] # Nobody
    /\ holder' = [holder EXCEPT ![k] = Nobody]
    /\ UNCHANGED spent

\* Only the holder raises what counts in its cycle, within the cap; work that
\* outlives the cycle counts in the later ones too.
Admit(k) ==
    /\ holder'[k] # Nobody
    /\ holder[k] = Nobody \/ holder'[k] = holder[k]
    /\ \A j \in Cycles \ {k} : holder'[j] = holder[j]
    /\ spent'[k] <= Cap
    /\ \A j \in Cycles : j < k => spent'[j] = spent[j]

\* Settlement only lowers what was admitted.
Settle ==
    /\ spent' \in [Cycles -> Nat]
    /\ \A k \in Cycles : spent'[k] <= spent[k]
    /\ UNCHANGED holder

Next ==
    \/ \E k \in Cycles : Yield(k) \/ Admit(k)
    \/ \E k \in Cycles, e \in Env : Acquire(k, e)
    \/ Settle

Spec == Init /\ [][Next]_<<holder, spent>>
=============================================================================
