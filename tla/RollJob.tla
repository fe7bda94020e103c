------------------------------ MODULE RollJob ------------------------------
(***************************************************************************)
(* The entity store of app.curves together with md_ingester's nightly      *)
(* roll, a second writer of the same rows: it moves the reference_date of  *)
(* the marked demo curves in a transaction of its own, outside the         *)
(* repository that keeps the audit trail.                                  *)
(***************************************************************************)
EXTENDS EntityStore

CONSTANTS
    RollOwner,  \* DEFAULT_ROLL_OWNER_UID
    Marked      \* curves whose body holds the target's local_id

ASSUME RollAssumption == RollOwner \in Owners /\ Marked \subseteq Ids

\* deleted_at IS NULL AND reference_date IS DISTINCT FROM :ref_date
ToRoll(date) ==
    {i \in Marked : /\ head[i] # NoRow /\ head[i].live
                    /\ head[i].owner = RollOwner /\ head[i].body # date}

\* _bump_curve: one UPDATE, committed alone; it waits for the rows' locks.
RollCurves(date) ==
    /\ ToRoll(date) # {}
    /\ \A i \in ToRoll(date), c \in Clients : draft[c][i] = NoRow
    /\ head' = [i \in Ids |-> IF i \in ToRoll(date)
                              THEN [head[i] EXCEPT !.body = date] ELSE head[i]]
    /\ UNCHANGED <<versions, pc, req, cur, draft, vdraft, reply>>

RollNext == Next \/ \E date \in Bodies : RollCurves(date)

RollSpec == Init /\ [][RollNext]_vars
=============================================================================
