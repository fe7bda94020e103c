---------------------------- MODULE AuditLedger ----------------------------
(***************************************************************************)
(* What the entity store promises its callers: rows that change in atomic  *)
(* steps, each step recorded by one entry at the end of the changed row's  *)
(* trail, with at most one live row per owner and name.  No statements, no *)
(* locks, no version numbers: an entry's number is its place in the trail. *)
(***************************************************************************)
EXTENDS Naturals, Sequences

CONSTANTS
    Ids, Rows, NoRow, NoId,
    Inherited  \* the tables a ledger may start with, each row with its first entry

VARIABLES rows, trail

ledger == <<rows, trail>>

Entry(change, r) == [change |-> change, row |-> r]

Init == /\ rows \in Inherited
        /\ trail = [i \in Ids |-> IF rows[i] = NoRow THEN <<>> ELSE <<Entry("create", rows[i])>>]

NameFree(i, r) ==
    \A j \in Ids \ {i} : ~(/\ rows[j] # NoRow /\ rows[j].live
                           /\ rows[j].owner = r.owner /\ rows[j].name = r.name)

\* Row i becomes r, and its trail grows by one entry that holds r.
Record(i, change, r) ==
    /\ rows' = [rows EXCEPT ![i] = r]
    /\ trail' = [trail EXCEPT ![i] = Append(@, Entry(change, r))]

Create(i, r) == /\ rows[i] = NoRow /\ r.live /\ NameFree(i, r)
                /\ Record(i, "create", r)

Amend(i, r) == /\ rows[i] # NoRow /\ rows[i].live
               /\ r.live /\ r.owner = rows[i].owner /\ NameFree(i, r)
               /\ Record(i, "amend", r)

Restore(i) == /\ rows[i] # NoRow /\ ~rows[i].live
              /\ NameFree(i, rows[i])
              /\ Record(i, "restore", [rows[i] EXCEPT !.live = TRUE])

\* One row, or a wrapper and the graph row it names, both of the same owner.
Delete(i, S) ==
    /\ \A j \in S : rows[j] # NoRow /\ rows[j].live /\ rows[j].owner = rows[i].owner
    /\ LET gone(j) == [rows[j] EXCEPT !.live = FALSE]
       IN  /\ rows' = [j \in Ids |-> IF j \in S THEN gone(j) ELSE rows[j]]
           /\ trail' = [j \in Ids |-> IF j \in S THEN Append(trail[j], Entry("delete", gone(j)))
                                      ELSE trail[j]]

Next == \E i \in Ids :
          \/ \E r \in Rows : Create(i, r) \/ Amend(i, r)
          \/ Restore(i)
          \/ Delete(i, {i})
          \/ rows[i] # NoRow /\ rows[i].app # NoId /\ Delete(i, {i, rows[i].app})

Spec == Init /\ [][Next]_ledger
=============================================================================
