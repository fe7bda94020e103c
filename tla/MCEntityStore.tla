--------------------------- MODULE MCEntityStore ---------------------------
(* Small instances of EntityStore for TLC; RollJob lends its constants.    *)
EXTENDS RollJob

CONSTANTS a, b, o1, g, w, n1, n2, b1, b2

\* Both slots serve one user.
MCOwnerOf == [c \in Clients |-> o1]

Column(f, x) == [EmptyPatch EXCEPT ![f] = x]

\* Renames, body edits and the edit of nothing.
MCPatches == {EmptyPatch} \cup {Column("name", n) : n \in Names}
                 \cup {Column("body", x) : x \in Bodies}

\* No rows; or, from before the audit trail, a wrapper with a graph that was deleted alone.
Before(n, x, live) == [owner |-> o1, name |-> n, app |-> x, body |-> b1, live |-> live]
MCInherited == {[i \in Ids |-> NoRow],
                [i \in Ids |-> IF i = w THEN Before(n1, g, TRUE) ELSE Before(n2, NoId, FALSE)]}
=============================================================================
