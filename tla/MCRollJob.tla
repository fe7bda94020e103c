----------------------------- MODULE MCRollJob -----------------------------
(* One user, the demo owner, and one marked curve with two dates.          *)
EXTENDS RollJob

CONSTANTS a, b, dev, curve, n1, n2, d1, d2

MCOwnerOf == [c \in Clients |-> dev]
MCPatches == {EmptyPatch} \cup {[EmptyPatch EXCEPT !.body = x] : x \in Bodies}
                 \cup {[EmptyPatch EXCEPT !.name = n] : n \in Names}
MCInherited == {[i \in Ids |-> NoRow]}
=============================================================================
