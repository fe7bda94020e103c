------------------------- MODULE MCQuoteResolution -------------------------
(* Two callers of two quotes, one alone and both together. *)
EXTENDS QuoteResolution, TLC

CONSTANTS k1, k2, qa, qb

MCAsks == {<<qa>>, <<qa, qb>>}
Callers == Permutations({k1, k2})

\* Picked is SelectSeq.
ASSUME PickedAssumption ==
    \A s \in UNION {[1..n -> 1..3] : n \in 0..4} : \A S \in SUBSET (1..3) :
        Picked(s, {n \in DOMAIN s : s[n] \in S}) = SelectSeq(s, LAMBDA x : x \in S)

\* A history either lets time pass or takes snapshots.
TimeOrSnapshots == now = 0 \/ snaps = <<>>
=============================================================================
