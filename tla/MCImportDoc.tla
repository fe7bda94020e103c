----------------------------- MODULE MCImportDoc -----------------------------
(* Documents of up to four entries, posted twice, next to a user's edits, to *)
(* an empty account or to one that has deleted an entity of a document's. *)
EXTENDS ImportDoc

CONSTANTS n1, n2, eonia

MCIds == 1..10

Good(t, n) == [type |-> t, id |-> n, sound |-> TRUE, quote |-> "inline", grid |-> FALSE,
               index |-> eonia]
Index == Good("index", n1)
Curve(n) == [Good("curve", n) EXCEPT !.index = n1]
Surface == [Good("vol_surface", n1) EXCEPT !.quote = "unknown"]

MCDocuments == {
    <<>>,
    <<Curve(n2), Index>>,
    <<Curve(n2), [Index EXCEPT !.sound = FALSE]>>,
    <<[Curve(n1) EXCEPT !.quote = "unknown"], Index, Index>>,
    <<Surface, [Surface EXCEPT !.id = n2, !.grid = TRUE],
      Good("swaption_model", NoName), [Good("credit_curve", n2) EXCEPT !.quote = "unknown"]>>,
    <<Good("swaption_model", n2), [Good("credit_curve", n1) EXCEPT !.quote = "known"]>>}

MCInherited ==
    LET none == [i \in MCIds |-> NoRow]
    IN  {none, [none EXCEPT ![1] = [NewRow(<<"index", n1>>, "document") EXCEPT !.live = FALSE]]}
=============================================================================
