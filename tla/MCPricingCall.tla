--------------------------- MODULE MCPricingCall ---------------------------
(* One call of any product for a saved trade t, its curve set cs, a curve  *)
(* cv and a fourth row ex that plays whatever else the product reads.      *)
EXTENDS PricingCall

CONSTANTS p1, u, t, cs, cv, ex, b1, b2

MCUid == [c \in Calls |-> u]

\* Every row keeps its name (its own id), so a name is never in the way.
RowsNamed(n) == [owner : {u}, name : {n}, app : {NoId}, body : {b1, b2}, live : BOOLEAN]
MCRows == UNION {RowsNamed(i) : i \in Ids}
MCSaved == [i \in Ids |-> [owner |-> u, name |-> i, app |-> NoId, body |-> b1, live |-> TRUE]]

Ref(i, r) == [id |-> i, role |-> r]

\* By set, in the portal's way; then pins for two curves under use_same_curve.
MCBlocks == [b \in {b1, b2} |->
    IF b = b1 THEN [NoBlock EXCEPT !.set = cs, !.curves = <<Ref(cv, "none"), Ref(ex, "none")>>,
                                   !.credit = ex, !.vol = ex, !.model = Literal,
                                   !.index = ex, !.spot = Literal]
    ELSE [NoBlock EXCEPT !.same = TRUE, !.discount = cv, !.forecast = ex, !.vol = ex,
                         !.index = Literal]]

MCMembers == [b \in {b1, b2} |->
    IF b = b1 THEN <<Ref(cv, "discount")>> ELSE <<Ref(cv, "none"), Ref(ex, "projection")>>]

Plain(p) == [NoRequest.with EXCEPT !.product = p]
ById(w) == [NoRequest EXCEPT !.trade = t, !.with = w]

\* Every product by reference; one with overrides, one inline, one inline without
\* the block that says where its second curve is.
MCRequests ==
    {ById(Plain(p)) : p \in Products} \cup
    {ById([Plain("bond_floating") EXCEPT !.curves = <<Ref(Literal, "discount")>>, !.snap = ex]),
     [NoRequest EXCEPT !.inline = MCBlocks[b2], !.with = Plain("bond_floating")],
     [NoRequest EXCEPT !.inline = [NoBlock EXCEPT !.present = FALSE, !.same = TRUE],
                       !.with = [Plain("bond_floating") EXCEPT !.curves = <<Ref(Literal, "discount")>>]]}

\* Equity curves, one of them pinned to a role.
MCPinned ==
    {ById([Plain("equity_option") EXCEPT !.curves =
               <<Ref(Literal, "none"), Ref(cv, "dividend"), Ref(ex, "none")>>])}
=============================================================================
