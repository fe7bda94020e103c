------------------------------ MODULE Assembly ------------------------------
(***************************************************************************)
(* What the pricing assemblers (pricing/<product>/assembler.py) decide     *)
(* before they read a row: which references of the request and of the      *)
(* trade's pricing block a product uses, in which order it reads them, and *)
(* which of them plays which role.  Pure functions, no state.              *)
(*                                                                         *)
(* A reference is an id, Literal (an inline definition: nothing to read)   *)
(* or NoId (absent).  In a reading list NoId stands for the point where a  *)
(* missing reference raises; a trade without a pricing block (present is   *)
(* FALSE) has none of the block's fields, which raises at the same point.  *)
(***************************************************************************)
EXTENDS Naturals, Sequences, FiniteSets, Subsequences

CONSTANTS Ids, NoId, Literal

ASSUME ReferenceAssumption == NoId \notin Ids /\ Literal \notin Ids /\ NoId # Literal

Given == Ids \cup {Literal}
Reference == Given \cup {NoId}
Products == {"swap_ir", "swaption", "bond_fixed", "bond_floating", "cds",
             "equity_option", "swap_inflation", "fx_forward"}
Roles == {"none", "discount", "forward", "projection", "dividend", "nominal", "inflation"}

CurveRef == [id : Given, role : Roles]

\* A trade's pricing block, with the use_same_curve a floating bond keeps beside
\* it, and the overrides of a request.
Block == [present : BOOLEAN, same : BOOLEAN, set : Ids \cup {NoId}, discount : Ids \cup {NoId},
          forecast : Ids \cup {NoId}, curves : Seq(CurveRef), credit : Reference,
          vol : Reference, model : Reference, index : Reference, spot : Reference]
Override == [product : Products, curves : Seq(CurveRef), credit : Reference, vol : Reference,
             model : Reference, index : Reference, spot : Reference, snap : Ids \cup {NoId}]

\* A block without a field.
NoBlock == [present |-> TRUE, same |-> FALSE, set |-> NoId, discount |-> NoId, forecast |-> NoId,
            curves |-> <<>>, credit |-> NoId, vol |-> NoId, model |-> NoId,
            index |-> NoId, spot |-> NoId]

Or(x, y) == IF x = NoId THEN y ELSE x

\* The k-th of the entries of s at the places I.
Pick(s, I, k) == IF Cardinality(I) < k THEN NoId ELSE Picked(s, I)[k].id

Nth(s, k) == Pick(s, DOMAIN s, k)

IdsOf(s) == [k \in DOMAIN s |-> s[k].id]

-----------------------------------------------------------------------------
(* Floating-rate bonds: each role comes from the first source that has it. *)

\* The entries no role marker places: unmarked ones, and repeated markers.
Unroled(s) ==
    {i \in DOMAIN s : \/ s[i].role \notin {"discount", "projection"}
                      \/ \E j \in 1..(i - 1) : s[j].role = s[i].role}

\* _fill_missing_roles: the marked curves d and p, what they leave open taken from
\* the places U.  A single unmarked curve alone does not say which it is.
Dealt(s, same, U, d, p) ==
    LET ambiguous == Cardinality(U) = 1 /\ ~same /\ d = NoId /\ p = NoId
    IN  IF U = {} \/ ambiguous THEN <<d, p>>
        ELSE <<Or(d, Pick(s, U, 1)), Or(p, Pick(s, U, IF Cardinality(U) = 1 THEN 1 ELSE 2))>>

\* _split_floating_request_overrides
Split(s, same) ==
    LET placed(r) == Pick(s, {i \in DOMAIN s : s[i].role = r}, 1)
    IN  Dealt(s, same, Unroled(s), placed("discount"), placed("projection"))

Fill(x, y) == <<Or(x[1], y[1]), Or(x[2], y[2])>>

Incomplete(x) == x[1] = NoId \/ x[2] = NoId

\* Under use_same_curve one curve serves both roles.
Shared(same, x) == IF same THEN Fill(x, <<x[2], x[1]>>) ELSE x

\* The request's curves, then the pins; without a block, whose absence raises, the
\* request's alone.
FloatingPins(q, b) ==
    LET own == Split(q.curves, b.same)
    IN  IF b.present THEN Shared(b.same, Fill(own, <<b.discount, b.forecast>>)) ELSE own

\* A set whose entries place no curve at all is refused.
FloatingCurves(q, b, members) ==
    LET fromSet == Split(members, b.same)
    IN  IF members # <<>> /\ fromSet = <<NoId, NoId>> THEN fromSet
        ELSE Fill(Fill(FloatingPins(q, b), fromSet), Split(b.curves, b.same))

-----------------------------------------------------------------------------
(* Equity options and inflation swaps: an untagged curve takes the role of *)
(* its place, and the last curve of a role wins.                           *)

RoleAt(s, i, roles) ==
    IF s[i].role # "none" THEN s[i].role ELSE roles[IF i = 1 THEN 1 ELSE 2]

\* _split_into_discount_and_dividend, _split_into_nominal_and_inflation
Bucket(s, roles) ==
    LET at(r) == {i \in DOMAIN s : RoleAt(s, i, roles) = r}
        rest == {i \in DOMAIN s : RoleAt(s, i, roles) \notin {roles[1], roles[2]}}
        last(r) == Pick(s, at(r), Cardinality(at(r)))
        first == IF at(roles[1]) # {} THEN last(roles[1]) ELSE Pick(s, rest, 1)
    IN  <<first, IF at(roles[2]) # {} THEN last(roles[2])
                 ELSE Pick(s, rest, IF at(roles[1]) = {} THEN 2 ELSE 1)>>

EquityRoles == <<"discount", "dividend">>
InflationRoles == <<"nominal", "inflation">>

-----------------------------------------------------------------------------
(* All products.                                                           *)

\* The app.curve_sets row is read only when nothing before it in the chain
\* places the curves.
NeedsSet(q, b) ==
    /\ b.set # NoId
    /\ CASE q.product \in {"swap_ir", "swaption"} -> q.curves = <<>>
         [] q.product = "bond_fixed" -> q.curves = <<>> /\ b.discount = NoId
         [] q.product = "bond_floating" -> Incomplete(FloatingPins(q, b))
         [] OTHER -> FALSE

\* The list a product takes its curves from when it has no pins of its own.  (A
\* swap's empty curve set is refused by the translator, here where it is read.)
CurveList(q, b, members) ==
    IF q.curves # <<>> THEN q.curves ELSE IF NeedsSet(q, b) THEN members ELSE b.curves

\* The first curve discounts, the second forecasts; one alone does both.
ByPlace(list) == <<Nth(list, 1), Or(Nth(list, 2), Nth(list, 1))>>

\* A fixed bond or CDS has one curve: the request's, the pinned one, the list's.
OneCurve(q, b, list) ==
    LET first == Nth(list, 1)
        d == IF q.curves = <<>> THEN Or(b.discount, first) ELSE first
    IN  <<d, d>>

\* Without a dividend curve the assembler puts in a flat one of its own.
WithDividend(x) == <<x[1], Or(x[2], Literal)>>

\* Under use_same_curve an inline projection yields to a stored discount curve.
Projected(b, x) == IF b.same /\ x[1] \in Ids /\ x[2] = Literal THEN <<x[1], x[1]>> ELSE x

\* The two curves a trade is priced with.
Curves(q, b, members) ==
    LET list == CurveList(q, b, members)
    IN  CASE q.product \in {"swap_ir", "swaption", "fx_forward"} -> ByPlace(list)
          [] q.product \in {"bond_fixed", "cds"} -> OneCurve(q, b, list)
          [] q.product = "equity_option" -> WithDividend(Bucket(list, EquityRoles))
          [] q.product = "swap_inflation" -> Bucket(list, InflationRoles)
          [] q.product = "bond_floating" -> Projected(b, FloatingCurves(q, b, members))

Need(x) == IF x = NoId THEN <<NoId>> ELSE <<x>>
May(x) == IF x = NoId THEN <<>> ELSE <<x>>

\* Mutant: one curve serves both roles whenever use_same_curve says so.
CurveReads_Same(q, b, members) ==
    LET list == CurveList(q, b, members)
        c == Curves(q, b, members)
    IN  CASE q.product = "bond_floating" ->
                 IF Incomplete(c) THEN <<NoId>> ELSE IF b.same THEN <<c[1]>> ELSE c
          [] q.product \in {"bond_fixed", "cds"} -> <<c[1]>>
          [] OTHER -> IdsOf(list) \o (IF Incomplete(c) THEN <<NoId>> ELSE <<>>)

\* A list is read whole before its roles are dealt out; a bond or CDS reads the
\* curves it chose, the second not again when it is the first.
CurveReads(q, b, members) ==
    LET list == CurveList(q, b, members)
        c == Curves(q, b, members)
    IN  CASE q.product = "bond_floating" ->
                 IF Incomplete(c) THEN <<NoId>> ELSE IF c[1] = c[2] THEN <<c[1]>> ELSE c
          [] q.product \in {"bond_fixed", "cds"} -> <<c[1]>>
          [] OTHER -> IdsOf(list) \o (IF Incomplete(c) THEN <<NoId>> ELSE <<>>)

\* What each product reads after its curves.
SurfaceReads(q, b) == Need(Or(q.vol, b.vol))
ModelReads(q, b) == Need(Or(q.model, b.model))
CreditReads(q, b) == Need(Or(q.credit, b.credit))
FloatingIndex(q, b) == Need(Or(q.index, b.index))
InflationIndex(q, b) == Need(Or(q.index, b.index))
SpotReads(q, b) == Need(Or(q.spot, b.spot))

\* The portal keeps no saved index for a swaption; a swap's is never read; an
\* equity spot is a quote, not a row.
OtherReads(q, b) ==
    LET snap == May(q.snap)
    IN  CASE q.product = "swaption" ->
                 SurfaceReads(q, b) \o ModelReads(q, b) \o snap \o May(q.index)
          [] q.product = "bond_floating" -> FloatingIndex(q, b) \o snap
          [] q.product = "swap_inflation" -> InflationIndex(q, b) \o snap
          [] q.product = "cds" -> CreditReads(q, b) \o snap
          [] q.product = "equity_option" -> SurfaceReads(q, b) \o SpotReads(q, b) \o snap
          [] q.product = "fx_forward" -> SpotReads(q, b) \o May(Or(q.index, b.index)) \o snap
          [] OTHER -> snap

\* fx_forward looks at all its lists before it reads the first of them.
Reads(q, b, members) ==
    LET plan == CurveReads(q, b, members) \o OtherReads(q, b)
        stored == Picked(plan, {k \in DOMAIN plan : plan[k] # Literal})
    IN  IF q.product = "fx_forward" /\ NoId \in {plan[k] : k \in DOMAIN plan} THEN <<NoId>>
        ELSE stored

=============================================================================
