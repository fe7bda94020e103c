--------------------------- MODULE ImportDocProofs ---------------------------
(***************************************************************************)
(* What an import's report is worth, for every document, account and       *)
(* interleaving with the account's user.  The invariant: entries are       *)
(* settled in order, each outcome was earned when it was given (Earned),   *)
(* the rows the report names are the import's own (Created), and while     *)
(* nobody interferes the names that are taken are those that were taken at *)
(* the start and those of the settled entries (Foreseen).                  *)
(***************************************************************************)
EXTENDS ImportDoc, SubsequencesProofs

Changes == {"create", "amend", "delete", "restore"}
LedgerEntry == [change : Changes, row : Row]
FullNames == Types \X Names
Job == [stage : {"idle", "check", "create", "done"}, doc : Seq(Entry), dry : BOOLEAN,
        skip : BOOLEAN, out : Seq(Outcome), batch : SUBSET FullNames, start : SUBSET FullNames,
        seen : SUBSET FullNames, quiet : BOOLEAN]

\* A row that is not there has no trail.
LedgerOK ==
    /\ rows \in [Ids -> Row \cup {NoRow}]
    /\ trail \in [Ids -> Seq(LedgerEntry)]
    /\ \A i \in Ids : rows[i] = NoRow <=> Len(trail[i]) = 0

Pending(k) == job.out[k].kind = "pending"
Mapped(k) == Maps(job.doc, job.doc[k])
Items == 1..Len(job.doc)

\* Outcomes are given in order, to the entries that mapped.
InOrder ==
    /\ Len(job.out) = Len(job.doc)
    /\ job.stage = "idle" => job = NoJob
    /\ job.stage \in {"check", "create"} <=> \E k \in Items : Pending(k)
    /\ job.stage = "create" => ~job.dry
    /\ \A k \in Items : job.out[k].kind = "invalid" <=> ~Mapped(k)
    /\ \A k, m \in Items : k < m /\ Pending(k) /\ Mapped(m) => Pending(m)
    /\ \A k \in Items : job.out[k].id # NoId <=> job.out[k].kind = "imported" /\ ~job.dry

\* An entry imported or in conflict was live under its name when that was said.
Earned ==
    ~job.dry =>
        /\ job.batch \subseteq job.seen
        /\ \A k \in Items : job.out[k].kind \in {"imported", "conflict"} => Name(job.doc[k]) \in job.seen

\* The row reported for an entry began as that entry, and as no other.
Created ==
    \A k \in Items : job.out[k].kind = "imported" /\ ~job.dry =>
        LET i == job.out[k].id
        IN  /\ i \in Ids /\ rows[i] # NoRow
            /\ trail[i][1] = [change |-> "create", row |-> NewRow(Name(job.doc[k]), "document")]
            /\ \A m \in Items \ {k} : job.out[m].kind = "imported" => job.out[m].id # i

Accounted == {Name(job.doc[m]) : m \in {x \in Items : Mapped(x) /\ ~Pending(x)}}

\* While nobody interferes.
Foreseen ==
    job.quiet /\ job.stage # "idle" =>
        /\ job.batch \cup LiveNames(rows) = job.start \cup Accounted
        /\ ~job.dry => job.batch \subseteq LiveNames(rows)
        /\ job.stage = "create" => Name(Item) \notin job.batch
        /\ \A k \in Items : ~Pending(k) => job.out[k].kind = Predicted(k)

IInv ==
    /\ LedgerOK /\ job \in Job /\ imports \in 0..MaxImports /\ edits \in 0..MaxEdits
    /\ InOrder /\ Earned /\ Created /\ Foreseen

-----------------------------------------------------------------------------
(* The store.                                                              *)

LEMMA IdsFacts == Ids \subseteq Nat \ {0} /\ NoId = 0 /\ NoId \notin Ids
<1>1. Cardinality(Ids) \in Nat
  BY ImportAssumption, FS_CardinalityType
<1> QED
  BY <1>1, ImportAssumption

\* What an import relies on when somebody writes: rows stay, and so does the first
\* entry of their trails.
Lasting ==
    \A i \in Ids : rows[i] # NoRow => rows'[i] # NoRow /\ trail'[i][1] = trail[i][1]

LEMMA Flipped ==
    ASSUME NEW r \in Row, NEW l \in BOOLEAN
    PROVE  [r EXCEPT !.live = l] \in Row
BY DEF Row

LEMMA NewRowType ==
    ASSUME NEW n \in FullNames, NEW who \in {"document", "user"}
    PROVE  /\ NewRow(n, who) \in Row /\ NewRow(n, who).live
           /\ NewRow(n, who).owner = Owner /\ NewRow(n, who).name = n
BY DEF NewRow, Row, FullNames, Owner

\* One more entry in the trail of each row of S, the other rows left alone.
LEMMA Recorded ==
    ASSUME LedgerOK, NEW S, NEW r \in [Ids -> Row], NEW change \in Changes,
           rows' = [i \in Ids |-> IF i \in S THEN r[i] ELSE rows[i]],
           trail' = [i \in Ids |-> IF i \in S THEN Append(trail[i], Ledger!Entry(change, r[i]))
                                   ELSE trail[i]]
    PROVE  LedgerOK' /\ Lasting
<1>1. ASSUME NEW i \in Ids
      PROVE  /\ trail[i] \in Seq(LedgerEntry) /\ Ledger!Entry(change, r[i]) \in LedgerEntry
             /\ r[i] \in Row /\ r[i] # NoRow
  BY RowAssumption DEF LedgerOK, Ledger!Entry, LedgerEntry
<1>2. \A s \in Seq(LedgerEntry), e \in LedgerEntry :
        /\ Append(s, e) \in Seq(LedgerEntry) /\ Len(Append(s, e)) # 0
        /\ Len(s) # 0 => Append(s, e)[1] = s[1]
  OBVIOUS
<1>3. rows' \in [Ids -> Row \cup {NoRow}]
  BY <1>1 DEF LedgerOK
<1>4. ASSUME NEW i \in Ids
      PROVE  /\ trail'[i] \in Seq(LedgerEntry)
             /\ rows'[i] = NoRow <=> Len(trail'[i]) = 0
             /\ rows[i] # NoRow => rows'[i] # NoRow /\ trail'[i][1] = trail[i][1]
  <2>1. CASE i \in S
    <3>1. /\ rows'[i] = r[i] /\ trail'[i] = Append(trail[i], Ledger!Entry(change, r[i]))
          /\ rows[i] # NoRow => Len(trail[i]) # 0
      BY <2>1 DEF LedgerOK
    <3> QED
      BY <1>1, <1>2, <3>1
  <2>2. CASE i \notin S
    BY <1>1, <2>2 DEF LedgerOK
  <2> QED
    BY <2>1, <2>2
<1>5. trail' \in [Ids -> Seq(LedgerEntry)]
  <2>1. trail' = [i \in Ids |-> trail'[i]]
    OBVIOUS
  <2> QED
    BY <1>4, <2>1
<1> QED
  BY <1>3, <1>4, <1>5 DEF LedgerOK, Lasting

LEMMA RecordLasting ==
    ASSUME LedgerOK, NEW i \in Ids, NEW r \in Row, NEW change \in Changes,
           Ledger!Record(i, change, r)
    PROVE  LedgerOK' /\ Lasting
<1> DEFINE s == [j \in Ids |-> r]
<1>1. rows' = [j \in Ids |-> IF j \in {i} THEN s[j] ELSE rows[j]]
  BY DEF LedgerOK, Ledger!Record
<1>2. trail' = [j \in Ids |-> IF j \in {i} THEN Append(trail[j], Ledger!Entry(change, s[j]))
                              ELSE trail[j]]
  BY DEF LedgerOK, Ledger!Record
<1>3. s \in [Ids -> Row]
  OBVIOUS
<1> HIDE DEF s
<1> QED
  BY <1>1, <1>2, <1>3, Recorded

LEMMA CreateLasting ==
    ASSUME LedgerOK, NEW i \in Ids, NEW n \in FullNames, NEW who \in {"document", "user"},
           Ledger!Create(i, NewRow(n, who))
    PROVE  /\ LedgerOK' /\ Lasting /\ rows[i] = NoRow /\ rows'[i] = NewRow(n, who)
           /\ \A j \in Ids \ {i} : rows'[j] = rows[j]
           /\ trail'[i][1] = [change |-> "create", row |-> NewRow(n, who)]
<1>1. NewRow(n, who) \in Row
  BY NewRowType
<1>2. /\ rows[i] = NoRow /\ Ledger!Record(i, "create", NewRow(n, who))
  BY DEF Ledger!Create
<1>3. LedgerOK' /\ Lasting
  BY <1>1, <1>2, RecordLasting DEF Changes
<1>4. rows'[i] = NewRow(n, who) /\ \A j \in Ids \ {i} : rows'[j] = rows[j]
  BY <1>2 DEF LedgerOK, Ledger!Record
<1>5. trail'[i][1] = [change |-> "create", row |-> NewRow(n, who)]
  <2> DEFINE e == Ledger!Entry("create", NewRow(n, who))
  <2>1. trail'[i] = Append(trail[i], e) /\ trail[i] \in Seq(LedgerEntry) /\ Len(trail[i]) = 0
    BY <1>2 DEF LedgerOK, Ledger!Record
  <2>2. e = [change |-> "create", row |-> NewRow(n, who)]
    BY DEF Ledger!Entry
  <2> HIDE DEF e
  <2>3. Append(trail[i], e)[1] = e
    BY <2>1
  <2> QED
    BY <2>1, <2>2, <2>3
<1> QED
  BY <1>2, <1>3, <1>4, <1>5

\* The user's other writes.
LEMMA AmendLasting ==
    ASSUME LedgerOK, NEW i \in Ids, NEW n \in Names, rows[i] # NoRow,
           Ledger!Amend(i, NewRow(<<rows[i].name[1], n>>, "user"))
    PROVE  LedgerOK' /\ Lasting
<1>1. <<rows[i].name[1], n>> \in FullNames
  BY DEF LedgerOK, Row, FullNames
<1> QED
  BY <1>1, NewRowType, RecordLasting DEF Ledger!Amend, Changes

LEMMA DeleteLasting ==
    ASSUME LedgerOK, NEW i \in Ids, Ledger!Delete(i, {i})
    PROVE  LedgerOK' /\ Lasting
<1> DEFINE g == [rows[i] EXCEPT !.live = FALSE]
           s == [j \in Ids |-> g]
<1>1. g \in Row
  BY Flipped DEF LedgerOK, Ledger!Delete
<1>2. rows' = [j \in Ids |-> IF j \in {i} THEN s[j] ELSE rows[j]]
  BY DEF Ledger!Delete
<1>3. trail' = [j \in Ids |-> IF j \in {i} THEN Append(trail[j], Ledger!Entry("delete", s[j]))
                              ELSE trail[j]]
  BY DEF Ledger!Delete
<1>4. s \in [Ids -> Row] /\ "delete" \in Changes
  BY <1>1 DEF Changes
<1> HIDE DEF s
<1> QED
  BY <1>2, <1>3, <1>4, Recorded

LEMMA RestoreLasting ==
    ASSUME LedgerOK, NEW i \in Ids, Ledger!Restore(i)
    PROVE  LedgerOK' /\ Lasting
<1>1. [rows[i] EXCEPT !.live = TRUE] \in Row
  BY Flipped DEF LedgerOK, Ledger!Restore
<1> QED
  BY <1>1, RecordLasting DEF Ledger!Restore, Changes

-----------------------------------------------------------------------------
(* Settling an entry.                                                      *)

LEMMA LiveNamesType ==
    ASSUME NEW rs \in [Ids -> Row \cup {NoRow}]
    PROVE  LiveNames(rs) \subseteq FullNames
BY RowAssumption DEF LiveNames, Row, FullNames

LEMMA MappedNames ==
    ASSUME NEW d, NEW e \in Entry, Maps(d, e)
    PROVE  Name(e) \in FullNames
<1>1. e.type \in Types /\ e.id \in Names \cup {NoName}
  BY DEF Entry
<1>2. e.id # NoName
  BY <1>1 DEF Maps, IndexMaps, CurveMaps, CreditMaps, SurfaceMaps, ModelMaps, Types
<1> QED
  BY <1>1, <1>2 DEF Name, FullNames

\* The entry at hand.
LEMMA AtFacts ==
    ASSUME IInv, Busy
    PROVE  /\ At \in Items /\ Pending(At) /\ Mapped(At) /\ Item \in Entry
           /\ Name(Item) \in FullNames /\ Item = job.doc[At]
           /\ \A m \in Items : m < At => ~Pending(m)
<1>1. job \in Job /\ Len(job.out) = Len(job.doc) /\ DOMAIN job.doc = 1..Len(job.doc)
      /\ \E k \in Items : Pending(k)
  BY DEF IInv, Job, InOrder, Busy
<1> DEFINE S == {k \in Items : Pending(k)}
<1>2. S \subseteq Nat /\ S # {}
  BY <1>1 DEF Items
<1> HIDE DEF S
<1>3. PICK k \in S : \A n \in S : k <= n
  BY <1>2, LeastNatural
<1>4. k \in Items /\ Pending(k) /\ k \in Nat
  BY <1>3 DEF S, Items
<1>5. \A m \in 1..(k - 1) : ~Pending(m)
  <2> SUFFICES ASSUME NEW m \in 1..(k - 1), Pending(m) PROVE FALSE
    OBVIOUS
  <2>1. m \in S /\ m < k /\ m \in Nat
    BY <1>1, <1>4 DEF S, Items, Job
  <2> QED
    BY <1>3, <1>4, <2>1
<1>6. \E x \in DOMAIN job.doc : /\ job.out[x].kind = "pending"
                                /\ \A m \in 1..(x - 1) : job.out[m].kind # "pending"
  BY <1>1, <1>4, <1>5 DEF Items, Pending
<1>7. At \in DOMAIN job.doc /\ job.out[At].kind = "pending"
      /\ \A m \in 1..(At - 1) : job.out[m].kind # "pending"
  BY <1>6 DEF At
<1>8. At \in Items /\ Pending(At) /\ At \in Nat
  BY <1>1, <1>7 DEF Items, Pending
<1>9. ASSUME NEW m \in Items, m < At PROVE ~Pending(m)
  <2>1. m \in 1..(At - 1)
    BY <1>8, <1>9 DEF Items
  <2> QED
    BY <1>7, <2>1 DEF Pending
<1>10. Mapped(At)
  BY <1>8 DEF IInv, InOrder, Pending
<1>11. Item \in Entry /\ Item = job.doc[At]
  BY <1>1, <1>8 DEF Item, Items, Job
<1>12. Name(Item) \in FullNames
  BY <1>10, <1>11, MappedNames DEF Mapped
<1> QED
  BY <1>8, <1>9, <1>10, <1>11, <1>12

\* What settling it makes of the job.
LEMMA SettleFacts ==
    ASSUME IInv, Busy, LedgerOK', NEW o \in Outcome, o.kind \notin {"pending", "invalid"},
           NEW names \in SUBSET FullNames, Settle(o, names)
    PROVE  /\ job' \in Job
           /\ job'.doc = job.doc /\ job'.dry = job.dry /\ job'.skip = job.skip
           /\ job'.start = job.start /\ job'.batch = job.batch \cup names
           /\ job'.seen = job.seen \cup LiveNames(rows')
           /\ job'.quiet = (job.quiet /\ o.kind # "failed")
           /\ job'.out[At] = o /\ \A k \in Items \ {At} : job'.out[k] = job.out[k]
           /\ Len(job'.out) = Len(job.doc)
           /\ job'.stage \in {"check", "done"}
           /\ job'.stage = "check" <=> \E k \in Items : job'.out[k].kind = "pending"
<1> DEFINE out == [job.out EXCEPT ![At] = o]
<1>1. job' = [job EXCEPT !.out = out, !.batch = @ \cup names, !.stage = NextStage(out),
                         !.seen = @ \cup LiveNames(rows'), !.quiet = @ /\ o.kind # "failed"]
  BY DEF Settle
<1>2. job \in Job /\ job.out \in Seq(Outcome) /\ Len(job.out) = Len(job.doc)
      /\ At \in Items /\ job.batch \in SUBSET FullNames /\ job.seen \in SUBSET FullNames
  BY AtFacts DEF IInv, InOrder, Job
<1>3. /\ out \in Seq(Outcome) /\ Len(out) = Len(job.doc) /\ DOMAIN out = Items
      /\ out[At] = o /\ \A k \in Items \ {At} : out[k] = job.out[k]
  BY <1>2 DEF Items
<1> HIDE DEF out
<1>4. LiveNames(rows') \in SUBSET FullNames
  BY LiveNamesType DEF LedgerOK
<1>5. /\ NextStage(out) \in {"check", "done"}
      /\ NextStage(out) = "check" <=> \E k \in Items : out[k].kind = "pending"
  BY <1>3 DEF NextStage
<1>6. /\ job'.doc = job.doc /\ job'.dry = job.dry /\ job'.skip = job.skip
      /\ job'.start = job.start /\ job'.batch = job.batch \cup names
      /\ job'.seen = job.seen \cup LiveNames(rows')
      /\ job'.quiet = (job.quiet /\ o.kind # "failed")
      /\ job'.out = out /\ job'.stage = NextStage(out)
  BY <1>1, <1>2, Zenon DEF Job
<1>7. job' \in Job
  BY <1>1, <1>2, <1>3, <1>4, <1>5 DEF Job
<1> QED
  BY <1>3, <1>5, <1>6, <1>7

\* Settling an entry keeps the invariant if its outcome is earned: an imported one
\* by a row that is new, a conflict by the name, and if nobody interferes, as a dry
\* run would say.
LEMMA SettleInv ==
    ASSUME IInv, Busy, LedgerOK', Lasting, UNCHANGED <<imports, edits>>,
           NEW o \in Outcome, o.kind \notin {"pending", "invalid"},
           NEW names \in SUBSET FullNames, Settle(o, names),
           o.id # NoId <=> o.kind = "imported" /\ ~job.dry,
           ~job.dry => names \subseteq LiveNames(rows'),
           ~job.dry /\ o.kind \in {"imported", "conflict"} =>
               Name(Item) \in job.batch \cup LiveNames(rows'),
           ~job.dry /\ o.kind = "imported" =>
               /\ o.id \in Ids /\ rows[o.id] = NoRow /\ rows'[o.id] # NoRow
               /\ trail'[o.id][1] = [change |-> "create", row |-> NewRow(Name(Item), "document")],
           job.quiet /\ o.kind # "failed" =>
               /\ job.batch \cup names \cup LiveNames(rows') = job.start \cup Accounted \cup {Name(Item)}
               /\ ~job.dry => job.batch \cup names \subseteq LiveNames(rows')
               /\ o.kind = Predicted(At)
    PROVE  IInv'
<1>1. /\ job' \in Job
      /\ job'.doc = job.doc /\ job'.dry = job.dry /\ job'.skip = job.skip
      /\ job'.start = job.start /\ job'.batch = job.batch \cup names
      /\ job'.seen = job.seen \cup LiveNames(rows')
      /\ job'.quiet = (job.quiet /\ o.kind # "failed")
      /\ job'.out[At] = o /\ \A k \in Items \ {At} : job'.out[k] = job.out[k]
      /\ Len(job'.out) = Len(job.doc)
      /\ job'.stage \in {"check", "done"}
      /\ job'.stage = "check" <=> \E k \in Items : job'.out[k].kind = "pending"
  BY SettleFacts
<1>2. /\ At \in Items /\ Pending(At) /\ Mapped(At) /\ Item = job.doc[At] /\ At \in Nat
      /\ \A m \in Items : m < At => ~Pending(m)
  BY AtFacts DEF Items
<1>3. Items' = Items /\ \A k : Mapped(k)' = Mapped(k)
  BY <1>1 DEF Items, Mapped
<1>4. ASSUME NEW k \in Items
      PROVE  /\ k = At => ~Pending(k)' /\ job'.out[k] = o
             /\ k # At => Pending(k)' = Pending(k) /\ job'.out[k] = job.out[k]
  BY <1>1 DEF Pending
<1>5. InOrder'
  <2>1. Len(job'.out) = Len(job'.doc) /\ job'.stage # "idle" /\ job'.stage # "create"
    BY <1>1
  <2>2. job'.stage \in {"check", "create"} <=> \E k \in Items' : Pending(k)'
    BY <1>1, <1>3 DEF Pending
  <2>3. ASSUME NEW k \in Items
        PROVE  /\ job'.out[k].kind = "invalid" <=> ~Mapped(k)'
               /\ job'.out[k].id # NoId <=> job'.out[k].kind = "imported" /\ ~job'.dry
    BY <1>1, <1>2, <1>3, <1>4 DEF IInv, InOrder
  <2>4. ASSUME NEW k \in Items, NEW m \in Items, k < m, Pending(k)', Mapped(m)'
        PROVE  Pending(m)'
    <3>1. Pending(k) /\ Mapped(m) /\ k # At
      BY <1>3, <1>4, <2>4
    <3>2. Pending(m)
      BY <2>4, <3>1 DEF IInv, InOrder
    <3>3. m # At
      BY <1>2, <2>4, <3>1
    <3> QED
      BY <1>4, <3>2, <3>3
  <2> QED
    BY <1>3, <2>1, <2>2, <2>3, <2>4 DEF InOrder
<1>6. Earned'
  <2> SUFFICES ASSUME ~job.dry
               PROVE  /\ job'.batch \subseteq job'.seen
                      /\ \A k \in Items : job'.out[k].kind \in {"imported", "conflict"} =>
                            Name(job'.doc[k]) \in job'.seen
    BY <1>1, <1>3 DEF Earned
  <2>1. job.batch \subseteq job.seen
    BY DEF IInv, Earned
  <2>2. ASSUME NEW k \in Items, job'.out[k].kind \in {"imported", "conflict"}
        PROVE  Name(job'.doc[k]) \in job'.seen
    <3>1. CASE k = At
      BY <1>1, <1>2, <2>1, <2>2, <3>1
    <3>2. CASE k # At
      BY <1>1, <2>2, <3>2 DEF IInv, Earned
    <3> QED
      BY <3>1, <3>2
  <2> QED
    BY <1>1, <2>1, <2>2
<1>7. Created'
  <2> SUFFICES ASSUME NEW k \in Items, job'.out[k].kind = "imported", ~job.dry
               PROVE  LET i == job'.out[k].id
                      IN  /\ i \in Ids /\ rows'[i] # NoRow
                          /\ trail'[i][1] = [change |-> "create",
                                             row |-> NewRow(Name(job.doc[k]), "document")]
                          /\ \A m \in Items \ {k} : job'.out[m].kind = "imported" => job'.out[m].id # i
    BY <1>1, <1>3 DEF Created
  <2>1. ASSUME NEW m \in Items, m # At, job'.out[m].kind = "imported"
        PROVE  LET i == job'.out[m].id
               IN  /\ i = job.out[m].id /\ i \in Ids /\ rows[i] # NoRow /\ rows'[i] # NoRow
                   /\ trail'[i][1] = [change |-> "create",
                                      row |-> NewRow(Name(job.doc[m]), "document")]
                   /\ \A n \in Items \ {m} : job.out[n].kind = "imported" => job.out[n].id # i
    BY <1>4, <2>1 DEF IInv, Created, Lasting
  <2>2. CASE k = At
    <3>1. o.kind = "imported" /\ job'.out[k].id = o.id
      BY <1>4, <2>2
    <3>2. \A m \in Items \ {k} : job'.out[m].kind = "imported" => job'.out[m].id # o.id
      BY <2>1, <2>2, <3>1
    <3> QED
      BY <1>2, <2>2, <3>1, <3>2
  <2>3. CASE k # At
    <3>1. ASSUME NEW m \in Items \ {k}, job'.out[m].kind = "imported"
          PROVE  job'.out[m].id # job'.out[k].id
      <4>1. CASE m = At
        <5>1. o.kind = "imported" /\ job'.out[m].id = o.id
          BY <1>4, <3>1, <4>1
        <5>2. rows[job'.out[k].id] # NoRow /\ rows[o.id] = NoRow
          BY <2>1, <2>3, <5>1
        <5> QED
          BY <5>1, <5>2
      <4>2. CASE m # At
        <5>1. job.out[m].kind = "imported" /\ job'.out[m].id = job.out[m].id
          BY <1>4, <3>1, <4>2
        <5>2. job.out[m].id # job'.out[k].id
          BY <2>1, <2>3, <5>1
        <5> QED
          BY <5>1, <5>2
      <4> QED
        BY <4>1, <4>2
    <3> QED
      BY <2>1, <2>3, <3>1
  <2> QED
    BY <2>2, <2>3
<1>8. Foreseen'
  <2> SUFFICES ASSUME job.quiet, o.kind # "failed"
               PROVE  /\ job'.batch \cup LiveNames(rows') = job'.start \cup Accounted'
                      /\ ~job'.dry => job'.batch \subseteq LiveNames(rows')
                      /\ \A k \in Items : ~Pending(k)' => job'.out[k].kind = Predicted(k)'
    BY <1>1, <1>3 DEF Foreseen
  <2>1. Accounted' = Accounted \cup {Name(Item)}
    BY <1>1, <1>2, <1>3, <1>4 DEF Accounted
  <2>2. ASSUME NEW k \in Items, ~Pending(k)' PROVE job'.out[k].kind = Predicted(k)'
    <3>1. Predicted(k)' = Predicted(k)
      <4>1. job'.doc = job.doc /\ job'.start = job.start
        BY <1>1
      <4> QED
        BY <4>1 DEF Predicted
    <3>2. CASE k = At
      BY <1>4, <3>1, <3>2
    <3>3. CASE k # At
      <4>1. job.stage # "idle"
        BY DEF Busy
      <4> QED
        BY <1>4, <2>2, <3>1, <3>3, <4>1 DEF IInv, Foreseen
    <3> QED
      BY <3>2, <3>3
  <2> QED
    BY <1>1, <2>1, <2>2
<1> QED
  BY <1>1, <1>5, <1>6, <1>7, <1>8 DEF IInv

\* With nobody interfering, what a dry run would say of the entry at hand is what
\* the names taken by now say.
LEMMA PredictedNow ==
    ASSUME IInv, Busy, job.quiet
    PROVE  /\ Predicted(At) = IF Taken(Name(Item)) THEN "conflict" ELSE "imported"
           /\ job.batch \cup LiveNames(rows) = job.start \cup Accounted
           /\ ~job.dry => job.batch \subseteq LiveNames(rows)
<1>1. /\ job.batch \cup LiveNames(rows) = job.start \cup Accounted
      /\ ~job.dry => job.batch \subseteq LiveNames(rows)
  BY DEF IInv, Foreseen, Busy
<1>2. /\ At \in Items /\ Pending(At) /\ Mapped(At) /\ Item = job.doc[At] /\ At \in Nat
      /\ \A m \in Items : m < At => ~Pending(m)
  BY AtFacts DEF Items
<1>3. {x \in 1..(At - 1) : Mapped(x)} = {x \in Items : Mapped(x) /\ ~Pending(x)}
  <2>1. ASSUME NEW x \in 1..(At - 1), Mapped(x) PROVE x \in Items /\ ~Pending(x)
    <3>1. x \in Items /\ x < At
      BY <1>2 DEF Items
    <3> QED
      BY <1>2, <3>1
  <2>2. ASSUME NEW x \in Items, Mapped(x), ~Pending(x) PROVE x \in 1..(At - 1)
    <3>1. ~(At < x) /\ x # At
      BY <1>2, <2>2 DEF IInv, InOrder
    <3> QED
      BY <1>2, <3>1 DEF Items
  <2> QED
    BY <2>1, <2>2
<1>4. {Name(job.doc[m]) : m \in {x \in 1..(At - 1) : Mapped(x)}} = Accounted
  BY <1>3 DEF Accounted
<1>5. Predicted(At) = IF Name(Item) \in job.start \cup Accounted THEN "conflict" ELSE "imported"
  BY <1>2, <1>4 DEF Predicted, Mapped
<1> QED
  BY <1>1, <1>5 DEF Taken

-----------------------------------------------------------------------------
(* The steps.                                                              *)

LEMMA PlainType ==
    ASSUME NEW kind \in {"pending", "imported", "conflict", "invalid", "failed"}
    PROVE  Plain(kind) \in Outcome /\ Plain(kind).kind = kind /\ Plain(kind).id = NoId
BY DEF Plain, Outcome

LEMMA StoreAlone == IInv /\ UNCHANGED <<rows, trail>> => LedgerOK' /\ Lasting
BY DEF IInv, LedgerOK, Lasting

LEMMA ConflictInv ==
    ASSUME IInv, Conflict
    PROVE  IInv'
<1>1. /\ Busy /\ UNCHANGED <<rows, trail, imports, edits>> /\ Settle(Plain("conflict"), {})
      /\ Taken(Name(Item))
  BY DEF Conflict, Busy, Taken
<1>2. LedgerOK' /\ Lasting /\ LiveNames(rows') = LiveNames(rows)
  BY <1>1, StoreAlone
<1>3. Plain("conflict") \in Outcome /\ Plain("conflict").kind = "conflict" /\ Plain("conflict").id = NoId
  BY PlainType
<1>4. job.quiet => /\ job.batch \cup {} \cup LiveNames(rows') = job.start \cup Accounted \cup {Name(Item)}
                   /\ ~job.dry => job.batch \cup {} \subseteq LiveNames(rows')
                   /\ "conflict" = Predicted(At)
  BY <1>1, <1>2, PredictedNow DEF Taken
<1>5. Name(Item) \in job.batch \cup LiveNames(rows')
  BY <1>1, <1>2 DEF Taken
<1> QED
  BY <1>1, <1>2, <1>3, <1>4, <1>5, SettleInv

LEMMA DryRunInv ==
    ASSUME IInv, DryRun
    PROVE  IInv'
<1>1. /\ Busy /\ job.dry /\ UNCHANGED <<rows, trail, imports, edits>>
      /\ Settle(Plain("imported"), {Name(Item)}) /\ ~Taken(Name(Item))
  BY DEF DryRun, Busy
<1>2. LedgerOK' /\ Lasting /\ LiveNames(rows') = LiveNames(rows)
  BY <1>1, StoreAlone
<1>3. Plain("imported") \in Outcome /\ Plain("imported").kind = "imported" /\ Plain("imported").id = NoId
  BY PlainType
<1>4. {Name(Item)} \in SUBSET FullNames
  BY <1>1, AtFacts
<1>5. job.quiet =>
        /\ job.batch \cup {Name(Item)} \cup LiveNames(rows') = job.start \cup Accounted \cup {Name(Item)}
        /\ "imported" = Predicted(At)
  BY <1>1, <1>2, PredictedNow
<1> QED
  BY <1>1, <1>2, <1>3, <1>4, <1>5, SettleInv

\* A row that is created adds its name to the live ones; it was not among them.
LEMMA CreatedName ==
    ASSUME LedgerOK, NEW i \in Ids, NEW n \in FullNames, NEW who \in {"document", "user"},
           Ledger!Create(i, NewRow(n, who))
    PROVE  n \notin LiveNames(rows) /\ LiveNames(rows') = LiveNames(rows) \cup {n}
<1>1. /\ rows[i] = NoRow /\ rows'[i] = NewRow(n, who) /\ NewRow(n, who) # NoRow
      /\ NewRow(n, who).live /\ NewRow(n, who).name = n /\ NewRow(n, who).owner = Owner
      /\ \A j \in Ids \ {i} : rows'[j] = rows[j]
  <2>1. /\ NewRow(n, who) \in Row /\ NewRow(n, who).live
        /\ NewRow(n, who).name = n /\ NewRow(n, who).owner = Owner
    BY NewRowType
  <2>2. NewRow(n, who) # NoRow
    BY <2>1, RowAssumption
  <2>3. /\ rows[i] = NoRow /\ rows'[i] = NewRow(n, who)
        /\ \A j \in Ids \ {i} : rows'[j] = rows[j]
    BY CreateLasting
  <2> QED
    BY <2>1, <2>2, <2>3
<1>2. \A j \in Ids : rows[j] # NoRow => rows[j].owner = Owner
  BY DEF LedgerOK, Row
<1>3. n \notin LiveNames(rows)
  BY <1>1, <1>2 DEF Ledger!Create, Ledger!NameFree, LiveNames
<1>4. LiveNames(rows') = LiveNames(rows) \cup {n}
  BY <1>1 DEF LiveNames
<1> QED
  BY <1>3, <1>4

LEMMA CreateInv ==
    ASSUME IInv, Create
    PROVE  IInv'
<1>1. PICK i \in Ids : /\ Ledger!Create(i, NewRow(Name(Item), "document"))
                      /\ Settle([kind |-> "imported", id |-> i], {Name(Item)})
  BY DEF Create
<1>2. job.stage = "create" /\ Busy /\ ~job.dry /\ UNCHANGED <<imports, edits>>
  BY DEF Create, Busy, IInv, InOrder
<1>3. Name(Item) \in FullNames
  BY <1>2, AtFacts
<1>4. /\ LedgerOK' /\ Lasting /\ rows[i] = NoRow /\ rows'[i] # NoRow
      /\ trail'[i][1] = [change |-> "create", row |-> NewRow(Name(Item), "document")]
  <2>1. NewRow(Name(Item), "document") # NoRow
    BY <1>3, NewRowType, RowAssumption
  <2> QED
    BY <1>1, <1>3, <2>1, CreateLasting DEF IInv
<1>5. Name(Item) \notin LiveNames(rows) /\ LiveNames(rows') = LiveNames(rows) \cup {Name(Item)}
  BY <1>1, <1>3, CreatedName DEF IInv
<1> DEFINE o == [kind |-> "imported", id |-> i]
<1>6. o \in Outcome /\ o.kind = "imported" /\ o.id = i /\ i # NoId
  BY IdsFacts DEF Outcome
<1> HIDE DEF o
<1>7. job.quiet =>
        /\ job.batch \cup {Name(Item)} \cup LiveNames(rows') = job.start \cup Accounted \cup {Name(Item)}
        /\ job.batch \cup {Name(Item)} \subseteq LiveNames(rows')
        /\ "imported" = Predicted(At)
  <2> SUFFICES ASSUME job.quiet
               PROVE  /\ job.batch \cup {Name(Item)} \cup LiveNames(rows') = job.start \cup Accounted \cup {Name(Item)}
                      /\ job.batch \cup {Name(Item)} \subseteq LiveNames(rows')
                      /\ "imported" = Predicted(At)
    OBVIOUS
  <2>1. Name(Item) \notin job.batch
    BY <1>2 DEF IInv, Foreseen
  <2> QED
    BY <1>2, <1>5, <2>1, PredictedNow DEF Taken
<1>8. Settle(o, {Name(Item)}) /\ {Name(Item)} \in SUBSET FullNames
  BY <1>1, <1>3 DEF o
<1> QED
  BY <1>2, <1>4, <1>5, <1>6, <1>7, <1>8, SettleInv

LEMMA FailsInv ==
    ASSUME IInv, Fails
    PROVE  IInv'
<1>1. Busy /\ Settle(Plain("failed"), {}) /\ UNCHANGED <<imports, edits>>
  BY DEF Fails
<1>2. LedgerOK' /\ Lasting
  <2>1. CASE UNCHANGED <<rows, trail>>
    BY <2>1, StoreAlone
  <2>2. CASE \E i \in Ids : Ledger!Create(i, NewRow(Name(Item), "document"))
    BY <1>1, <2>2, AtFacts, CreateLasting DEF IInv
  <2> QED
    BY <2>1, <2>2 DEF Fails
<1>3. Plain("failed") \in Outcome /\ Plain("failed").kind = "failed" /\ Plain("failed").id = NoId
  BY PlainType
<1> QED
  BY <1>1, <1>2, <1>3, SettleInv

LEMMA PrecheckInv ==
    ASSUME IInv, Precheck
    PROVE  IInv'
<1>1. /\ job.stage = "check" /\ ~job.dry /\ ~Taken(Name(Item))
      /\ job' = [job EXCEPT !.stage = "create"] /\ UNCHANGED <<rows, trail, imports, edits>>
  BY DEF Precheck
<1>2. job \in Job
  BY DEF IInv
<1>3. /\ job' \in Job /\ job'.stage = "create" /\ job'.doc = job.doc /\ job'.dry = job.dry
      /\ job'.out = job.out /\ job'.batch = job.batch /\ job'.start = job.start
      /\ job'.seen = job.seen /\ job'.quiet = job.quiet
  BY <1>1, <1>2 DEF Job
<1>4. LedgerOK'
  BY <1>1, StoreAlone
<1>5. InOrder'
  BY <1>1, <1>3 DEF IInv, InOrder, Items, Pending, Mapped
<1>6. Earned'
  BY <1>1, <1>3 DEF IInv, Earned, Items
<1>7. Created'
  BY <1>1, <1>3 DEF IInv, Created, Items
<1>8. Foreseen'
  <2>1. At' = At /\ Item' = Item
    BY <1>3 DEF At, Item
  <2>2. Accounted' = Accounted /\ \A k : Predicted(k)' = Predicted(k) /\ Pending(k)' = Pending(k)
    BY <1>3 DEF Accounted, Predicted, Pending, Items, Mapped
  <2>3. Name(Item) \notin job.batch
    BY <1>1 DEF Taken
  <2> QED
    BY <1>1, <1>3, <2>1, <2>2, <2>3 DEF IInv, Foreseen, Items
<1> QED
  BY <1>1, <1>3, <1>4, <1>5, <1>6, <1>7, <1>8 DEF IInv

\* Nothing is asked of a job that is none.
LEMMA NoJobFacts ==
    /\ NoJob \in Job /\ NoJob.stage = "idle" /\ NoJob.doc = <<>> /\ NoJob.out = <<>>
    /\ NoJob.batch = {} /\ NoJob.seen = {}
BY DEF NoJob, Job

LEMMA IdleInv ==
    ASSUME IInv, job' = NoJob, LedgerOK', UNCHANGED <<imports, edits>>
    PROVE  IInv'
<1>1. /\ job' \in Job /\ job'.stage = "idle" /\ job'.doc = <<>> /\ job'.out = <<>>
      /\ job'.batch = {} /\ job'.seen = {}
  BY NoJobFacts
<1>2. Items' = {}
  BY <1>1 DEF Items
<1>3. InOrder' /\ Earned' /\ Created' /\ Foreseen'
  BY <1>1, <1>2 DEF InOrder, Earned, Created, Foreseen, NoJob
<1> QED
  BY <1>1, <1>3 DEF IInv

\* A document is mapped whole; nothing is settled yet.
LEMMA OrderedType ==
    ASSUME NEW d \in Seq(Entry)
    PROVE  Ordered(d) \in Seq(Entry)
<1>1. ASSUME NEW t PROVE Section(d, t) \in Seq(Entry)
  <2> DEFINE I == {k \in DOMAIN d : d[k].type = t}
  <2>1. I \in SUBSET (1..Len(d))
    OBVIOUS
  <2> HIDE DEF I
  <2>2. Picked(d, I) \in Seq(Entry)
    BY <2>1, PickedType
  <2> QED
    BY <2>2 DEF Section, I
<1> QED
  BY <1>1 DEF Ordered

LEMMA ArriveInv ==
    ASSUME IInv, Arrive
    PROVE  IInv'
<1>1. PICK d \in Documents, dry \in BOOLEAN, skip \in BOOLEAN :
        LET doc == Ordered(d)
            out == [k \in DOMAIN doc |-> Plain(IF Maps(doc, doc[k]) THEN "pending" ELSE "invalid")]
        IN  /\ dry \/ imports < MaxImports
            /\ imports' = IF dry THEN imports ELSE imports + 1
            /\ job' = [NoJob EXCEPT !.stage = NextStage(out), !.doc = doc, !.dry = dry,
                                    !.skip = skip, !.out = out,
                                    !.start = LiveNames(rows), !.seen = LiveNames(rows)]
  BY DEF Arrive
<1> DEFINE doc == Ordered(d)
           out == [k \in DOMAIN doc |-> Plain(IF Maps(doc, doc[k]) THEN "pending" ELSE "invalid")]
           live == LiveNames(rows)
<1>2. doc \in Seq(Entry) /\ DOMAIN doc = 1..Len(doc)
  BY OrderedType, ImportAssumption
<1> HIDE DEF doc
<1>3. /\ out \in Seq(Outcome) /\ Len(out) = Len(doc) /\ DOMAIN out = 1..Len(doc)
      /\ \A k \in 1..Len(doc) : /\ out[k].kind = IF Maps(doc, doc[k]) THEN "pending" ELSE "invalid"
                                /\ out[k].id = NoId
  <2>1. \A k \in 1..Len(doc) :
          LET p == Plain(IF Maps(doc, doc[k]) THEN "pending" ELSE "invalid")
          IN  /\ p \in Outcome /\ p.id = NoId
              /\ p.kind = IF Maps(doc, doc[k]) THEN "pending" ELSE "invalid"
    BY PlainType
  <2> QED
    BY <1>2, <2>1
<1> HIDE DEF out
<1>4. live \in SUBSET FullNames
  BY LiveNamesType DEF IInv, LedgerOK
<1> HIDE DEF live
<1>5. /\ NextStage(out) \in {"check", "done"}
      /\ NextStage(out) = "check" <=> \E k \in 1..Len(doc) : out[k].kind = "pending"
  BY <1>3 DEF NextStage
<1>6. job' = [NoJob EXCEPT !.stage = NextStage(out), !.doc = doc, !.dry = dry,
                           !.skip = skip, !.out = out, !.start = live, !.seen = live]
  BY <1>1 DEF doc, out, live
<1>7. /\ job' \in Job /\ job'.stage = NextStage(out) /\ job'.doc = doc /\ job'.out = out
      /\ job'.start = live /\ job'.seen = live /\ job'.batch = {}
  BY <1>2, <1>3, <1>4, <1>5, <1>6 DEF NoJob, Job
<1>8. imports' \in 0..MaxImports
  BY <1>1, ImportAssumption DEF IInv
<1>9. UNCHANGED <<rows, trail, edits>> /\ LedgerOK'
  BY StoreAlone DEF Arrive
<1>10. Items' = 1..Len(doc)
  BY <1>7 DEF Items
<1>11. \A k \in Items' : /\ Pending(k)' <=> Mapped(k)'
                         /\ job'.out[k].kind \in {"pending", "invalid"}
                         /\ job'.out[k].kind = "invalid" <=> ~Mapped(k)'
                         /\ job'.out[k].id = NoId
  BY <1>3, <1>7, <1>10 DEF Pending, Mapped
<1>12. InOrder'
  BY <1>3, <1>5, <1>7, <1>10, <1>11 DEF InOrder, Pending
<1>13. Earned' /\ Created'
  <2>1. \A k \in Items' : job'.out[k].kind \notin {"imported", "conflict"}
    BY <1>11
  <2> QED
    BY <1>7, <2>1 DEF Earned, Created
<1>14. Foreseen'
  <2>1. Accounted' = {}
    BY <1>11 DEF Accounted
  <2>2. LiveNames(rows') = live
    BY <1>9 DEF live
  <2>3. ASSUME NEW k \in Items', ~Pending(k)' PROVE job'.out[k].kind = Predicted(k)'
    BY <1>11, <2>3 DEF Predicted, Mapped
  <2> QED
    BY <1>5, <1>7, <2>1, <2>2, <2>3 DEF Foreseen
<1> QED
  BY <1>7, <1>8, <1>9, <1>12, <1>13, <1>14 DEF IInv

\* The user's writes spoil what was foreseen, and nothing else.
LEMMA EditInv ==
    ASSUME IInv, Edit
    PROVE  IInv'
<1>1. LedgerOK' /\ Lasting
  <2>0. LedgerOK
    BY DEF IInv
  <2>1. CASE \E n \in Types \X Names, i \in Ids : Ledger!Create(i, NewRow(n, "user"))
    BY <2>0, <2>1, CreateLasting DEF FullNames
  <2>2. CASE \E i \in Ids, n \in Names :
               rows[i] # NoRow /\ Ledger!Amend(i, NewRow(<<rows[i].name[1], n>>, "user"))
    BY <2>0, <2>2, AmendLasting
  <2>3. CASE \E i \in Ids : Ledger!Delete(i, {i}) \/ Ledger!Restore(i)
    BY <2>0, <2>3, DeleteLasting, RestoreLasting
  <2> QED
    BY <2>1, <2>2, <2>3 DEF Edit
<1>2. imports' \in 0..MaxImports /\ edits' \in 0..MaxEdits
  BY ImportAssumption DEF IInv, Edit
<1>3. job \in Job
  BY DEF IInv
<1>4. /\ job' \in Job /\ job'.stage = job.stage /\ job'.doc = job.doc /\ job'.dry = job.dry
      /\ job'.out = job.out /\ job'.batch = job.batch /\ job.seen \subseteq job'.seen
      /\ job.stage = "idle" => job' = job
      /\ job.stage # "idle" => ~job'.quiet
  <2>1. CASE job.stage = "idle"
    BY <1>3, <2>1 DEF Edit
  <2>2. CASE job.stage # "idle"
    <3>1. job' = [job EXCEPT !.seen = @ \cup LiveNames(rows'), !.quiet = FALSE]
      BY <2>2 DEF Edit
    <3>2. LiveNames(rows') \in SUBSET FullNames
      BY <1>1, LiveNamesType DEF LedgerOK
    <3>3. job.seen \cup LiveNames(rows') \in SUBSET FullNames
      BY <1>3, <3>2 DEF Job
    <3> QED
      BY <1>3, <2>2, <3>1, <3>3 DEF Job
  <2> QED
    BY <2>1, <2>2
<1>5. Items' = Items /\ \A k : Pending(k)' = Pending(k) /\ Mapped(k)' = Mapped(k)
  BY <1>4 DEF Items, Pending, Mapped
<1>6. InOrder'
  BY <1>4, <1>5 DEF IInv, InOrder
<1>7. Earned'
  BY <1>4, <1>5 DEF IInv, Earned
<1>8. Created'
  <2> SUFFICES ASSUME NEW k \in Items, job.out[k].kind = "imported", ~job.dry
               PROVE  LET i == job.out[k].id
                      IN  /\ i \in Ids /\ rows'[i] # NoRow
                          /\ trail'[i][1] = [change |-> "create",
                                             row |-> NewRow(Name(job.doc[k]), "document")]
                          /\ \A m \in Items \ {k} : job.out[m].kind = "imported" => job.out[m].id # i
    BY <1>4, <1>5 DEF Created
  <2> QED
    BY <1>1 DEF IInv, Created, Lasting
<1>9. Foreseen'
  BY <1>4 DEF Foreseen
<1> QED
  BY <1>1, <1>2, <1>4, <1>6, <1>7, <1>8, <1>9 DEF IInv

LEMMA EndInv ==
    ASSUME IInv, Answer \/ Crash
    PROVE  IInv'
BY StoreAlone, IdleInv DEF Answer, Crash

LEMMA StutterInv ==
    ASSUME IInv, UNCHANGED vars
    PROVE  IInv'
<1>1. /\ job' = job /\ imports' = imports /\ edits' = edits /\ rows' = rows
      /\ UNCHANGED <<rows, trail>>
  BY DEF vars
<1>2. LedgerOK'
  BY <1>1, StoreAlone
<1>3. Items' = Items /\ \A k : Pending(k)' = Pending(k) /\ Mapped(k)' = Mapped(k)
  BY <1>1 DEF Items, Pending, Mapped
<1>4. InOrder' /\ Earned' /\ Created'
  BY <1>1, <1>3 DEF vars, IInv, InOrder, Earned, Created
<1>5. /\ At' = At /\ Item' = Item /\ Accounted' = Accounted
      /\ \A k : Predicted(k)' = Predicted(k)
  BY <1>1 DEF At, Item, Accounted, Predicted, Items, Pending, Mapped
<1>6. Foreseen'
  BY <1>1, <1>3, <1>5 DEF IInv, Foreseen
<1> QED
  BY <1>1, <1>2, <1>4, <1>6 DEF IInv

LEMMA InitIInv ==
    ASSUME Init
    PROVE  IInv
<1>1. job = NoJob /\ imports = 0 /\ edits = 0
  BY DEF Init
<1>2. /\ job \in Job /\ job.stage = "idle" /\ job.doc = <<>> /\ job.out = <<>>
      /\ job.batch = {} /\ job.seen = {}
  BY <1>1, NoJobFacts
<1>3. LedgerOK
  <2>1. /\ rows \in [Ids -> Row \cup {NoRow}]
        /\ trail = [i \in Ids |-> IF rows[i] = NoRow THEN <<>>
                                  ELSE <<Ledger!Entry("create", rows[i])>>]
    BY InheritedAssumption DEF Init, Ledger!Init
  <2>2. ASSUME NEW i \in Ids
        PROVE  /\ trail[i] \in Seq(LedgerEntry)
               /\ rows[i] = NoRow <=> Len(trail[i]) = 0
    <3>1. CASE rows[i] = NoRow
      BY <2>1, <3>1
    <3>2. CASE rows[i] # NoRow
      <4> DEFINE first == Ledger!Entry("create", rows[i])
      <4>1. trail[i] = <<first>>
        BY <2>1, <3>2
      <4>2. first \in LedgerEntry
        BY <2>1, <3>2 DEF Ledger!Entry, LedgerEntry, Changes
      <4> HIDE DEF first
      <4> QED
        BY <3>2, <4>1, <4>2
    <3> QED
      BY <3>1, <3>2
  <2>3. trail \in [Ids -> Seq(LedgerEntry)]
    <3>1. trail = [i \in Ids |-> trail[i]]
      BY <2>1
    <3> QED
      BY <2>2, <3>1
  <2> QED
    BY <2>1, <2>2, <2>3 DEF LedgerOK
<1>4. Items = {}
  BY <1>2 DEF Items
<1>5. InOrder /\ Earned /\ Created /\ Foreseen
  BY <1>1, <1>2, <1>4 DEF InOrder, Earned, Created, Foreseen
<1>6. imports \in 0..MaxImports /\ edits \in 0..MaxEdits
  BY <1>1, ImportAssumption
<1> QED
  BY <1>2, <1>3, <1>5, <1>6 DEF IInv

LEMMA Invariance == Spec => []IInv
<1>1. IInv /\ [Next]_vars => IInv'
  <2> SUFFICES ASSUME IInv, [Next]_vars PROVE IInv'
    OBVIOUS
  <2> QED
    BY ArriveInv, PrecheckInv, ConflictInv, DryRunInv, CreateInv, FailsInv, EndInv, EditInv,
       StutterInv DEF Next
<1> QED
  BY InitIInv, <1>1, PTL DEF Spec

-----------------------------------------------------------------------------
(* What the report is worth.                                               *)

LEMMA ItemsFacts ==
    ASSUME IInv
    PROVE  DOMAIN job.doc = Items /\ DOMAIN job.out = Items /\ Items \subseteq Nat
BY DEF IInv, Job, InOrder, Items

\* Every variable keeps its type, and ids are reported exactly of the entries that
\* are reported as imported, and not by a dry run (ImportItemResult).
THEOREM TypeCorrect == Spec => []TypeOK
<1>1. IInv => TypeOK
  <2> SUFFICES ASSUME IInv PROVE TypeOK
    OBVIOUS
  <2>1. /\ job.stage \in {"idle", "check", "create", "done"}
        /\ job.doc \in Seq(Entry) /\ job.out \in Seq(Outcome)
        /\ job.batch \cup job.start \cup job.seen \subseteq Types \X Names
        /\ {job.dry, job.skip, job.quiet} \subseteq BOOLEAN
    BY DEF IInv, Job, FullNames
  <2>2. trail \in [Ids -> Seq([change : {"create", "amend", "delete", "restore"}, row : Row])]
    BY DEF IInv, LedgerOK, LedgerEntry, Changes
  <2>3. \A k \in DOMAIN job.out :
          job.out[k].id # NoId <=> job.out[k].kind = "imported" /\ ~job.dry
    BY ItemsFacts DEF IInv, InOrder
  <2> QED
    BY <2>1, <2>2, <2>3 DEF IInv, LedgerOK, InOrder, TypeOK
<1> QED
  BY <1>1, Invariance, PTL

\* What a report lists as imported is a row of its own that the import created from
\* that entry, whatever the user does meanwhile (import_document, _name_exists).
THEOREM ImportsAreCreated == Spec => []ImportedIsCreated
<1>1. IInv => ImportedIsCreated
  <2> SUFFICES ASSUME IInv PROVE ImportedIsCreated
    OBVIOUS
  <2>1. Reported("imported") = {k \in Items : job.out[k].kind = "imported"}
    BY ItemsFacts DEF Reported
  <2>2. ASSUME NEW k \in Reported("imported"), ~job.dry
        PROVE  /\ trail[job.out[k].id][1].change = "create"
               /\ trail[job.out[k].id][1].row = NewRow(Name(job.doc[k]), "document")
               /\ \A m \in Reported("imported") \ {k} : job.out[m].id # job.out[k].id
    <3>1. /\ trail[job.out[k].id][1]
               = [change |-> "create", row |-> NewRow(Name(job.doc[k]), "document")]
          /\ \A m \in Reported("imported") \ {k} : job.out[m].id # job.out[k].id
      BY <2>1, <2>2 DEF IInv, Created
    <3> QED
      BY <3>1
  <2> QED
    BY <2>2, Zenon DEF ImportedIsCreated
<1> QED
  BY <1>1, Invariance, PTL

\* A report that says ok means that every entry was live under its name while the
\* import ran.
THEOREM OkIsEarned == Spec => []OkMeansThere
<1>1. IInv => OkMeansThere
  BY ItemsFacts DEF IInv, Earned, OkMeansThere, Ok
<1> QED
  BY <1>1, Invariance, PTL

\* Undisturbed, an import says of each entry what a dry run would.
THEOREM ReportIsPredicted == Spec => []ReportAsPredicted
<1>1. IInv => ReportAsPredicted
  BY ItemsFacts DEF IInv, InOrder, Foreseen, Done, ReportAsPredicted
<1> QED
  BY <1>1, Invariance, PTL

\* Undisturbed, an imported curve's index is in the catalog or stored: it mapped, so
\* the document has a mapped index of that id, and that entry is settled too.
THEOREM CurveIndicesStored == Spec => []CurvesFindIndices
<1>1. IInv => CurvesFindIndices
  <2> SUFFICES ASSUME IInv, Done, job.quiet, ~job.dry,
                      NEW k \in Reported("imported"), job.doc[k].type = "curve",
                      job.doc[k].index \notin Catalog
               PROVE  <<"index", job.doc[k].index>> \in LiveNames(rows)
    BY DEF CurvesFindIndices
  <2>1. k \in Items /\ job.out[k].kind = "imported"
    BY ItemsFacts DEF Reported
  <2>2. Mapped(k)
    BY <2>1 DEF IInv, InOrder
  <2>3. CurveMaps(job.doc, job.doc[k])
    BY <2>2 DEF Mapped, Maps
  <2>4. PICK e \in Entries(job.doc) : e.type = "index" /\ IndexMaps(e) /\ e.id = job.doc[k].index
    BY <2>3 DEF CurveMaps, IndexIds
  <2>5. PICK m \in Items : job.doc[m] = e
    BY ItemsFacts DEF Entries
  <2>6. Mapped(m) /\ ~Pending(m)
    BY <2>4, <2>5 DEF Mapped, Maps, IInv, InOrder, Done
  <2>7. Name(e) \in Accounted
    BY <2>5, <2>6 DEF Accounted
  <2>8. job.start \cup Accounted \subseteq LiveNames(rows)
    BY DEF IInv, Foreseen, Done
  <2> QED
    BY <2>4, <2>7, <2>8 DEF Name
<1> QED
  BY <1>1, Invariance, PTL
=============================================================================
