------------------------- MODULE MarketStoreProofs -------------------------
(***************************************************************************)
(* The market-data store's safety for any number of jobs, series and       *)
(* batches.  The invariant says what a transaction at each of its          *)
(* statements has written and locked (Local), that row locks exclude each  *)
(* other and a deletion the shared locks (Apart), and that nothing         *)
(* committed is orphaned.  Every statement but the commit leaves the       *)
(* tables alone, so only what its own job holds has to be looked at.       *)
(*   I    orphans, etags, texts            (IInv)                          *)
(*   II   types, the rebuild's report      (RInv)                          *)
(*   III  whole batches                    (WInv)                          *)
(***************************************************************************)
EXTENDS MarketStore, SubsequencesProofs

\* The shapes the actions rely on (the values of quotes are left open).
Shaped ==
    /\ DOMAIN pc = Jobs /\ DOMAIN task = Jobs /\ DOMAIN work = Jobs
    /\ series \in [Ids -> Descriptions \cup {NoSeries}]
    /\ snap.etag \in Nat /\ snap.quotes = [i \in Ids |-> snap.quotes[i]]
    /\ \A j \in Jobs :
          /\ DOMAIN task[j] = {"kind", "todo", "id", "text"}
          /\ DOMAIN work[j] = {"series", "points", "quotes", "etag", "keys"}
          /\ work[j].series \in [Ids -> Descriptions \cup {NoSeries, Same}]
          /\ DOMAIN work[j].points = Ids /\ DOMAIN work[j].quotes = Ids

\* What a transaction has written and locked when it is at its next statement.
Holding(j) ==
    /\ pc[j] \in {"idle", "lock"} => work[j] = NoWork
    /\ task[j].kind = "delete" => work[j].keys = {}
    /\ task[j].kind = "build" /\ pc[j] # "commit" => work[j].keys = {}
    /\ task[j].kind = "describe" => task[j].todo = <<>>
    /\ task[j].kind \in {"create", "describe"} => task[j].text \in Texts \cup {Blank}

\* A deletion has dropped the series' quote and snapshot row once it is past them.
Dropping(j) ==
    \A i \in Ids : work[j].series[i] = NoSeries =>
        /\ task[j].kind = "delete" /\ i = Target(j)
        /\ pc[j] \in {"cascade", "quotes", "etag", "commit"}
        /\ pc[j] # "cascade" => Point(j, i) = 0
        /\ pc[j] \in {"etag", "commit"} => Now(work[j].quotes[i], snap.quotes[i]) = 0

\* A quote or snapshot row it has inserted has its series locked against deletion.
Inserting(j) ==
    \A i \in Ids :
        /\ work[j].points[i] \notin {0, Same} => points[i] # 0 \/ i \in work[j].keys
        /\ work[j].quotes[i] \notin {0, Same} => pc[j] = "check" \/ i \in work[j].keys
        /\ i \in work[j].keys => Series(j, i) # NoSeries

\* Rows of the snapshot change with its etag.
Renewing(j) ==
    (\E i \in Ids : work[j].quotes[i] # Same) => work[j].etag = "new" \/ pc[j] = "etag"

\* A user's text is rewritten as it is, or by the PATCH of its series.
Describing(j) ==
    \A i \in Ids : work[j].series[i] \notin {Same, NoSeries} =>
        IF task[j].kind = "describe" THEN i = task[j].id
        ELSE series[i] \in Texts => work[j].series[i] = series[i]

Local(j) == Holding(j) /\ Dropping(j) /\ Inserting(j) /\ Renewing(j) /\ Describing(j)

\* Row locks exclude each other, and a deletion excludes the shared locks.
Apart(j, u) ==
    \A i \in Ids :
        /\ work[j].series[i] = Same \/ work[u].series[i] = Same
        /\ work[j].points[i] = Same \/ work[u].points[i] = Same
        /\ i \in work[j].keys => work[u].series[i] # NoSeries

IInv == /\ Shaped
        /\ \A j \in Jobs : Local(j)
        /\ \A j, u \in Jobs : j # u => Apart(j, u)
        /\ NoOrphans

-----------------------------------------------------------------------------
(* What a step leaves alone.                                               *)

Others(j) ==
    \A u \in Jobs \ {j} : pc'[u] = pc[u] /\ task'[u] = task[u] /\ work'[u] = work[u]

\* A job nobody touches keeps what is said of it, while the tables stay.
LEMMA LocalKept ==
    ASSUME NEW u \in Jobs, Local(u), UNCHANGED store,
           pc'[u] = pc[u], task'[u] = task[u], work'[u] = work[u]
    PROVE  Local(u)'
<1> USE DEF store
<1>1. Target(u)' = Target(u)
  BY DEF Target
<1>2. \A i : Point(u, i)' = Point(u, i) /\ Series(u, i)' = Series(u, i)
  BY DEF Point, Series, Now
<1>3. Holding(u)'
  BY DEF Local, Holding
<1>4. Dropping(u)'
  BY <1>1, <1>2 DEF Local, Dropping, Now, Point
<1>5. Inserting(u)'
  BY <1>2 DEF Local, Inserting, Series, Now
<1>6. Renewing(u)' /\ Describing(u)'
  BY DEF Local, Renewing, Describing
<1> QED
  BY <1>3, <1>4, <1>5, <1>6 DEF Local

\* So a step that leaves the tables alone is judged by its own job.
LEMMA OwnStep ==
    ASSUME IInv, NEW j \in Jobs, Others(j), UNCHANGED store,
           Shaped', Local(j)', \A u \in Jobs \ {j} : Apart(j, u)' /\ Apart(u, j)'
    PROVE  IInv'
<1>1. \A u \in Jobs \ {j} : Local(u)'
  BY LocalKept DEF IInv, Others
<1>2. \A u, v \in Jobs \ {j} : u # v => Apart(u, v)'
  BY DEF IInv, Others, Apart
<1>3. \A u, v \in Jobs : u # v => Apart(u, v)'
  BY <1>2
<1>4. NoOrphans'
  BY DEF IInv, NoOrphans, store
<1> QED
  BY <1>1, <1>3, <1>4 DEF IInv

\* A job that ends without a commit drops its rows and its locks.
LEMMA AbandonKeeps ==
    ASSUME IInv, NEW j \in Jobs, NEW out, Abandon(j, out)
    PROVE  IInv'
<1>1. /\ UNCHANGED store /\ Others(j)
      /\ pc'[j] = "idle" /\ task'[j] = NoTask /\ work'[j] = NoWork
  BY DEF Abandon, End, Goto, IInv, Shaped, Others
<1>2. Shaped'
  BY <1>1, MarketAssumption
     DEF Abandon, End, Goto, IInv, Shaped, Others, NoTask, NoWork, store
<1>3. Local(j)'
  BY <1>1, MarketAssumption DEF Local, Holding, Dropping, Inserting, Renewing, Describing, NoTask, NoWork
<1>4. \A u \in Jobs \ {j} : Apart(j, u)' /\ Apart(u, j)'
  BY <1>1, MarketAssumption DEF Apart, NoWork
<1> QED
  BY <1>1, <1>2, <1>3, <1>4, OwnStep

LEMMA ArriveKeeps ==
    ASSUME IInv, NEW j \in Jobs, Arrive(j)
    PROVE  IInv'
<1>1. PICK t \in Tasks : task' = [task EXCEPT ![j] = t] /\ pc' = [pc EXCEPT ![j] = FirstStep[t.kind]]
  BY DEF Arrive, Goto
<1>2. pc[j] = "idle" /\ UNCHANGED <<series, points, snap, memo, work>>
  BY DEF Arrive, store
<1>3. /\ UNCHANGED store /\ Others(j) /\ task'[j] = t /\ work'[j] = NoWork
  BY <1>1, <1>2 DEF IInv, Shaped, Local, Holding, Others, store
<1>4. /\ DOMAIN t = {"kind", "todo", "id", "text"}
      /\ t.kind = "describe" => t.todo = <<>>
      /\ t.kind \in {"create", "describe"} => t.text \in Texts \cup {Blank}
  BY DEF Tasks
<1>5. Shaped'
  BY <1>1, <1>2, <1>4 DEF IInv, Shaped
<1>6. Local(j)'
  BY <1>3, <1>4, MarketAssumption
     DEF Local, Holding, Dropping, Inserting, Renewing, Describing, NoWork
<1>7. \A u \in Jobs \ {j} : Apart(j, u)' /\ Apart(u, j)'
  BY <1>3, MarketAssumption DEF Apart, NoWork
<1> QED
  BY <1>3, <1>5, <1>6, <1>7, OwnStep

-----------------------------------------------------------------------------
(* Statements that write nothing.                                          *)

LEMMA ReadKeeps ==
    ASSUME IInv, NEW j \in Jobs, NEW todo, NEW step,
           UNCHANGED <<series, points, snap, work>>, Goto(j, step),
           task' \in {task, [task EXCEPT ![j].todo = todo]},
           task[j].kind \in {"import", "build"},
           pc[j] \notin {"check", "etag", "commit"}, step \notin {"idle", "lock"}
    PROVE  IInv'
<1>1. /\ UNCHANGED store /\ Others(j) /\ pc'[j] = step /\ work'[j] = work[j]
      /\ task'[j].kind = task[j].kind
      /\ DOMAIN task' = Jobs /\ \A u \in Jobs : DOMAIN task'[u] = {"kind", "todo", "id", "text"}
  BY DEF Goto, IInv, Shaped, Others, store
<1>2. Shaped'
  BY <1>1 DEF Goto, IInv, Shaped
<1>3. Local(j)
  BY DEF IInv
<1>4. Holding(j)'
  BY <1>1, <1>3 DEF Local, Holding
<1>5. Dropping(j)'
  BY <1>1, <1>3 DEF Local, Dropping
<1>6. Inserting(j)'
  BY <1>1, <1>3 DEF Local, Inserting, Series, Now
<1>7. Renewing(j)' /\ Describing(j)'
  BY <1>1, <1>3 DEF Local, Renewing, Describing
<1>8. \A u \in Jobs \ {j} : Apart(j, u)' /\ Apart(u, j)'
  BY DEF IInv, Apart
<1> QED
  BY <1>1, <1>2, <1>4, <1>5, <1>6, <1>7, <1>8, OwnStep DEF Local

-----------------------------------------------------------------------------
(* Series rows.                                                            *)

\* Writing a description under the row's lock.
LEMMA DescribedKeeps ==
    ASSUME IInv, NEW j \in Jobs, NEW d, NEW step \in {"point", "commit"},
           WriteSeries(j, d, step), pc[j] = "series",
           task[j].kind \in {"ingest", "create", "describe"},
           Target(j) \in Ids =>
              /\ d \in Descriptions
              /\ \A u \in Jobs \ {j} : work[u].series[Target(j)] = Same
              /\ task[j].kind # "describe" /\ series[Target(j)] \in Texts =>
                    d = series[Target(j)]
    PROVE  IInv'
<1> DEFINE i == Target(j)
<1>1. /\ UNCHANGED store /\ Others(j) /\ pc'[j] = step /\ task'[j] = task[j]
      /\ DOMAIN work'[j] = DOMAIN work[j]
      /\ work'[j].series = [work[j].series EXCEPT ![i] = d]
      /\ work'[j].points = work[j].points /\ work'[j].quotes = work[j].quotes
      /\ work'[j].etag = work[j].etag /\ work'[j].keys = work[j].keys
  BY DEF WriteSeries, Goto, IInv, Shaped, Others
<1>2. \A k \in Ids : work'[j].series[k] = IF k = i THEN d ELSE work[j].series[k]
  BY <1>1 DEF IInv, Shaped
<1>3. i \in Ids => d \notin {Same, NoSeries}
  BY MarketAssumption DEF Descriptions
<1>4. Shaped'
  <2>1. work'[j].series \in [Ids -> Descriptions \cup {NoSeries, Same}]
    <3>1. work[j].series \in [Ids -> Descriptions \cup {NoSeries, Same}]
      BY DEF IInv, Shaped
    <3> QED
      BY <1>1, <3>1
  <2>2. DOMAIN work' = Jobs /\ DOMAIN pc' = Jobs /\ task' = task
    BY DEF WriteSeries, Goto, IInv, Shaped
  <2> QED
    BY <1>1, <2>1, <2>2 DEF IInv, Shaped, Others, store
<1>5. Local(j)
  BY DEF IInv
<1>6. Holding(j)'
  BY <1>1, <1>5 DEF Local, Holding
<1>7. Dropping(j)'
  BY <1>1, <1>2, <1>3, <1>5 DEF Local, Dropping
<1>8. Inserting(j)'
  BY <1>1, <1>2, <1>3, <1>5 DEF Local, Inserting, Series, Now, store
<1>9. Renewing(j)'
  BY <1>1, <1>5 DEF Local, Renewing
<1>10. Describing(j)'
  <2>1. task[j].kind = "describe" => i = task[j].id
    BY <1>5 DEF Local, Holding, Target
  <2> QED
    BY <1>1, <1>2, <1>3, <1>5, <2>1 DEF Local, Describing, store
<1>11. \A u \in Jobs \ {j} : Apart(j, u)' /\ Apart(u, j)'
  BY <1>1, <1>2, <1>3 DEF IInv, Apart, Others
<1> QED
  BY <1>1, <1>4, <1>6, <1>7, <1>8, <1>9, <1>10, <1>11, OwnStep DEF Local

\* Dropping a series nobody has inserted a row for.
LEMMA DropKeeps ==
    ASSUME IInv, NEW j \in Jobs, WriteSeries(j, NoSeries, "cascade"),
           Ready(j, "series", {"delete"}), series[Target(j)] # NoSeries
    PROVE  IInv'
<1> DEFINE i == Target(j)
<1>1. /\ UNCHANGED store /\ Others(j) /\ pc'[j] = "cascade" /\ task'[j] = task[j]
      /\ DOMAIN work'[j] = DOMAIN work[j]
      /\ work'[j].series = [work[j].series EXCEPT ![i] = NoSeries]
      /\ work'[j].points = work[j].points /\ work'[j].quotes = work[j].quotes
      /\ work'[j].etag = work[j].etag /\ work'[j].keys = work[j].keys
  BY DEF WriteSeries, Goto, IInv, Shaped, Others
<1>2. \A k \in Ids : work'[j].series[k] = IF k = i THEN NoSeries ELSE work[j].series[k]
  BY <1>1 DEF IInv, Shaped
<1>3. Shaped'
  <2>1. work'[j].series \in [Ids -> Descriptions \cup {NoSeries, Same}]
    <3>1. work[j].series \in [Ids -> Descriptions \cup {NoSeries, Same}]
      BY DEF IInv, Shaped
    <3> QED
      BY <1>1, <3>1
  <2>2. DOMAIN work' = Jobs /\ DOMAIN pc' = Jobs /\ task' = task
    BY DEF WriteSeries, Goto, IInv, Shaped
  <2> QED
    BY <1>1, <2>1, <2>2 DEF IInv, Shaped, Others, store
<1>4. Local(j) /\ task[j].kind = "delete" /\ pc[j] = "series"
  BY DEF IInv, Ready
<1>5. \A u \in Jobs \ {j} : work[u].series[i] = Same /\ i \notin work[u].keys
  BY <1>4 DEF Ready, Blockers, Blocks
<1>6. Holding(j)'
  BY <1>1, <1>4 DEF Local, Holding
<1>7. Dropping(j)'
  <2>1. Target(j)' = Target(j)
    BY <1>1 DEF Target
  <2> QED
    BY <1>1, <1>2, <1>4, <2>1 DEF Local, Dropping
<1>8. Inserting(j)'
  BY <1>1, <1>4 DEF Local, Holding, Inserting, store
<1>9. Renewing(j)' /\ Describing(j)'
  BY <1>1, <1>2, <1>4 DEF Local, Renewing, Describing, store
<1>10. \A u \in Jobs \ {j} : Apart(j, u)' /\ Apart(u, j)'
  BY <1>1, <1>2, <1>4, <1>5 DEF IInv, Apart, Others, Local, Holding
<1> QED
  BY <1>1, <1>3, <1>6, <1>7, <1>8, <1>9, <1>10, OwnStep DEF Local

LEMMA SeriesKeeps ==
    ASSUME IInv, NEW j \in Jobs,
           UpsertSeries(j) \/ CreateSeries(j) \/ DescribeSeries(j) \/ DropSeries(j)
    PROVE  IInv'
<1> DEFINE i == Target(j)
<1>1. CASE UpsertSeries(j)
  <2>1. /\ pc[j] = "series" /\ task[j].kind = "ingest"
        /\ WriteSeries(j, Described(Series(j, i)), "point")
        /\ \A u \in Jobs \ {j} : work[u].series[i] = Same
    BY <1>1 DEF UpsertSeries, Ready, Blockers, Blocks
  <2>2. CASE i \in Ids
    <3>1. Series(j, i) \in Descriptions \cup {NoSeries}
      BY <2>2, MarketAssumption DEF IInv, Shaped, Series, Now
    <3>2. Described(Series(j, i)) \in Descriptions
      BY <3>1 DEF Described, Descriptions
    <3>3. series[i] \in Texts => Described(Series(j, i)) = series[i]
      <4>1. work[j].series[i] # NoSeries
        BY <2>1, <2>2 DEF IInv, Local, Dropping
      <4>2. series[i] \in Texts => Series(j, i) = series[i]
        BY <2>1, <2>2, <4>1 DEF IInv, Local, Describing, Series, Now
      <4> QED
        BY <4>2, MarketAssumption DEF Described
    <3> QED
      BY <2>1, <3>2, <3>3, DescribedKeeps
  <2>3. CASE i \notin Ids
    BY <2>1, <2>3, DescribedKeeps
  <2> QED
    BY <2>2, <2>3
<1>2. ASSUME pc[j] = "series", task[j].kind \in {"create", "describe"}, Blockers(j) = {},
             task[j].kind = "create" <=> series[i] = NoSeries,
             WriteSeries(j, task[j].text, "commit")
      PROVE  IInv'
  <2>1. \A u \in Jobs \ {j} : work[u].series[i] = Same
    BY <1>2 DEF Blockers, Blocks
  <2>2. task[j].text \in Descriptions
    BY <1>2 DEF IInv, Local, Holding, Descriptions
  <2> QED
    BY <1>2, <2>1, <2>2, DescribedKeeps, MarketAssumption
<1>3. CASE CreateSeries(j) \/ DescribeSeries(j)
  BY <1>2, <1>3, AbandonKeeps DEF CreateSeries, DescribeSeries, Ready
<1>4. CASE DropSeries(j)
  BY <1>4, DropKeeps, AbandonKeeps DEF DropSeries
<1> QED
  BY <1>1, <1>3, <1>4

-----------------------------------------------------------------------------
(* Quotes.                                                                 *)

\* A quote is updated, or inserted under its series' shared lock.
LEMMA UpsertPointKeeps ==
    ASSUME IInv, NEW j \in Jobs, UpsertPoint(j)
    PROVE  IInv'
<1> DEFINE i == Target(j)
           inserts == Point(j, i) = 0
           v == Head(task[j].todo)[2]
<1>0. CASE \E out : Abandon(j, out)
  BY <1>0, AbandonKeeps
<1>1. CASE /\ inserts => Series(j, i) # NoSeries
           /\ work' = [work EXCEPT ![j].points[i] = v,
                                   ![j].keys = IF inserts THEN @ \cup {i} ELSE @]
           /\ task' = [task EXCEPT ![j].todo = Tail(@)]
           /\ Goto(j, NextQuote(j))
           /\ UNCHANGED <<store, reply>>
  <2>1. /\ pc[j] = "point" /\ task[j].kind \in {"ingest", "import"}
        /\ \A u \in Jobs \ {j} : work[u].points[i] = Same /\ (inserts => work[u].series[i] # NoSeries)
    BY DEF UpsertPoint, Ready, Blockers, Blocks, DeletesSeries
  <2>2. /\ UNCHANGED store /\ Others(j) /\ task'[j].kind = task[j].kind /\ task'[j].id = task[j].id
        /\ pc'[j] \in {"series", "point", "commit"}
        /\ DOMAIN pc' = Jobs /\ DOMAIN task' = Jobs /\ DOMAIN work' = Jobs
        /\ DOMAIN task'[j] = DOMAIN task[j] /\ DOMAIN work'[j] = DOMAIN work[j]
        /\ work'[j].points = [work[j].points EXCEPT ![i] = v]
        /\ work'[j].series = work[j].series /\ work'[j].quotes = work[j].quotes
        /\ work'[j].etag = work[j].etag
        /\ work'[j].keys = IF inserts THEN work[j].keys \cup {i} ELSE work[j].keys
    BY <1>1 DEF Goto, NextQuote, IInv, Shaped, Others
  <2>3. DOMAIN work'[j].points = Ids /\
        \A k \in Ids : work'[j].points[k] = IF k = i THEN v ELSE work[j].points[k]
    BY <2>2 DEF IInv, Shaped
  <2>4. Shaped'
    BY <2>2, <2>3 DEF IInv, Shaped, Others, store
  <2>5. Local(j)
    BY DEF IInv
  <2>6. Holding(j)'
    BY <2>1, <2>2, <2>5 DEF Local, Holding
  <2>7. Dropping(j)'
    BY <2>1, <2>2, <2>5 DEF Local, Dropping
  <2>8. Inserting(j)'
    <3>1. ASSUME NEW k \in Ids, work'[j].points[k] \notin {0, Same}
          PROVE  points[k] # 0 \/ k \in work'[j].keys
      <4>1. CASE k # i
        BY <2>2, <2>3, <2>5, <3>1, <4>1 DEF Local, Inserting
      <4>2. CASE k = i /\ ~inserts
        BY <2>2, <2>5, <4>2 DEF Local, Inserting, Point, Now
      <4>3. CASE k = i /\ inserts
        BY <2>2, <4>3
      <4> QED
        BY <4>1, <4>2, <4>3
    <3>2. ASSUME NEW k \in Ids, k \in work'[j].keys PROVE Series(j, k)' # NoSeries
      <4>1. Series(j, k)' = Series(j, k)
        BY <2>2 DEF Series, store
      <4>2. k \in work[j].keys \/ (k = i /\ inserts)
        BY <2>2, <3>2
      <4> QED
        BY <1>1, <2>5, <4>1, <4>2 DEF Local, Inserting
    <3>3. \A k \in Ids : work'[j].quotes[k] \notin {0, Same} => k \in work'[j].keys
      BY <2>1, <2>2, <2>5 DEF Local, Inserting
    <3> QED
      BY <2>2, <3>1, <3>2, <3>3 DEF Inserting, store
  <2>9. Renewing(j)' /\ Describing(j)'
    BY <2>1, <2>2, <2>5 DEF Local, Renewing, Describing, store
  <2>10. \A u \in Jobs \ {j} : Apart(j, u)' /\ Apart(u, j)'
    BY <2>1, <2>2, <2>3, <2>5 DEF IInv, Apart, Others, Local, Dropping
  <2> QED
    BY <2>2, <2>4, <2>6, <2>7, <2>8, <2>9, <2>10, OwnStep DEF Local
<1> QED
  BY <1>0, <1>1 DEF UpsertPoint

\* A deletion's statements on its own series' rows: one row written as absent.
LEMMA DeletePointKeeps ==
    ASSUME IInv, NEW j \in Jobs, DeletePoint(j)
    PROVE  IInv'
<1> DEFINE i == Target(j)
           none == Point(j, i) = 0
<1>1. /\ pc[j] \in {"points", "cascade"} /\ task[j].kind = "delete"
      /\ ~none => \A u \in Jobs \ {j} : work[u].points[i] = Same
  BY DEF DeletePoint, Ready, Blockers, Blocks
<1>2. /\ UNCHANGED store /\ Others(j) /\ task' = task
      /\ pc'[j] = IF pc[j] = "points" THEN "series" ELSE "quotes"
      /\ DOMAIN pc' = Jobs /\ DOMAIN work' = Jobs /\ DOMAIN work'[j] = DOMAIN work[j]
      /\ work'[j].points = [work[j].points EXCEPT ![i] = IF none THEN @ ELSE 0]
      /\ work'[j].series = work[j].series /\ work'[j].quotes = work[j].quotes
      /\ work'[j].etag = work[j].etag /\ work'[j].keys = work[j].keys
  BY DEF DeletePoint, Goto, IInv, Shaped, Others
<1>3. /\ DOMAIN work'[j].points = Ids
      /\ \A k \in Ids : work'[j].points[k] = IF k = i /\ ~none THEN 0 ELSE work[j].points[k]
  BY <1>2 DEF IInv, Shaped
<1>4. Shaped'
  BY <1>2, <1>3 DEF IInv, Shaped, Others, store
<1>5. Local(j) /\ Target(j)' = Target(j)
  BY <1>2 DEF IInv, Target
<1>6. Holding(j)'
  BY <1>1, <1>2, <1>5 DEF Local, Holding
<1>7. Dropping(j)'
  <2>1. \A k \in Ids : k = i => Now(work'[j].points[k], points'[k]) = 0
    BY <1>2, <1>3, MarketAssumption DEF Point, Now, store
  <2> QED
    BY <1>1, <1>2, <1>5, <2>1 DEF Local, Dropping, Point
<1>8. Inserting(j)'
  BY <1>1, <1>2, <1>3, <1>5 DEF Local, Inserting, Holding, store
<1>9. Renewing(j)' /\ Describing(j)'
  BY <1>1, <1>2, <1>5 DEF Local, Renewing, Describing, store
<1>10. \A u \in Jobs \ {j} : Apart(j, u)' /\ Apart(u, j)'
  BY <1>1, <1>2, <1>3 DEF IInv, Apart, Others
<1> QED
  BY <1>2, <1>4, <1>6, <1>7, <1>8, <1>9, <1>10, OwnStep DEF Local

-----------------------------------------------------------------------------
(* The snapshot.                                                           *)

\* A statement that writes snapshot rows or the snapshot's own row, and no other.
SnapStep(j, q, e, step) ==
    /\ UNCHANGED store /\ Others(j) /\ task' = task
    /\ DOMAIN pc' = Jobs /\ pc'[j] = step
    /\ DOMAIN work' = Jobs /\ DOMAIN work'[j] = DOMAIN work[j]
    /\ DOMAIN work'[j].quotes = Ids /\ (\A k \in Ids : work'[j].quotes[k] = q[k])
    /\ work'[j].etag = e
    /\ work'[j].series = work[j].series /\ work'[j].points = work[j].points

LEMMA SnapStepKeeps ==
    ASSUME IInv, NEW j \in Jobs, NEW q, NEW e, NEW step, SnapStep(j, q, e, step),
           step \notin {"idle", "lock"},
           work[j].keys \subseteq work'[j].keys, Holding(j)', Dropping(j)', Renewing(j)',
           \A k \in Ids : q[k] \notin {0, Same} => step = "check" \/ k \in work'[j].keys,
           \A k \in Ids : k \in work'[j].keys \ work[j].keys =>
              Series(j, k) # NoSeries /\ \A u \in Jobs \ {j} : work[u].series[k] # NoSeries
    PROVE  IInv'
<1> USE DEF SnapStep
<1>1. Shaped'
  BY DEF IInv, Shaped, Others, store
<1>2. Local(j)
  BY DEF IInv
<1>3. Inserting(j)'
  BY <1>2 DEF Local, Inserting, Series, Now, store
<1>4. Describing(j)'
  BY <1>2 DEF Local, Describing, store
<1>5. \A u \in Jobs \ {j} : Apart(j, u)' /\ Apart(u, j)'
  BY DEF IInv, Apart, Others
<1> QED
  BY <1>1, <1>3, <1>4, <1>5, OwnStep DEF Local

LEMMA CascadeQuoteKeeps ==
    ASSUME IInv, NEW j \in Jobs, CascadeQuote(j)
    PROVE  IInv'
<1> DEFINE i == Target(j)
           none == snap.quotes[i] = 0
           q == [k \in Ids |-> IF k = i /\ ~none THEN 0 ELSE work[j].quotes[k]]
           step == IF none THEN "commit" ELSE "etag"
<1>1. pc[j] = "quotes" /\ task[j].kind = "delete" /\ Local(j)
  BY DEF CascadeQuote, Ready, IInv
<1>2. SnapStep(j, q, work[j].etag, step) /\ work'[j].keys = work[j].keys
  BY DEF CascadeQuote, Goto, IInv, Shaped, Others, SnapStep
<1>3. Target(j)' = Target(j) /\ \A k \in Ids : Point(j, k)' = Point(j, k)
  BY <1>2 DEF SnapStep, Target, Point, store
<1>4. Holding(j)'
  BY <1>1, <1>2 DEF SnapStep, Local, Holding
<1>5. Dropping(j)'
  <2>1. \A k \in Ids : k = i => Now(work'[j].quotes[k], snap'.quotes[k]) = 0
    BY <1>1, <1>2, MarketAssumption DEF SnapStep, Now, store, Local, Inserting, Holding
  <2> QED
    BY <1>1, <1>2, <1>3, <2>1 DEF SnapStep, Local, Dropping
<1>6. Renewing(j)'
  BY <1>1, <1>2 DEF SnapStep, Local, Renewing
<1>7. \A k \in Ids : q[k] \notin {0, Same} => k \in work'[j].keys
  BY <1>1, <1>2 DEF Local, Inserting
<1> QED
  BY <1>2, <1>4, <1>5, <1>6, <1>7, SnapStepKeeps

LEMMA EtagKeeps ==
    ASSUME IInv, NEW j \in Jobs, BumpEtag(j) \/ LockSnapshot(j)
    PROVE  IInv'
<1>1. CASE BumpEtag(j)
  <2>1. pc[j] = "etag" /\ task[j].kind = "delete" /\ Local(j)
    BY <1>1 DEF BumpEtag, Ready, IInv
  <2>2. SnapStep(j, work[j].quotes, "new", "commit") /\ work'[j].keys = work[j].keys
    BY <1>1 DEF BumpEtag, Goto, IInv, Shaped, Others, SnapStep
  <2>3. Target(j)' = Target(j) /\ \A k \in Ids : Point(j, k)' = Point(j, k)
    BY <2>2 DEF SnapStep, Target, Point, store
  <2>4. Holding(j)' /\ Renewing(j)'
    BY <2>1, <2>2 DEF SnapStep, Local, Holding, Renewing
  <2>5. Dropping(j)'
    BY <2>1, <2>2, <2>3 DEF SnapStep, Local, Dropping, store
  <2>6. \A k \in Ids : work[j].quotes[k] \notin {0, Same} => k \in work'[j].keys
    BY <2>1, <2>2 DEF Local, Inserting
  <2> QED
    BY <2>2, <2>4, <2>5, <2>6, SnapStepKeeps
<1>2. CASE LockSnapshot(j)
  <2> DEFINE e == IF snap.etag = 0 THEN "new" ELSE "held"
  <2>1. pc[j] = "lock" /\ task[j].kind = "build" /\ Local(j) /\ work[j] = NoWork
    BY <1>2 DEF LockSnapshot, Ready, IInv, Local, Holding
  <2>2. SnapStep(j, work[j].quotes, e, "prior") /\ work'[j].keys = work[j].keys
    BY <1>2 DEF LockSnapshot, Goto, IInv, Shaped, Others, SnapStep
  <2>3. Holding(j)' /\ Renewing(j)'
    BY <2>1, <2>2 DEF SnapStep, Local, Holding, Renewing, NoWork
  <2>4. Dropping(j)'
    BY <2>1, <2>2 DEF SnapStep, Local, Dropping
  <2>5. \A k \in Ids : work[j].quotes[k] = Same
    BY <2>1 DEF NoWork
  <2> QED
    BY <2>2, <2>3, <2>4, <2>5, SnapStepKeeps
<1> QED
  BY <1>1, <1>2

LEMMA AffectKeeps ==
    ASSUME IInv, NEW j \in Jobs, ClearSnapshot(j) \/ FillSnapshot(j)
    PROVE  IInv'
<1>1. ASSUME NEW rows \in SUBSET Ids, NEW value, NEW step \in {"fill", "check"},
             Affect(j, rows, value, step), task[j].kind = "build", pc[j] \in {"clear", "fill"},
             step = "fill" => \A k \in Ids : value[k] = 0
      PROVE  IInv'
  <2> DEFINE q == [k \in Ids |-> IF k \in rows THEN value[k] ELSE work[j].quotes[k]]
             e == IF rows = {} THEN work[j].etag ELSE "new"
  <2>1. SnapStep(j, q, e, step) /\ work'[j].keys = work[j].keys
    BY <1>1 DEF Affect, Goto, IInv, Shaped, Others, SnapStep
  <2>2. Local(j)
    BY DEF IInv
  <2>3. Holding(j)'
    BY <1>1, <2>1, <2>2 DEF SnapStep, Local, Holding
  <2>4. Dropping(j)'
    BY <1>1, <2>1, <2>2 DEF SnapStep, Local, Dropping
  <2>5. Renewing(j)'
    BY <1>1, <2>1, <2>2 DEF SnapStep, Local, Renewing
  <2>6. \A k \in Ids : q[k] \notin {0, Same} => step = "check" \/ k \in work'[j].keys
    BY <1>1, <2>1, <2>2 DEF Local, Inserting
  <2> QED
    BY <1>1, <2>1, <2>3, <2>4, <2>5, <2>6, SnapStepKeeps
<1>2. Listed(snap.quotes) \subseteq Ids /\ Listed(points) \subseteq Ids
  BY DEF Listed
<1>3. CASE ClearSnapshot(j)
  BY <1>1, <1>2, <1>3 DEF ClearSnapshot, Ready
<1>4. CASE FillSnapshot(j)
  BY <1>1, <1>2, <1>4 DEF FillSnapshot, Ready
<1> QED
  BY <1>3, <1>4

\* The foreign keys of the rows a rebuild has inserted.
LEMMA CheckKeysKeeps ==
    ASSUME IInv, NEW j \in Jobs, CheckKeys(j)
    PROVE  IInv'
<1> DEFINE new == [i \in Ids |-> Now(work[j].quotes[i], 0)]
<1>0. CASE Abandon(j, "error")
  BY <1>0, AbandonKeeps
<1>1. CASE /\ \A i \in Listed(new) : series[i] # NoSeries
           /\ work' = [work EXCEPT ![j].keys = Listed(new)]
           /\ Goto(j, "commit")
           /\ UNCHANGED <<store, task, reply>>
  <2>1. /\ pc[j] = "check" /\ task[j].kind = "build" /\ Local(j)
        /\ \A u \in Jobs \ {j}, k \in Listed(work[j].quotes) : work[u].series[k] # NoSeries
    BY DEF CheckKeys, Ready, Blockers, Blocks, DeletesSeries, IInv
  <2>2. Listed(new) = Listed(work[j].quotes)
    BY MarketAssumption DEF Listed, Now
  <2>3. work'[j].keys = Listed(work[j].quotes) /\ SnapStep(j, work[j].quotes, work[j].etag, "commit")
    BY <1>1, <2>2 DEF Goto, IInv, Shaped, Others, SnapStep
  <2>4. Holding(j)' /\ Renewing(j)'
    BY <2>1, <2>3 DEF SnapStep, Local, Holding, Renewing
  <2>5. Dropping(j)'
    BY <2>1, <2>3 DEF SnapStep, Local, Dropping
  <2>6. \A k \in Ids : k \in work'[j].keys => Series(j, k) # NoSeries
    BY <1>1, <2>1, <2>2, <2>3 DEF Series, Now, Local, Dropping
  <2>7. \A k \in Ids : work[j].quotes[k] \notin {0, Same} => k \in work'[j].keys
    BY <2>3 DEF Listed
  <2>8. work[j].keys = {}
    BY <2>1 DEF Local, Holding
  <2> QED
    BY <2>1, <2>3, <2>4, <2>5, <2>6, <2>7, <2>8, SnapStepKeeps
<1> QED
  BY <1>0, <1>1 DEF CheckKeys

-----------------------------------------------------------------------------
(* The commit.                                                             *)

\* The tables after j's commit, and j's slot.
Committed(j) ==
    /\ pc[j] = "commit"
    /\ pc'[j] = "idle" /\ task'[j] = NoTask /\ work'[j] = NoWork /\ Others(j)
    /\ \A i \in Ids : /\ series'[i] = Series(j, i) /\ points'[i] = Point(j, i)
                      /\ snap'.quotes[i] = Now(work[j].quotes[i], snap.quotes[i])
    /\ snap'.quotes = [i \in Ids |-> snap'.quotes[i]]
    /\ snap'.etag = IF work[j].etag = "new" THEN snap.etag + 1 ELSE snap.etag

LEMMA CommitIs ==
    ASSUME IInv, NEW j \in Jobs, Commit(j)
    PROVE  Committed(j)
BY DEF Commit, Committed, End, Goto, Ready, Others, Series, Point, IInv, Shaped

LEMMA CommitNoOrphans ==
    ASSUME IInv, NEW j \in Jobs, Committed(j)
    PROVE  NoOrphans'
<1> SUFFICES ASSUME NEW i \in Ids, points'[i] # 0 \/ snap'.quotes[i] # 0
             PROVE  series'[i] # NoSeries
  BY DEF NoOrphans
<1> USE DEF Committed
<1>1. Local(j)
  BY DEF IInv
<1>2. CASE work[j].series[i] = NoSeries
  <2>1. Point(j, i) = 0 /\ Now(work[j].quotes[i], snap.quotes[i]) = 0
    BY <1>1, <1>2 DEF Local, Dropping
  <2> QED
    BY <2>1
<1>3. CASE work[j].series[i] \notin {Same, NoSeries}
  BY <1>3 DEF Series, Now
<1>4. CASE work[j].series[i] = Same
  <2>1. series'[i] = series[i]
    BY <1>4 DEF Series, Now
  <2>2. i \in work[j].keys => series[i] # NoSeries
    BY <1>1, <1>4 DEF Local, Inserting, Series, Now
  <2>3. points'[i] # 0 => points[i] # 0 \/ i \in work[j].keys
    BY <1>1 DEF Local, Inserting, Point, Now
  <2>4. snap'.quotes[i] # 0 => snap.quotes[i] # 0 \/ i \in work[j].keys
    BY <1>1 DEF Local, Inserting, Now
  <2> QED
    BY <2>1, <2>2, <2>3, <2>4 DEF IInv, NoOrphans
<1> QED
  BY <1>2, <1>3, <1>4

\* What an open transaction relies on, another's commit leaves true.
LEMMA CommitLocal ==
    ASSUME IInv, NEW j \in Jobs, Committed(j), NEW u \in Jobs \ {j}
    PROVE  Local(u)'
<1> USE DEF Committed
<1>1. Local(u) /\ Local(j) /\ Apart(j, u) /\ Apart(u, j)
  BY DEF IInv
<1>2. pc'[u] = pc[u] /\ task'[u] = task[u] /\ work'[u] = work[u]
  BY DEF Others
<1>3. Target(u)' = Target(u)
  BY <1>2 DEF Target
<1>4. Holding(u)'
  BY <1>1, <1>2 DEF Local, Holding
<1>5. Renewing(u)'
  BY <1>1, <1>2 DEF Local, Renewing
<1>6. Describing(u)'
  BY <1>1, <1>2 DEF Local, Describing, Apart, Series, Now
<1>7. Inserting(u)'
  <2>1. ASSUME NEW i \in Ids, work[u].points[i] \notin {0, Same}
        PROVE  points'[i] # 0 \/ i \in work[u].keys
    BY <1>1, <2>1 DEF Local, Inserting, Apart, Point, Now
  <2>2. ASSUME NEW i \in Ids, i \in work[u].keys
        PROVE  Now(work[u].series[i], series'[i]) # NoSeries
    BY <1>1, <2>2 DEF Local, Inserting, Apart, Series, Now
  <2> QED
    BY <1>1, <1>2, <2>1, <2>2 DEF Local, Inserting, Series
<1>8. Dropping(u)'
  <2>1. ASSUME NEW i \in Ids, work[u].series[i] = NoSeries, Point(u, i) = 0
        PROVE  Now(work[u].points[i], points'[i]) = 0
    <3>1. CASE work[u].points[i] # Same
      BY <2>1, <3>1 DEF Point, Now
    <3>2. CASE work[u].points[i] = Same
      <4>1. points[i] = 0 /\ i \notin work[j].keys
        BY <1>1, <2>1, <3>2 DEF Point, Now, Apart
      <4>2. points'[i] = 0
        BY <1>1, <4>1 DEF Local, Inserting, Point, Now
      <4> QED
        BY <3>2, <4>2 DEF Now
    <3> QED
      BY <3>1, <3>2
  <2>2. ASSUME NEW i \in Ids, work[u].series[i] = NoSeries,
               Now(work[u].quotes[i], snap.quotes[i]) = 0
        PROVE  Now(work[u].quotes[i], snap'.quotes[i]) = 0
    <3>1. i \notin work[j].keys
      BY <1>1, <2>2 DEF Apart
    <3> QED
      BY <1>1, <2>2, <3>1 DEF Local, Inserting, Now
  <2> QED
    BY <1>1, <1>2, <1>3, <2>1, <2>2 DEF Local, Dropping, Point
<1> QED
  BY <1>4, <1>5, <1>6, <1>7, <1>8 DEF Local

LEMMA CommitKeeps ==
    ASSUME IInv, NEW j \in Jobs, Commit(j)
    PROVE  IInv'
<1>1. Committed(j)
  BY CommitIs
<1>2. Shaped'
  <2>1. series' \in [Ids -> Descriptions \cup {NoSeries}]
    BY DEF Commit, IInv, Shaped, Now
  <2>2. snap'.etag \in Nat
    BY <1>1 DEF Committed, IInv, Shaped
  <2>3. DOMAIN pc' = Jobs /\ DOMAIN task' = Jobs /\ DOMAIN work' = Jobs
    BY DEF Commit, End, Goto, IInv, Shaped
  <2> QED
    BY <1>1, <2>1, <2>2, <2>3, MarketAssumption
       DEF Committed, IInv, Shaped, Others, NoTask, NoWork
<1>3. Local(j)'
  BY <1>1, MarketAssumption
     DEF Committed, Local, Holding, Dropping, Inserting, Renewing, Describing, NoTask, NoWork
<1>4. \A u \in Jobs \ {j} : Local(u)'
  BY <1>1, CommitLocal
<1>5. \A u, v \in Jobs : u # v => Apart(u, v)'
  <2>1. \A u \in Jobs \ {j} : Apart(j, u)' /\ Apart(u, j)'
    BY <1>1, MarketAssumption DEF Committed, Apart, NoWork
  <2>2. \A u, v \in Jobs \ {j} : u # v => Apart(u, v)'
    BY <1>1 DEF Committed, IInv, Others, Apart
  <2> QED
    BY <2>1, <2>2
<1>6. NoOrphans'
  BY <1>1, CommitNoOrphans
<1> QED
  BY <1>2, <1>3, <1>4, <1>5, <1>6 DEF IInv

-----------------------------------------------------------------------------
(* The invariant of the specification, and what follows from it.           *)

LEMMA InitIInv == Init => IInv
<1> SUFFICES ASSUME Init PROVE IInv
  OBVIOUS
<1> USE MarketAssumption DEF Init
<1>1. Shaped
  BY DEF Shaped, NoTask, NoWork
<1>2. \A j \in Jobs : Local(j)
  BY DEF Local, Holding, Dropping, Inserting, Renewing, Describing, NoTask, NoWork
<1>3. \A j, u \in Jobs : Apart(j, u)
  BY DEF Apart, NoWork
<1> QED
  BY <1>1, <1>2, <1>3 DEF IInv, NoOrphans

LEMMA NextIInv == IInv /\ [Next]_vars => IInv'
<1> SUFFICES ASSUME IInv, [Next]_vars PROVE IInv'
  OBVIOUS
<1>1. CASE UNCHANGED vars
  <2>1. \A u \in Jobs : Local(u)'
    BY <1>1, LocalKept DEF IInv, vars, store
  <2> QED
    BY <1>1, <2>1 DEF vars, IInv, Shaped, Apart, NoOrphans
<1>2. ASSUME NEW j \in Jobs, Arrive(j) \/ Statement(j) \/ Crash(j) \/ DeadlockAbort(j)
      PROVE  IInv'
  <2>1. CASE Arrive(j)
    BY <2>1, ArriveKeeps
  <2>2. CASE Crash(j) \/ DeadlockAbort(j)
    BY <2>2, AbandonKeeps DEF Crash, DeadlockAbort
  <2>3. CASE UpsertSeries(j) \/ CreateSeries(j) \/ DescribeSeries(j) \/ DropSeries(j)
    BY <2>3, SeriesKeeps
  <2>4. CASE ReadKnown(j)
    <3> DEFINE td == task[j].todo
               known == Picked(td, {n \in 1..Len(td) : series[td[n][1]] # NoSeries})
    <3>1. PICK todo : todo = known
      OBVIOUS
    <3>2. PICK step \in {"commit", "point"} : Goto(j, step)
      BY <2>4 DEF ReadKnown
    <3>3. /\ UNCHANGED <<series, points, snap, work>> /\ task' = [task EXCEPT ![j].todo = todo]
          /\ task[j].kind = "import" /\ pc[j] = "known"
      BY <2>4, <3>1 DEF ReadKnown, Ready, store
    <3> QED
      BY <3>2, <3>3, ReadKeeps
  <2>5. CASE UpsertPoint(j)
    BY <2>5, UpsertPointKeeps
  <2>6. CASE DeletePoint(j)
    BY <2>6, DeletePointKeeps
  <2>7. CASE CascadeQuote(j)
    BY <2>7, CascadeQuoteKeeps
  <2>8. CASE BumpEtag(j) \/ LockSnapshot(j)
    BY <2>8, EtagKeeps
  <2>9. CASE ReadPrior(j)
    BY <2>9, ReadKeeps DEF ReadPrior, Ready, store
  <2>10. CASE ClearSnapshot(j) \/ FillSnapshot(j)
    BY <2>10, AffectKeeps
  <2>11. CASE CheckKeys(j)
    BY <2>11, CheckKeysKeeps
  <2>12. CASE Commit(j)
    BY <2>12, CommitKeeps
  <2> QED
    BY <1>2, <2>1, <2>2, <2>3, <2>4, <2>5, <2>6, <2>7, <2>8, <2>9, <2>10, <2>11, <2>12
       DEF Statement
<1> QED
  BY <1>1, <1>2 DEF Next

LEMMA Invariance == Spec => []IInv
BY InitIInv, NextIInv, PTL DEF Spec

\* No quote and no snapshot row outlives its series: delete_series, user_import and
\* build_snapshot meet in the foreign keys' shared locks, in whatever order their
\* statements run.
THEOREM NothingIsOrphaned == Spec => []NoOrphans
<1>1. IInv => NoOrphans
  BY DEF IInv
<1> QED
  BY <1>1, Invariance, PTL

\* Only a commit changes the tables.
LEMMA TablesAlone ==
    ASSUME IInv, [Next]_vars
    PROVE  UNCHANGED store \/ \E j \in Jobs : Committed(j)
<1>1. ASSUME NEW j \in Jobs, Arrive(j) \/ Crash(j) \/ DeadlockAbort(j) PROVE UNCHANGED store
  BY <1>1 DEF Arrive, Crash, DeadlockAbort, Abandon, store
<1>2. ASSUME NEW j \in Jobs, Statement(j), ~Commit(j) PROVE UNCHANGED store
  BY <1>2 DEF Statement, UpsertSeries, CreateSeries, DescribeSeries, DropSeries, WriteSeries,
              ReadKnown, UpsertPoint, DeletePoint, CascadeQuote, BumpEtag, LockSnapshot,
              ReadPrior, ClearSnapshot, FillSnapshot, Affect, CheckKeys, Abandon, store
<1> QED
  BY <1>1, <1>2, CommitIs DEF Next, vars, store

\* The etag a pricing request pins is renewed by the trigger whenever a statement changes
\* the snapshot's rows, a rebuild's or a series deletion's.
THEOREM EtagsTrackContents == Spec => EtagTracksContents
<1>1. IInv /\ IInv' /\ [Next]_vars =>
        [snap'.quotes # snap.quotes => snap'.etag # snap.etag]_vars
  <2> SUFFICES ASSUME IInv, IInv', [Next]_vars, snap'.quotes # snap.quotes
               PROVE  snap'.etag # snap.etag
    OBVIOUS
  <2>1. PICK j \in Jobs : Committed(j)
    BY TablesAlone DEF store
  <2>2. PICK i \in Ids : work[j].quotes[i] # Same
    <3> SUFFICES ASSUME \A i \in Ids : work[j].quotes[i] = Same PROVE FALSE
      OBVIOUS
    <3>1. \A i \in Ids : snap'.quotes[i] = snap.quotes[i]
      BY <2>1 DEF Committed, Now
    <3>2. [i \in Ids |-> snap'.quotes[i]] = [i \in Ids |-> snap.quotes[i]]
      BY <3>1
    <3> QED
      BY <2>1, <3>2 DEF Committed, IInv, Shaped
  <2>3. work[j].etag = "new"
    BY <2>1, <2>2 DEF Committed, IInv, Local, Renewing
  <2> QED
    BY <2>1, <2>3 DEF Committed, IInv, Shaped
<1> QED
  BY <1>1, Invariance, PTL DEF Spec, EtagTracksContents

\* The nightly upsert fills a description only where there is none, under the row's lock:
\* a user's text changes by the user's PATCH alone.
THEOREM TextsAreKept == Spec => UserTextKept
<1>1. IInv /\ [Next]_vars =>
        [\A i \in Ids : series[i] \in Texts /\ series'[i] \notin {series[i], NoSeries} =>
            \E j \in Jobs : task[j].kind = "describe" /\ task[j].id = i /\ pc[j] = "commit"]_vars
  <2> SUFFICES ASSUME IInv, [Next]_vars, NEW i \in Ids,
                      series[i] \in Texts, series'[i] \notin {series[i], NoSeries}
               PROVE  \E j \in Jobs : task[j].kind = "describe" /\ task[j].id = i /\ pc[j] = "commit"
    OBVIOUS
  <2>1. PICK j \in Jobs : Committed(j)
    BY TablesAlone DEF store
  <2>2. work[j].series[i] \notin {Same, NoSeries} /\ work[j].series[i] # series[i]
    BY <2>1 DEF Committed, Series, Now
  <2>3. task[j].kind = "describe" /\ task[j].id = i
    BY <2>2 DEF IInv, Local, Describing
  <2> QED
    BY <2>1, <2>3 DEF Committed
<1> QED
  BY <1>1, Invariance, PTL DEF Spec, UserTextKept

-----------------------------------------------------------------------------
(* II. What a rebuild reports, and the types.                              *)

MemoRow == [n : 0..Cardinality(Ids), prior : [Ids -> Nat]]
TaskRow == [kind : AllKinds \cup {"none"}, todo : Seq(Ids \X (Nat \ {0})),
            id : Ids \cup {NoSeries}, text : Texts \cup {Blank}]
WorkRow == [series : [Ids -> Descriptions \cup {NoSeries, Same}],
            points : [Ids -> Nat \cup {Same}], quotes : [Ids -> Nat \cup {Same}],
            etag : {"free", "held", "new"}, keys : SUBSET Ids]
ReplyRow == [out : Outs, n : 0..Cardinality(Ids)]

Typed ==
    /\ series \in [Ids -> Descriptions \cup {NoSeries}]
    /\ points \in [Ids -> Nat]
    /\ snap \in [etag : Nat, quotes : [Ids -> Nat]]
    /\ pc \in [Jobs -> Steps] /\ task \in [Jobs -> TaskRow] /\ memo \in [Jobs -> MemoRow]
    /\ work \in [Jobs -> WorkRow] /\ reply \in [Jobs -> ReplyRow]

\* A job's count has room for the quotes it has still to write.
Counting(j) ==
    /\ pc[j] = "idle" => memo[j] = NoMemo
    /\ pc[j] # "idle" => reply[j].out = "none"
    /\ task[j].kind \in {"ingest", "import"} =>
          memo[j].n + Len(task[j].todo) <= Cardinality(Ids)

\* There is a quote to write where one is written, and a series to delete.
AtWork(j) ==
    /\ pc[j] = "point" => task[j].todo # <<>>
    /\ pc[j] = "series" /\ task[j].kind = "ingest" => task[j].todo # <<>>
    /\ task[j].kind = "delete" => task[j].todo = <<>> /\ task[j].id \in Ids

\* Which rows a kind of job writes.
Touching(j) ==
    /\ task[j].kind \notin {"ingest", "import", "delete"} =>
          \A i \in Ids : work[j].points[i] = Same
    /\ task[j].kind \notin {"delete", "build"} =>
          work[j].etag = "free" /\ \A i \in Ids : work[j].quotes[i] = Same
    /\ task[j].kind = "delete" =>
          \A i \in Ids : work[j].points[i] \in {0, Same} /\ work[j].quotes[i] \in {0, Same}

\* A rebuild holds the snapshot's row, so what it has read stays the snapshot, and
\* what it has written covers every row of it.
Replaced(j) == [i \in Ids |-> Now(work[j].quotes[i], snap.quotes[i])]

Rebuilding(j) ==
    task[j].kind = "build" =>
        /\ pc[j] # "lock" => work[j].etag # "free"
        /\ pc[j] \in {"clear", "fill", "check"} => memo[j].prior = snap.quotes
        /\ pc[j] \in {"prior", "clear"} => \A i \in Ids : work[j].quotes[i] = Same
        /\ pc[j] = "fill" => \A i \in Ids : work[j].quotes[i] \in {0, Same}
        /\ pc[j] \in {"fill", "check", "commit"} =>
              \A i \in Ids : work[j].quotes[i] = Same => snap.quotes[i] = 0
        /\ pc[j] = "commit" => memo[j].n = Changed(snap.quotes, Replaced(j))

\* One transaction at a time holds the snapshot's row.
Sole(j, u) == work[j].etag = "free" \/ work[u].etag = "free"

Own(j) == Counting(j) /\ AtWork(j) /\ Touching(j) /\ Rebuilding(j)

RInv == /\ Typed
        /\ \A j \in Jobs : Own(j)
        /\ \A j, u \in Jobs : j # u => Sole(j, u)

\* A statement of j that leaves the tables alone.
Moves(j, p, t, m, w, r) ==
    /\ UNCHANGED store
    /\ pc' = [pc EXCEPT ![j] = p] /\ task' = [task EXCEPT ![j] = t]
    /\ memo' = [memo EXCEPT ![j] = m] /\ work' = [work EXCEPT ![j] = w]
    /\ reply' = [reply EXCEPT ![j] = r]

LEMMA Moved ==
    ASSUME Typed, NEW j \in Jobs, NEW p, NEW t, NEW m, NEW w, NEW r, Moves(j, p, t, m, w, r)
    PROVE  /\ pc'[j] = p /\ task'[j] = t /\ memo'[j] = m /\ work'[j] = w /\ reply'[j] = r
           /\ \A u \in Jobs \ {j} : /\ pc'[u] = pc[u] /\ task'[u] = task[u] /\ memo'[u] = memo[u]
                                    /\ work'[u] = work[u] /\ reply'[u] = reply[u]
BY DEF Moves, Typed

\* Such a statement is judged by its own job, and by the snapshot's row if it takes it.
LEMMA MoveKeeps ==
    ASSUME RInv, NEW j \in Jobs, NEW p \in Steps, NEW t \in TaskRow, NEW m \in MemoRow,
           NEW w \in WorkRow, NEW r \in ReplyRow, Moves(j, p, t, m, w, r), Own(j)',
           w.etag # "free" => \/ work[j].etag # "free"
                              \/ \A u \in Jobs \ {j} : work[u].etag = "free"
    PROVE  RInv'
<1>1. /\ pc'[j] = p /\ task'[j] = t /\ memo'[j] = m /\ work'[j] = w /\ reply'[j] = r
      /\ \A u \in Jobs \ {j} : /\ pc'[u] = pc[u] /\ task'[u] = task[u] /\ memo'[u] = memo[u]
                               /\ work'[u] = work[u] /\ reply'[u] = reply[u]
  BY Moved DEF RInv
<1>2. Typed'
  <2>1. pc' \in [Jobs -> Steps] /\ task' \in [Jobs -> TaskRow] /\ memo' \in [Jobs -> MemoRow]
        /\ work' \in [Jobs -> WorkRow] /\ reply' \in [Jobs -> ReplyRow]
    BY DEF RInv, Typed, Moves
  <2> QED
    BY <2>1, Zenon DEF RInv, Typed, Moves, store, TaskRow, MemoRow, WorkRow, ReplyRow
<1>3. ASSUME NEW u \in Jobs \ {j} PROVE Own(u)'
  <2>1. Own(u) /\ snap' = snap
    BY DEF RInv, Moves, store
  <2>2. Replaced(u)' = Replaced(u)
    BY <1>1, <2>1 DEF Replaced
  <2>3. Counting(u)' /\ AtWork(u)' /\ Touching(u)'
    BY <1>1, <2>1 DEF Own, Counting, AtWork, Touching, NoMemo
  <2>4. Rebuilding(u)'
    BY <1>1, <2>1, <2>2 DEF Own, Rebuilding
  <2> QED
    BY <2>3, <2>4 DEF Own
<1>4. ASSUME NEW u \in Jobs, NEW v \in Jobs, u # v PROVE Sole(u, v)'
  BY <1>1, <1>4 DEF RInv, Sole
<1> QED
  BY <1>2, <1>3, <1>4 DEF RInv

-----------------------------------------------------------------------------
(* Jobs that come and go.                                                  *)

LEMMA AbandonOwns ==
    ASSUME RInv, NEW j \in Jobs, NEW out \in Outs, Abandon(j, out)
    PROVE  RInv'
<1> DEFINE r == [out |-> out, n |-> 0]
<1>1. Moves(j, "idle", NoTask, NoMemo, NoWork, r)
  BY DEF Abandon, End, Goto, Moves
<1>2. Cardinality(Ids) \in Nat
  BY MarketAssumption, FS_CardinalityType
<1>3. /\ NoTask \in TaskRow /\ NoMemo \in MemoRow /\ NoWork \in WorkRow /\ r \in ReplyRow
      /\ "idle" \in Steps
  BY <1>2 DEF NoTask, TaskRow, NoMemo, MemoRow, NoWork, WorkRow, ReplyRow, Steps
<1>4. pc'[j] = "idle" /\ task'[j] = NoTask /\ memo'[j] = NoMemo /\ work'[j] = NoWork
  BY <1>1, Moved DEF RInv
<1>5. Counting(j)' /\ AtWork(j)' /\ Touching(j)' /\ Rebuilding(j)'
  BY <1>4 DEF Counting, AtWork, Touching, Rebuilding, NoTask, NoWork, NoMemo
<1>6. NoWork.etag = "free"
  BY DEF NoWork
<1> HIDE DEF r
<1> QED
  BY <1>1, <1>3, <1>5, <1>6, MoveKeeps DEF Own

\* A batch has at most one quote per series.
LEMMA BatchFits ==
    ASSUME NEW q \in Batches
    PROVE  /\ q \in Seq(Ids \X (Nat \ {0})) /\ q # <<>>
           /\ Len(q) \in Nat /\ Len(q) <= Cardinality(Ids)
<1>1. /\ q \in Seq(Ids \X (Nat \ {0})) /\ q # <<>> /\ IsFiniteSet(Ids)
      /\ \A m, n \in DOMAIN q : q[m][1] = q[n][1] => m = n
  BY MarketAssumption
<1> DEFINE f == [n \in 1..Len(q) |-> q[n][1]]
<1>2. \A n \in 1..Len(q) : f[n] \in Ids
  BY <1>1
<1>3. \A m, n \in 1..Len(q) : f[m] = f[n] => m = n
  BY <1>1
<1>4. f \in [1..Len(q) -> Ids]
  BY <1>2
<1> HIDE DEF f
<1>5. f \in Injection(1..Len(q), Ids)
  BY <1>3, <1>4, Zenon DEF Injection, IsInjective
<1>6. IsFiniteSet(1..Len(q)) /\ Cardinality(1..Len(q)) = Len(q)
  <2>1. \A l \in Nat : IsFiniteSet(1..l) /\ Cardinality(1..l) = l
    BY FS_Interval
  <2> QED
    BY <1>1, <2>1
<1>7. Len(q) <= Cardinality(Ids)
  BY <1>1, <1>5, <1>6, FS_Injection
<1> QED
  BY <1>1, <1>7

LEMMA ArriveOwns ==
    ASSUME IInv, RInv, NEW j \in Jobs, Arrive(j)
    PROVE  RInv'
<1>1. PICK t \in Tasks : task' = [task EXCEPT ![j] = t] /\ pc' = [pc EXCEPT ![j] = FirstStep[t.kind]]
  BY DEF Arrive, Goto
<1> DEFINE p == FirstStep[t.kind]
           r == [out |-> "none", n |-> 0]
<1>2. pc[j] = "idle" /\ work[j] = NoWork /\ memo[j] = NoMemo
  BY DEF Arrive, IInv, Local, Holding, RInv, Own, Counting
<1>3. Moves(j, p, t, NoMemo, NoWork, r)
  <2>1. memo' = [memo EXCEPT ![j] = NoMemo] /\ work' = [work EXCEPT ![j] = NoWork]
    BY <1>2 DEF Arrive, RInv, Typed
  <2> QED
    BY <1>1, <2>1 DEF Arrive, Moves
<1>4. Cardinality(Ids) \in Nat
  BY MarketAssumption, FS_CardinalityType
<1>5. /\ NoMemo \in MemoRow /\ NoWork \in WorkRow /\ r \in ReplyRow
  BY <1>4 DEF NoMemo, MemoRow, NoWork, WorkRow, ReplyRow, Outs
<1>6. /\ t.kind \in AllKinds
      /\ t.kind \in {"ingest", "import"} => t.todo \in Batches
      /\ t.kind \notin {"ingest", "import"} => t.todo = <<>>
      /\ t.kind = "delete" => t.id \in Ids
      /\ t.id \in Ids \cup {NoSeries} /\ t.text \in Texts \cup {Blank}
      /\ t = [kind |-> t.kind, todo |-> t.todo, id |-> t.id, text |-> t.text]
  BY MarketAssumption DEF Tasks
<1>7. t.todo \in Seq(Ids \X (Nat \ {0})) /\ Len(t.todo) <= Cardinality(Ids)
  <2>1. CASE t.kind \in {"ingest", "import"}
    BY <1>6, <2>1, BatchFits
  <2>2. CASE t.kind \notin {"ingest", "import"}
    <3>1. <<>> \in Seq(Ids \X (Nat \ {0})) /\ Len(<<>>) = 0
      OBVIOUS
    <3>2. t.todo = <<>>
      BY <1>6, <2>2
    <3> QED
      BY <1>4, <3>1, <3>2
  <2> QED
    BY <2>1, <2>2
<1>8. t \in TaskRow
  BY <1>6, <1>7 DEF TaskRow
<1>9. /\ p \in Steps /\ p \notin {"idle", "point"}
      /\ p = "series" /\ t.kind = "ingest" => t.todo # <<>>
      /\ t.kind = "build" => p = "lock"
  BY <1>6, BatchFits DEF FirstStep, AllKinds, Steps
<1>10. /\ pc'[j] = p /\ task'[j] = t /\ memo'[j] = NoMemo /\ work'[j] = NoWork /\ reply'[j] = r
  BY <1>3, Moved DEF RInv
<1> HIDE DEF p
<1>11. Counting(j)'
  BY <1>7, <1>9, <1>10 DEF Counting, NoMemo
<1>12. NoWork.etag = "free" /\ \A i \in Ids : NoWork.points[i] = Same /\ NoWork.quotes[i] = Same
  BY DEF NoWork
<1>13. AtWork(j)'
  BY <1>6, <1>9, <1>10 DEF AtWork
<1>14. Touching(j)'
  BY <1>10, <1>12 DEF Touching
<1>15. Rebuilding(j)'
  BY <1>9, <1>10 DEF Rebuilding
<1>16. Own(j)'
  BY <1>11, <1>13, <1>14, <1>15 DEF Own
<1> HIDE DEF r
<1> QED
  BY <1>3, <1>5, <1>8, <1>9, <1>12, <1>16, MoveKeeps

-----------------------------------------------------------------------------
(* Statements on series and quotes.                                        *)

LEMMA WriteSeriesOwns ==
    ASSUME RInv, IInv', NEW j \in Jobs, NEW d, NEW step \in {"point", "cascade", "commit"},
           WriteSeries(j, d, step), task[j].kind \in {"ingest", "create", "describe", "delete"},
           step = "point" => task[j].todo # <<>>, pc[j] = "series"
    PROVE  RInv'
<1> DEFINE w == [work[j] EXCEPT !.series[Target(j)] = d]
<1>1. Moves(j, step, task[j], memo[j], w, reply[j])
  BY DEF WriteSeries, Goto, Moves, RInv, Typed
<1>2. /\ pc'[j] = step /\ task'[j] = task[j] /\ memo'[j] = memo[j] /\ work'[j] = w
      /\ reply'[j] = reply[j]
  BY <1>1, Moved DEF RInv
<1>3. /\ work[j] \in WorkRow /\ task[j] \in TaskRow /\ memo[j] \in MemoRow /\ reply[j] \in ReplyRow
      /\ Own(j)
  BY DEF RInv, Typed
<1>4. /\ w.points = work[j].points /\ w.quotes = work[j].quotes /\ w.etag = work[j].etag
      /\ w.keys = work[j].keys
      /\ w = [series |-> w.series, points |-> w.points, quotes |-> w.quotes,
              etag |-> w.etag, keys |-> w.keys]
  BY <1>3 DEF WorkRow
<1>5. w.series \in [Ids -> Descriptions \cup {NoSeries, Same}]
  BY <1>2, Zenon DEF IInv, Shaped
<1> HIDE DEF w
<1>6. w \in WorkRow
  BY <1>3, <1>4, <1>5 DEF WorkRow
<1>7. Counting(j)' /\ AtWork(j)' /\ Touching(j)' /\ Rebuilding(j)'
  BY <1>2, <1>3, <1>4 DEF Own, Counting, AtWork, Touching, Rebuilding
<1>8. step \in Steps
  BY DEF Steps
<1> QED
  BY <1>1, <1>3, <1>4, <1>6, <1>7, <1>8, MoveKeeps DEF Own

LEMMA SeriesOwns ==
    ASSUME RInv, IInv', NEW j \in Jobs,
           UpsertSeries(j) \/ CreateSeries(j) \/ DescribeSeries(j) \/ DropSeries(j)
    PROVE  RInv'
<1>1. "exists" \in Outs /\ "not_found" \in Outs
  BY DEF Outs
<1>2. CASE UpsertSeries(j)
  <2>1. task[j].todo # <<>>
    BY <1>2 DEF UpsertSeries, Ready, RInv, Own, AtWork
  <2> QED
    BY <1>2, <2>1, WriteSeriesOwns DEF UpsertSeries, Ready
<1>3. CASE CreateSeries(j)
  BY <1>1, <1>3, WriteSeriesOwns, AbandonOwns DEF CreateSeries, Ready
<1>4. CASE DescribeSeries(j)
  BY <1>1, <1>4, WriteSeriesOwns, AbandonOwns DEF DescribeSeries, Ready
<1>5. CASE DropSeries(j)
  BY <1>1, <1>5, WriteSeriesOwns, AbandonOwns DEF DropSeries, Ready
<1> QED
  BY <1>2, <1>3, <1>4, <1>5

\* A quote's statement: what is left to write gets shorter as the count grows.
LEMMA UpsertPointOwns ==
    ASSUME RInv, NEW j \in Jobs, UpsertPoint(j)
    PROVE  RInv'
<1> DEFINE i == Target(j)
           q == task[j].todo
           inserts == Point(j, i) = 0
           v == Head(q)[2]
           rest == Tail(q)
           locked == IF inserts THEN work[j].keys \cup {i} ELSE work[j].keys
           t == [task[j] EXCEPT !.todo = rest]
           m == [memo[j] EXCEPT !.n = @ + 1]
           w == [work[j] EXCEPT !.points[i] = v, !.keys = locked]
<1>0. CASE Abandon(j, "error")
  BY <1>0, AbandonOwns DEF Outs
<1>1. CASE /\ work' = [work EXCEPT ![j].points[i] = Head(q)[2],
                                   ![j].keys = IF inserts THEN @ \cup {i} ELSE @]
           /\ memo' = [memo EXCEPT ![j].n = @ + 1]
           /\ task' = [task EXCEPT ![j].todo = Tail(@)]
           /\ Goto(j, NextQuote(j))
           /\ UNCHANGED <<store, reply>>
  <2>1. /\ work[j] \in WorkRow /\ task[j] \in TaskRow /\ memo[j] \in MemoRow
        /\ reply[j] \in ReplyRow /\ Own(j)
    BY DEF RInv, Typed
  <2>2. pc[j] = "point" /\ task[j].kind \in {"ingest", "import"}
    BY DEF UpsertPoint, Ready
  <2>3. /\ q \in Seq(Ids \X (Nat \ {0})) /\ q # <<>>
        /\ memo[j].n \in Nat /\ memo[j].n + Len(q) <= Cardinality(Ids)
        /\ Cardinality(Ids) \in Nat
    <3>1. Cardinality(Ids) \in Nat
      BY MarketAssumption, FS_CardinalityType
    <3> QED
      BY <2>1, <2>2, <3>1 DEF TaskRow, MemoRow, Own, Counting, AtWork
  <2>4. /\ Head(q) \in Ids \X (Nat \ {0}) /\ Tail(q) \in Seq(Ids \X (Nat \ {0}))
        /\ Len(Tail(q)) = Len(q) - 1 /\ Len(q) \in Nat /\ Len(q) > 0
        /\ Len(q) # 1 => Tail(q) # <<>>
    <3> DEFINE S == Ids \X (Nat \ {0})
    <3>1. q \in Seq(S) /\ q # <<>>
      BY <2>3
    <3> HIDE DEF q, S
    <3>2. /\ Head(q) \in S /\ Tail(q) \in Seq(S) /\ Len(Tail(q)) = Len(q) - 1
          /\ Len(q) \in Nat /\ Len(q) > 0
      BY <3>1
    <3>3. Len(q) # 1 => Tail(q) # <<>>
      BY <3>2
    <3> QED
      BY <3>2, <3>3, Zenon DEF S
  <2>5. i \in Ids /\ Head(q)[2] \in Nat
    BY <2>3, <2>4 DEF Target
  <2> DEFINE p == NextQuote(j)
  <2>6. Moves(j, p, t, m, w, reply[j])
    BY <1>1, <2>1 DEF Goto, Moves, RInv, Typed
  <2>7. /\ w.points = [work[j].points EXCEPT ![i] = Head(q)[2]]
        /\ w.keys = (IF inserts THEN work[j].keys \cup {i} ELSE work[j].keys)
        /\ w.series = work[j].series /\ w.quotes = work[j].quotes /\ w.etag = work[j].etag
        /\ w = [series |-> w.series, points |-> w.points, quotes |-> w.quotes,
                etag |-> w.etag, keys |-> w.keys]
    <3> HIDE DEF i, v, locked
    <3> DEFINE r == work[j]
    <3>1. DOMAIN r = {"series", "points", "quotes", "etag", "keys"}
      BY <2>1 DEF WorkRow
    <3> HIDE DEF r
    <3>2. /\ w.points = [r.points EXCEPT ![i] = v] /\ w.keys = locked
          /\ w.series = r.series /\ w.quotes = r.quotes /\ w.etag = r.etag
      BY <3>1 DEF r
    <3>3. w = [series |-> w.series, points |-> w.points, quotes |-> w.quotes,
               etag |-> w.etag, keys |-> w.keys]
      <4>1. /\ DOMAIN w = {"series", "points", "quotes", "etag", "keys"}
            /\ w = [x \in DOMAIN w |-> w[x]]
        BY <3>1 DEF r
      <4> HIDE DEF w
      <4> QED
        BY <4>1
    <3> QED
      BY <3>2, <3>3, Zenon DEF locked, v, r
  <2>8. /\ t.todo = Tail(q) /\ t.kind = task[j].kind /\ t.id = task[j].id /\ t.text = task[j].text
        /\ t = [kind |-> t.kind, todo |-> t.todo, id |-> t.id, text |-> t.text]
    <3> HIDE DEF rest
    <3>1. /\ t.todo = rest /\ t.kind = task[j].kind /\ t.id = task[j].id /\ t.text = task[j].text
          /\ t = [kind |-> t.kind, todo |-> t.todo, id |-> t.id, text |-> t.text]
      BY <2>1 DEF TaskRow
    <3> QED
      BY <3>1, Zenon DEF rest
  <2>9. m.n = memo[j].n + 1 /\ m.prior = memo[j].prior /\ m = [n |-> m.n, prior |-> m.prior]
    BY <2>1 DEF MemoRow
  <2>10. /\ pc'[j] = p /\ task'[j] = t /\ memo'[j] = m /\ work'[j] = w /\ reply'[j] = reply[j]
    BY <2>6, Moved DEF RInv
  <2>11. /\ p \in {"series", "point", "commit"}
         /\ p # "commit" => Len(q) # 1
    BY DEF NextQuote
  <2> HIDE DEF t, m, w, p, i, inserts
  <2>12. w \in WorkRow
    <3>1. w.points \in [Ids -> Nat \cup {Same}]
      BY <2>1, <2>5, <2>7 DEF WorkRow
    <3>2. w.keys \in SUBSET Ids
      BY <2>1, <2>5, <2>7 DEF WorkRow
    <3> QED
      BY <2>1, <2>7, <3>1, <3>2 DEF WorkRow
  <2>13. t \in TaskRow
    BY <2>1, <2>4, <2>8 DEF TaskRow
  <2>14. m \in MemoRow
    <3>1. m.n \in 0..Cardinality(Ids)
      <4> HIDE DEF q
      <4> QED
        BY <2>3, <2>4, <2>9
    <3>2. m.prior \in [Ids -> Nat]
      BY <2>1, <2>9 DEF MemoRow
    <3> QED
      BY <2>9, <3>1, <3>2 DEF MemoRow
  <2>15. Counting(j)'
    <3>1. reply[j].out = "none"
      BY <2>1, <2>2 DEF Own, Counting
    <3>2. m.n + Len(t.todo) <= Cardinality(Ids)
      BY <2>3, <2>4, <2>8, <2>9
    <3> QED
      BY <2>10, <2>11, <3>1, <3>2 DEF Counting
  <2>16. AtWork(j)' /\ Touching(j)' /\ Rebuilding(j)'
    <3>1. work[j].etag = "free" /\ \A k \in Ids : work[j].quotes[k] = Same
      BY <2>1, <2>2 DEF Own, Touching
    <3> QED
      BY <2>2, <2>4, <2>7, <2>8, <2>10, <2>11, <3>1 DEF AtWork, Touching, Rebuilding
  <2>17. p \in Steps
    BY <2>11 DEF Steps
  <2> QED
    BY <2>1, <2>6, <2>7, <2>12, <2>13, <2>14, <2>15, <2>16, <2>17, MoveKeeps DEF Own
<1> QED
  BY <1>0, <1>1 DEF UpsertPoint

\* An import keeps the quotes whose series it finds.
LEMMA ReadKnownOwns ==
    ASSUME RInv, NEW j \in Jobs, ReadKnown(j)
    PROVE  RInv'
<1> DEFINE q == task[j].todo
           I == {n \in 1..Len(q) : series[q[n][1]] # NoSeries}
           known == Picked(q, I)
           t == [task[j] EXCEPT !.todo = known]
           p == IF known = <<>> THEN "commit" ELSE "point"
<1>1. /\ work[j] \in WorkRow /\ task[j] \in TaskRow /\ memo[j] \in MemoRow
      /\ reply[j] \in ReplyRow /\ Own(j)
  BY DEF RInv, Typed
<1>2. pc[j] = "known" /\ task[j].kind = "import"
  BY DEF ReadKnown, Ready
<1>3. /\ q \in Seq(Ids \X (Nat \ {0})) /\ memo[j].n \in Nat
      /\ memo[j].n + Len(q) <= Cardinality(Ids) /\ Cardinality(Ids) \in Nat
  <2>1. Cardinality(Ids) \in Nat
    BY MarketAssumption, FS_CardinalityType
  <2> QED
    BY <1>1, <1>2, <2>1 DEF TaskRow, MemoRow, Own, Counting
<1>4. I \in SUBSET (1..Len(q)) /\ Len(q) \in Nat
  BY <1>3
<1>5. known \in Seq(Ids \X (Nat \ {0})) /\ Len(known) = Cardinality(I) /\ Cardinality(I) \in Nat
  <2> HIDE DEF q, I
  <2> QED
    BY <1>3, <1>4, PickedType
<1>6. Len(known) <= Len(q)
  <2>1. IsFiniteSet(1..Len(q)) /\ Cardinality(1..Len(q)) = Len(q)
    <3>1. \A l \in Nat : IsFiniteSet(1..l) /\ Cardinality(1..l) = l
      BY FS_Interval
    <3> QED
      BY <1>4, <3>1
  <2>2. Cardinality(I) <= Cardinality(1..Len(q))
    <3> HIDE DEF I
    <3> QED
      BY <1>4, <2>1, FS_Subset
  <2> QED
    BY <1>5, <2>1, <2>2
<1> HIDE DEF known, I
<1>7. Moves(j, p, t, memo[j], work[j], reply[j])
  BY DEF ReadKnown, Goto, Moves, RInv, Typed, known, I
<1>8. /\ t.todo = known /\ t.kind = task[j].kind /\ t.id = task[j].id /\ t.text = task[j].text
      /\ t = [kind |-> t.kind, todo |-> t.todo, id |-> t.id, text |-> t.text]
  BY <1>1 DEF TaskRow
<1>9. /\ pc'[j] = p /\ task'[j] = t /\ memo'[j] = memo[j] /\ work'[j] = work[j]
      /\ reply'[j] = reply[j]
  BY <1>7, Moved DEF RInv
<1>10. p \in {"point", "commit"} /\ (p = "point" => known # <<>>)
  OBVIOUS
<1> HIDE DEF t, p
<1>11. t \in TaskRow
  BY <1>1, <1>5, <1>8 DEF TaskRow
<1>12. Counting(j)'
  <2>1. reply[j].out = "none"
    BY <1>1, <1>2 DEF Own, Counting
  <2>2. memo[j].n + Len(t.todo) <= Cardinality(Ids)
    BY <1>3, <1>5, <1>6, <1>8
  <2> QED
    BY <1>9, <1>10, <2>1, <2>2 DEF Counting
<1>13. AtWork(j)' /\ Touching(j)' /\ Rebuilding(j)'
  <2>1. work[j].etag = "free" /\ \A k \in Ids : work[j].quotes[k] = Same
    BY <1>1, <1>2 DEF Own, Touching
  <2> QED
    BY <1>2, <1>8, <1>9, <1>10, <2>1 DEF AtWork, Touching, Rebuilding
<1>14. p \in Steps
  BY <1>10 DEF Steps
<1> QED
  BY <1>1, <1>7, <1>11, <1>12, <1>13, <1>14, MoveKeeps DEF Own

LEMMA DeletePointOwns ==
    ASSUME RInv, NEW j \in Jobs, DeletePoint(j)
    PROVE  RInv'
<1> DEFINE i == Target(j)
           n == IF Point(j, i) = 0 THEN 0 ELSE 1
           p == IF pc[j] = "points" THEN "series" ELSE "quotes"
           m == [memo[j] EXCEPT !.n = IF pc[j] = "points" THEN n ELSE @]
           w == [work[j] EXCEPT !.points[i] = IF n = 0 THEN @ ELSE 0]
<1>1. /\ work[j] \in WorkRow /\ task[j] \in TaskRow /\ memo[j] \in MemoRow
      /\ reply[j] \in ReplyRow /\ Own(j)
  BY DEF RInv, Typed
<1>2. pc[j] \in {"points", "cascade"} /\ task[j].kind = "delete"
  BY DEF DeletePoint, Ready
<1>3. i \in Ids /\ Cardinality(Ids) \in Nat /\ Cardinality(Ids) >= 1
  <2>1. i \in Ids
    BY <1>1, <1>2 DEF Own, AtWork, Target
  <2>2. Cardinality(Ids) \in Nat /\ (Cardinality(Ids) = 0 <=> Ids = {})
    BY MarketAssumption, FS_CardinalityType, FS_EmptySet
  <2> QED
    BY <2>1, <2>2
<1>4. Moves(j, p, task[j], m, w, reply[j])
  BY DEF DeletePoint, Goto, Moves, RInv, Typed
<1>5. /\ w.points = [work[j].points EXCEPT ![i] = IF n = 0 THEN @ ELSE 0]
      /\ w.keys = work[j].keys
      /\ w.series = work[j].series /\ w.quotes = work[j].quotes /\ w.etag = work[j].etag
      /\ w = [series |-> w.series, points |-> w.points, quotes |-> w.quotes,
              etag |-> w.etag, keys |-> w.keys]
  BY <1>1 DEF WorkRow
<1>6. /\ m.n = (IF pc[j] = "points" THEN n ELSE memo[j].n) /\ m.prior = memo[j].prior
      /\ m = [n |-> m.n, prior |-> m.prior]
  BY <1>1 DEF MemoRow
<1>7. n \in {0, 1} /\ p \in {"series", "quotes"}
  OBVIOUS
<1>8. /\ pc'[j] = p /\ task'[j] = task[j] /\ memo'[j] = m /\ work'[j] = w
      /\ reply'[j] = reply[j]
  BY <1>4, Moved DEF RInv
<1> HIDE DEF w, m, p, n, i
<1>9. m \in MemoRow
  <2>1. m.n \in 0..Cardinality(Ids)
    BY <1>1, <1>3, <1>6, <1>7 DEF MemoRow
  <2> QED
    BY <1>1, <1>6, <2>1 DEF MemoRow
<1>10. w.points \in [Ids -> Nat \cup {Same}] /\ \A k \in Ids : w.points[k] \in {0, Same}
  <2>1. /\ work[j].points \in [Ids -> Nat \cup {Same}]
        /\ \A k \in Ids : work[j].points[k] \in {0, Same}
    BY <1>1, <1>2 DEF WorkRow, Own, Touching
  <2>2. \A k \in Ids : w.points[k] \in {0, Same} /\ w.points[k] \in Nat \cup {Same}
    BY <1>5, <2>1
  <2>3. w.points = [k \in Ids |-> w.points[k]]
    BY <1>5, <2>1
  <2> QED
    BY <2>2, <2>3
<1>11. w \in WorkRow
  BY <1>1, <1>5, <1>10 DEF WorkRow
<1>12. Counting(j)' /\ AtWork(j)' /\ Touching(j)' /\ Rebuilding(j)'
  BY <1>1, <1>2, <1>5, <1>7, <1>8, <1>10 DEF Own, Counting, AtWork, Touching, Rebuilding
<1>13. p \in Steps
  BY <1>7 DEF Steps
<1> QED
  BY <1>1, <1>4, <1>5, <1>9, <1>11, <1>12, <1>13, MoveKeeps DEF Own

-----------------------------------------------------------------------------
(* Statements on the snapshot.                                             *)

LEMMA SnapOwns ==
    ASSUME RInv, NEW j \in Jobs, NEW p \in Steps \ {"idle", "point", "series"},
           NEW m \in MemoRow, NEW w, Moves(j, p, task[j], m, w, reply[j]),
           pc[j] # "idle", task[j].kind \in {"delete", "build"},
           w = [series |-> work[j].series, points |-> work[j].points,
                quotes |-> w.quotes, etag |-> w.etag, keys |-> w.keys],
           w.quotes \in [Ids -> Nat \cup {Same}], w.keys \in SUBSET Ids,
           w.etag \in {"free", "held", "new"},
           task[j].kind = "delete" => \A i \in Ids : w.quotes[i] \in {0, Same},
           task[j].kind = "build" => Rebuilding(j)',
           w.etag # "free" => \/ work[j].etag # "free"
                              \/ \A u \in Jobs \ {j} : work[u].etag = "free"
    PROVE  RInv'
<1>1. /\ work[j] \in WorkRow /\ task[j] \in TaskRow /\ memo[j] \in MemoRow
      /\ reply[j] \in ReplyRow /\ Own(j)
  BY DEF RInv, Typed
<1>2. /\ pc'[j] = p /\ task'[j] = task[j] /\ memo'[j] = m /\ work'[j] = w
      /\ reply'[j] = reply[j]
  BY Moved DEF RInv
<1>3. w.series = work[j].series /\ w.points = work[j].points
  OBVIOUS
<1>4. w \in WorkRow
  BY <1>1 DEF WorkRow
<1>5. Counting(j)' /\ AtWork(j)'
  BY <1>1, <1>2 DEF Own, Counting, AtWork
<1>6. Touching(j)'
  BY <1>1, <1>2, <1>3 DEF Own, Touching
<1>7. Rebuilding(j)'
  BY <1>2 DEF Rebuilding
<1>8. Own(j)'
  BY <1>5, <1>6, <1>7 DEF Own
<1> QED
  BY <1>1, <1>4, <1>8, MoveKeeps

LEMMA CascadeQuoteOwns ==
    ASSUME RInv, NEW j \in Jobs, CascadeQuote(j)
    PROVE  RInv'
<1> DEFINE i == Target(j)
           q == [work[j].quotes EXCEPT ![i] = IF snap.quotes[i] = 0 THEN @ ELSE 0]
           w == [work[j] EXCEPT !.quotes = q]
           p == IF snap.quotes[i] = 0 THEN "commit" ELSE "etag"
<1>1. work[j] \in WorkRow /\ memo[j] \in MemoRow /\ Own(j)
  BY DEF RInv, Typed
<1>2. pc[j] = "quotes" /\ task[j].kind = "delete"
  BY DEF CascadeQuote, Ready
<1>3. Moves(j, p, task[j], memo[j], w, reply[j])
  BY DEF CascadeQuote, Goto, Moves, RInv, Typed
<1>4. /\ work[j].quotes \in [Ids -> Nat \cup {Same}]
      /\ \A k \in Ids : work[j].quotes[k] \in {0, Same}
  BY <1>1, <1>2 DEF WorkRow, Own, Touching
<1>5. q \in [Ids -> Nat \cup {Same}] /\ \A k \in Ids : q[k] \in {0, Same}
  BY <1>4
<1>6. p \in Steps \ {"idle", "point", "series"}
  BY DEF Steps
<1> HIDE DEF q, p, i
<1>7. /\ w.quotes = q /\ w.etag = work[j].etag /\ w.keys = work[j].keys
      /\ w = [series |-> work[j].series, points |-> work[j].points,
              quotes |-> w.quotes, etag |-> w.etag, keys |-> w.keys]
  BY <1>1 DEF WorkRow
<1>8. w.keys \in SUBSET Ids /\ w.etag \in {"free", "held", "new"}
  BY <1>1, <1>7 DEF WorkRow
<1> HIDE DEF w
<1> QED
  BY <1>1, <1>2, <1>3, <1>5, <1>6, <1>7, <1>8, SnapOwns

\* Taking the snapshot's row, once nobody else holds it.
LEMMA EtagOwns ==
    ASSUME IInv, RInv, NEW j \in Jobs, BumpEtag(j) \/ LockSnapshot(j)
    PROVE  RInv'
<1> DEFINE e == IF BumpEtag(j) \/ snap.etag = 0 THEN "new" ELSE "held"
           w == [work[j] EXCEPT !.etag = e]
           p == IF pc[j] = "etag" THEN "commit" ELSE "prior"
<1>1. work[j] \in WorkRow /\ memo[j] \in MemoRow /\ Own(j)
  BY DEF RInv, Typed
<1>2. /\ \/ pc[j] = "etag" /\ task[j].kind = "delete"
         \/ pc[j] = "lock" /\ task[j].kind = "build"
      /\ BumpEtag(j) <=> pc[j] = "etag"
      /\ \A u \in Jobs \ {j} : work[u].etag = "free"
  BY DEF BumpEtag, LockSnapshot, Ready, Blockers, Blocks
<1>3. work' = [work EXCEPT ![j] = w] /\ Goto(j, p) /\ UNCHANGED <<store, task, memo, reply>>
  <2>1. CASE BumpEtag(j)
    BY <1>2, <2>1 DEF BumpEtag
  <2>2. CASE ~BumpEtag(j)
    BY <1>2, <2>2 DEF LockSnapshot
  <2> QED
    BY <2>1, <2>2
<1>4. Moves(j, p, task[j], memo[j], w, reply[j])
  BY <1>3 DEF Goto, Moves, RInv, Typed
<1>5. e \in {"new", "held"}
  OBVIOUS
<1> HIDE DEF e
<1>6. /\ w.quotes = work[j].quotes /\ w.etag = e /\ w.keys = work[j].keys
      /\ w = [series |-> work[j].series, points |-> work[j].points,
              quotes |-> w.quotes, etag |-> w.etag, keys |-> w.keys]
  BY <1>1 DEF WorkRow
<1>7. w.quotes \in [Ids -> Nat \cup {Same}] /\ w.keys \in SUBSET Ids
  BY <1>1, <1>6 DEF WorkRow
<1>8. /\ pc'[j] = p /\ task'[j] = task[j] /\ work'[j] = w
  BY <1>4, Moved DEF RInv
<1>9. /\ p \in Steps \ {"idle", "point", "series"}
      /\ task[j].kind = "build" => p = "prior"
  BY <1>2 DEF Steps
<1> HIDE DEF w, p
<1>10. task[j].kind = "delete" => \A i \in Ids : w.quotes[i] \in {0, Same}
  BY <1>1, <1>6 DEF Own, Touching
<1>11. task[j].kind = "build" => Rebuilding(j)'
  <2> SUFFICES ASSUME task[j].kind = "build" PROVE Rebuilding(j)'
    OBVIOUS
  <2>1. work[j] = NoWork
    BY <1>2 DEF IInv, Local, Holding
  <2>2. \A i \in Ids : w.quotes[i] = Same
    BY <1>6, <2>1 DEF NoWork
  <2> QED
    BY <1>5, <1>6, <1>8, <1>9, <2>2 DEF Rebuilding
<1> QED
  BY <1>1, <1>2, <1>4, <1>5, <1>6, <1>7, <1>9, <1>10, <1>11, SnapOwns

LEMMA ReadPriorOwns ==
    ASSUME RInv, NEW j \in Jobs, ReadPrior(j)
    PROVE  RInv'
<1> DEFINE m == [memo[j] EXCEPT !.prior = snap.quotes]
<1>1. work[j] \in WorkRow /\ memo[j] \in MemoRow /\ Own(j) /\ snap.quotes \in [Ids -> Nat]
  BY DEF RInv, Typed
<1>2. pc[j] = "prior" /\ task[j].kind = "build"
  BY DEF ReadPrior, Ready
<1>3. Moves(j, "clear", task[j], m, work[j], reply[j])
  BY DEF ReadPrior, Goto, Moves, RInv, Typed
<1>4. m.prior = snap.quotes /\ m \in MemoRow
  BY <1>1 DEF MemoRow
<1>5. /\ pc'[j] = "clear" /\ task'[j] = task[j] /\ work'[j] = work[j] /\ memo'[j] = m
      /\ snap' = snap
  <2>1. snap' = snap
    BY <1>3 DEF Moves, store
  <2> QED
    BY <1>3, <2>1, Moved DEF RInv
<1> HIDE DEF m
<1>6. Rebuilding(j)'
  BY <1>1, <1>2, <1>4, <1>5 DEF Own, Rebuilding
<1>7. /\ work[j] = [series |-> work[j].series, points |-> work[j].points,
                    quotes |-> work[j].quotes, etag |-> work[j].etag, keys |-> work[j].keys]
      /\ work[j].quotes \in [Ids -> Nat \cup {Same}] /\ work[j].keys \in SUBSET Ids
      /\ work[j].etag \in {"free", "held", "new"}
  BY <1>1 DEF WorkRow
<1>8. "clear" \in Steps \ {"idle", "point", "series"}
  BY DEF Steps
<1> QED
  BY <1>1, <1>2, <1>3, <1>4, <1>6, <1>7, <1>8, SnapOwns

LEMMA AffectOwns ==
    ASSUME RInv, NEW j \in Jobs, NEW rows \in SUBSET Ids, NEW value \in [Ids -> Nat],
           NEW step \in {"fill", "check"}, Affect(j, rows, value, step),
           task[j].kind = "build", pc[j] \in {"clear", "fill"},
           LET q(i) == IF i \in rows THEN value[i] ELSE work[j].quotes[i]
           IN  \A i \in Ids : /\ q(i) = Same => snap.quotes[i] = 0
                              /\ step = "fill" => q(i) \in {0, Same}
    PROVE  RInv'
<1> DEFINE q == [i \in Ids |-> IF i \in rows THEN value[i] ELSE work[j].quotes[i]]
           e == IF rows = {} THEN work[j].etag ELSE "new"
           w == [work[j] EXCEPT !.quotes = q, !.etag = e]
<1>1. work[j] \in WorkRow /\ memo[j] \in MemoRow /\ Own(j)
  BY DEF RInv, Typed
<1>2. Moves(j, step, task[j], memo[j], w, reply[j])
  BY DEF Affect, Goto, Moves, RInv, Typed
<1>3. /\ q \in [Ids -> Nat \cup {Same}]
      /\ \A i \in Ids : q[i] = Same => snap.quotes[i] = 0
      /\ step = "fill" => \A i \in Ids : q[i] \in {0, Same}
  <2>1. work[j].quotes \in [Ids -> Nat \cup {Same}]
    BY <1>1 DEF WorkRow
  <2>2. \A i \in Ids : q[i] \in Nat \cup {Same}
    BY <2>1
  <2> QED
    BY <2>2
<1>4. work[j].etag # "free" /\ memo[j].prior = snap.quotes
  BY <1>1 DEF Own, Rebuilding
<1>5. e # "free" /\ e \in {"free", "held", "new"}
  BY <1>1, <1>4 DEF WorkRow
<1> HIDE DEF q, e
<1>6. w.quotes = q /\ w.etag = e /\ w.keys = work[j].keys
  BY <1>1 DEF WorkRow
<1>7. w = [series |-> work[j].series, points |-> work[j].points,
           quotes |-> w.quotes, etag |-> w.etag, keys |-> w.keys]
  <2>1. /\ DOMAIN w = {"series", "points", "quotes", "etag", "keys"}
        /\ w = [x \in DOMAIN w |-> w[x]]
        /\ w.series = work[j].series /\ w.points = work[j].points
    BY <1>1 DEF WorkRow
  <2> HIDE DEF w
  <2> QED
    BY <2>1
<1>8. w.keys \in SUBSET Ids
  BY <1>1, <1>6 DEF WorkRow
<1>9. /\ pc'[j] = step /\ task'[j] = task[j] /\ work'[j] = w /\ memo'[j] = memo[j]
      /\ snap' = snap
  <2>1. snap' = snap
    BY <1>2 DEF Moves, store
  <2> QED
    BY <1>2, <2>1, Moved DEF RInv
<1> HIDE DEF w
<1>10. Rebuilding(j)'
  BY <1>3, <1>4, <1>5, <1>6, <1>9 DEF Rebuilding
<1>11. step \in Steps \ {"idle", "point", "series"}
  BY DEF Steps
<1> QED
  BY <1>1, <1>2, <1>3, <1>4, <1>5, <1>6, <1>7, <1>8, <1>10, <1>11, SnapOwns

LEMMA RebuildOwns ==
    ASSUME RInv, NEW j \in Jobs, ClearSnapshot(j) \/ FillSnapshot(j)
    PROVE  RInv'
<1>1. /\ Own(j) /\ snap.quotes \in [Ids -> Nat] /\ points \in [Ids -> Nat]
      /\ Same \notin Nat
  BY MarketAssumption DEF RInv, Typed
<1>2. CASE ClearSnapshot(j)
  <2> DEFINE zero == [i \in Ids |-> 0]
             rows == Listed(snap.quotes)
  <2>1. pc[j] = "clear" /\ task[j].kind = "build" /\ Affect(j, rows, zero, "fill")
    BY <1>2 DEF ClearSnapshot, Ready
  <2>2. \A i \in Ids : work[j].quotes[i] = Same
    BY <1>1, <2>1 DEF Own, Rebuilding
  <2>3. rows \in SUBSET Ids /\ \A i \in Ids \ rows : snap.quotes[i] = 0
    BY <1>1 DEF Listed
  <2>4. zero \in [Ids -> Nat] /\ \A i \in Ids : zero[i] = 0
    OBVIOUS
  <2> HIDE DEF zero, rows
  <2> QED
    BY <1>1, <2>1, <2>2, <2>3, <2>4, AffectOwns
<1>3. CASE FillSnapshot(j)
  <2> DEFINE rows == Listed(points)
  <2>1. pc[j] = "fill" /\ task[j].kind = "build" /\ Affect(j, rows, points, "check")
    BY <1>3 DEF FillSnapshot, Ready
  <2>2. \A i \in Ids : work[j].quotes[i] = Same => snap.quotes[i] = 0
    BY <1>1, <2>1 DEF Own, Rebuilding
  <2>3. rows \in SUBSET Ids /\ \A i \in rows : points[i] # Same
    BY <1>1 DEF Listed
  <2> HIDE DEF rows
  <2> QED
    BY <1>1, <2>1, <2>2, <2>3, AffectOwns
<1> QED
  BY <1>2, <1>3

\* What it counts is how the snapshot will differ.
LEMMA CheckKeysOwns ==
    ASSUME RInv, NEW j \in Jobs, CheckKeys(j)
    PROVE  RInv'
<1> DEFINE new == [i \in Ids |-> Now(work[j].quotes[i], 0)]
           n == Changed(memo[j].prior, new)
           m == [memo[j] EXCEPT !.n = n]
           w == [work[j] EXCEPT !.keys = Listed(new)]
<1>0. CASE Abandon(j, "error")
  BY <1>0, AbandonOwns DEF Outs
<1>1. CASE /\ work' = [work EXCEPT ![j].keys = Listed(new)]
           /\ memo' = [memo EXCEPT ![j].n = n]
           /\ Goto(j, "commit")
           /\ UNCHANGED <<store, task, reply>>
  <2>1. work[j] \in WorkRow /\ memo[j] \in MemoRow /\ Own(j) /\ snap.quotes \in [Ids -> Nat]
    BY DEF RInv, Typed
  <2>2. pc[j] = "check" /\ task[j].kind = "build"
    BY DEF CheckKeys, Ready
  <2>3. Moves(j, "commit", task[j], m, w, reply[j])
    BY <1>1 DEF Goto, Moves, RInv, Typed
  <2>4. n \in 0..Cardinality(Ids)
    <3> DEFINE D == {i \in Ids : memo[j].prior[i] # new[i]}
    <3>1. D \subseteq Ids /\ IsFiniteSet(Ids)
      BY MarketAssumption
    <3> HIDE DEF D
    <3>2. Cardinality(D) <= Cardinality(Ids) /\ Cardinality(D) \in Nat /\ Cardinality(Ids) \in Nat
      BY <3>1, FS_Subset, FS_CardinalityType
    <3> QED
      BY <3>2 DEF Changed, D
  <2>5. /\ memo[j].prior = snap.quotes /\ work[j].etag # "free"
        /\ \A i \in Ids : work[j].quotes[i] = Same => snap.quotes[i] = 0
    BY <2>1, <2>2 DEF Own, Rebuilding
  <2>6. n = Changed(snap.quotes, Replaced(j))
    <3>1. new = Replaced(j)
      BY <2>5 DEF Replaced, Now
    <3> QED
      BY <2>5, <3>1
  <2>7. Listed(new) \in SUBSET Ids
    BY DEF Listed
  <2> HIDE DEF new, n
  <2>8. m.n = n /\ m \in MemoRow
    BY <2>1, <2>4 DEF MemoRow
  <2>9. /\ w.quotes = work[j].quotes /\ w.etag = work[j].etag /\ w.keys = Listed(new)
        /\ w = [series |-> work[j].series, points |-> work[j].points,
                quotes |-> w.quotes, etag |-> w.etag, keys |-> w.keys]
    BY <2>1 DEF WorkRow
  <2>10. w.quotes \in [Ids -> Nat \cup {Same}] /\ w.etag \in {"free", "held", "new"}
    BY <2>1, <2>9 DEF WorkRow
  <2>11. /\ pc'[j] = "commit" /\ task'[j] = task[j] /\ work'[j] = w /\ memo'[j] = m
         /\ snap' = snap
    <3>1. snap' = snap
      BY <2>3 DEF Moves, store
    <3> QED
      BY <2>3, <3>1, Moved DEF RInv
  <2> HIDE DEF w, m
  <2>12. Replaced(j)' = Replaced(j)
    BY <2>9, <2>11 DEF Replaced
  <2>13. Rebuilding(j)'
    BY <2>5, <2>6, <2>8, <2>9, <2>11, <2>12 DEF Rebuilding
  <2>14. "commit" \in Steps \ {"idle", "point", "series"}
    BY DEF Steps
  <2> QED
    BY <2>1, <2>2, <2>3, <2>5, <2>7, <2>8, <2>9, <2>10, <2>13, <2>14, SnapOwns
<1> QED
  BY <1>0, <1>1 DEF CheckKeys

-----------------------------------------------------------------------------
(* The commit.                                                             *)

\* What CommitIs leaves out.
LEMMA CommitReplies ==
    ASSUME RInv, NEW j \in Jobs, Commit(j)
    PROVE  /\ memo'[j] = NoMemo
           /\ \E out \in {"ok", "lost"} : reply'[j] = [out |-> out, n |-> memo[j].n]
           /\ \A u \in Jobs \ {j} : memo'[u] = memo[u] /\ reply'[u] = reply[u]
           /\ pc' \in [Jobs -> Steps] /\ task' \in [Jobs -> TaskRow] /\ memo' \in [Jobs -> MemoRow]
           /\ work' \in [Jobs -> WorkRow] /\ reply' \in [Jobs -> ReplyRow]
<1>1. Cardinality(Ids) \in Nat
  BY MarketAssumption, FS_CardinalityType
<1>2. NoTask \in TaskRow /\ NoMemo \in MemoRow /\ NoWork \in WorkRow /\ "idle" \in Steps
  BY <1>1 DEF NoTask, TaskRow, NoMemo, MemoRow, NoWork, WorkRow, Steps
<1>3. memo[j].n \in 0..Cardinality(Ids)
  BY DEF RInv, Typed, MemoRow
<1>4. PICK out \in {"ok", "lost"} : End(j, out, memo[j].n)
  BY DEF Commit
<1>5. [out |-> out, n |-> memo[j].n] \in ReplyRow
  BY <1>3 DEF ReplyRow, Outs
<1>6. /\ pc' = [pc EXCEPT ![j] = "idle"] /\ task' = [task EXCEPT ![j] = NoTask]
      /\ memo' = [memo EXCEPT ![j] = NoMemo] /\ work' = [work EXCEPT ![j] = NoWork]
      /\ reply' = [reply EXCEPT ![j] = [out |-> out, n |-> memo[j].n]]
  BY <1>4 DEF End, Goto
<1>7. /\ pc \in [Jobs -> Steps] /\ task \in [Jobs -> TaskRow] /\ memo \in [Jobs -> MemoRow]
      /\ work \in [Jobs -> WorkRow] /\ reply \in [Jobs -> ReplyRow]
  BY DEF RInv, Typed
<1> QED
  BY <1>2, <1>5, <1>6, <1>7

\* Nobody else changes the snapshot while a rebuild holds its row.
LEMMA RowIsHeld ==
    ASSUME IInv, RInv, NEW j \in Jobs, Committed(j), NEW u \in Jobs \ {j}, work[u].etag # "free"
    PROVE  snap'.quotes = snap.quotes
<1>1. work[j].etag = "free"
  BY DEF RInv, Sole
<1>2. \A i \in Ids : work[j].quotes[i] = Same
  BY <1>1 DEF IInv, Local, Renewing, Committed
<1>3. \A i \in Ids : snap'.quotes[i] = snap.quotes[i]
  BY <1>2 DEF Committed, Now
<1>4. [i \in Ids |-> snap'.quotes[i]] = [i \in Ids |-> snap.quotes[i]]
  BY <1>3
<1> QED
  BY <1>4 DEF Committed, IInv, Shaped

LEMMA CommitOwns ==
    ASSUME IInv, IInv', RInv, NEW j \in Jobs, Commit(j)
    PROVE  RInv'
<1>1. Committed(j)
  BY CommitIs
<1>2. /\ pc'[j] = "idle" /\ task'[j] = NoTask /\ work'[j] = NoWork /\ memo'[j] = NoMemo
      /\ \A u \in Jobs \ {j} : /\ pc'[u] = pc[u] /\ task'[u] = task[u] /\ work'[u] = work[u]
                               /\ memo'[u] = memo[u] /\ reply'[u] = reply[u]
  BY <1>1, CommitReplies DEF Committed, Others
<1>3. Typed'
  <2>1. /\ points \in [Ids -> Nat] /\ snap.quotes \in [Ids -> Nat] /\ snap.etag \in Nat
        /\ work[j].points \in [Ids -> Nat \cup {Same}] /\ work[j].quotes \in [Ids -> Nat \cup {Same}]
    BY DEF RInv, Typed, WorkRow
  <2>2. points' = [i \in Ids |-> Now(work[j].points[i], points[i])]
        /\ snap' = [etag |-> IF work[j].etag = "new" THEN snap.etag + 1 ELSE snap.etag,
                    quotes |-> [i \in Ids |-> Now(work[j].quotes[i], snap.quotes[i])]]
    BY DEF Commit
  <2>3. \A i \in Ids : /\ Now(work[j].points[i], points[i]) \in Nat
                       /\ Now(work[j].quotes[i], snap.quotes[i]) \in Nat
    BY <2>1 DEF Now
  <2>4. points' \in [Ids -> Nat] /\ snap' \in [etag : Nat, quotes : [Ids -> Nat]]
    BY <2>1, <2>2, <2>3
  <2>5. series' \in [Ids -> Descriptions \cup {NoSeries}]
    BY DEF IInv, Shaped
  <2>6. /\ pc' \in [Jobs -> Steps] /\ task' \in [Jobs -> TaskRow] /\ memo' \in [Jobs -> MemoRow]
        /\ work' \in [Jobs -> WorkRow] /\ reply' \in [Jobs -> ReplyRow]
    BY CommitReplies
  <2> QED
    BY <2>4, <2>5, <2>6, Zenon DEF Typed, TaskRow, MemoRow, WorkRow, ReplyRow
<1>4. Own(j)'
  <2>1. Counting(j)' /\ AtWork(j)' /\ Touching(j)' /\ Rebuilding(j)'
    BY <1>2 DEF Counting, AtWork, Touching, Rebuilding, NoTask, NoWork, NoMemo
  <2> QED
    BY <2>1 DEF Own
<1>5. ASSUME NEW u \in Jobs \ {j} PROVE Own(u)'
  <2>1. Own(u)
    BY DEF RInv
  <2>2. Counting(u)' /\ AtWork(u)' /\ Touching(u)'
    BY <1>2, <2>1 DEF Own, Counting, AtWork, Touching, NoMemo
  <2>3. Rebuilding(u)'
    <3> SUFFICES ASSUME task[u].kind = "build" PROVE Rebuilding(u)'
      BY <1>2 DEF Rebuilding
    <3>1. CASE pc[u] = "lock"
      BY <1>2, <3>1 DEF Rebuilding
    <3>2. CASE pc[u] # "lock"
      <4>1. snap'.quotes = snap.quotes
        BY <1>1, <2>1, <3>2, RowIsHeld DEF Own, Rebuilding
      <4>2. Replaced(u)' = Replaced(u)
        BY <1>2, <4>1 DEF Replaced
      <4> QED
        BY <1>2, <2>1, <4>1, <4>2 DEF Own, Rebuilding
    <3> QED
      BY <3>1, <3>2
  <2> QED
    BY <2>2, <2>3 DEF Own
<1>6. ASSUME NEW u \in Jobs, NEW v \in Jobs, u # v PROVE Sole(u, v)'
  BY <1>2, <1>6 DEF RInv, Sole, NoWork
<1> QED
  BY <1>3, <1>4, <1>5, <1>6 DEF RInv

LEMMA InitRInv == Init => RInv
<1> SUFFICES ASSUME Init PROVE RInv
  OBVIOUS
<1>1. Cardinality(Ids) \in Nat
  BY MarketAssumption, FS_CardinalityType
<1>2. /\ NoTask \in TaskRow /\ NoMemo \in MemoRow /\ NoWork \in WorkRow /\ "idle" \in Steps
      /\ [out |-> "none", n |-> 0] \in ReplyRow
  BY <1>1 DEF NoTask, TaskRow, NoMemo, MemoRow, NoWork, WorkRow, Steps, ReplyRow, Outs
<1>3. /\ pc \in [Jobs -> Steps] /\ task \in [Jobs -> TaskRow] /\ memo \in [Jobs -> MemoRow]
      /\ work \in [Jobs -> WorkRow] /\ reply \in [Jobs -> ReplyRow]
  BY <1>2, Zenon DEF Init
<1>4. /\ series \in [Ids -> Descriptions \cup {NoSeries}] /\ points \in [Ids -> Nat]
      /\ snap \in [etag : Nat, quotes : [Ids -> Nat]]
  BY DEF Init
<1>5. Typed
  BY <1>3, <1>4 DEF Typed
<1>6. \A j \in Jobs : Own(j)
  BY DEF Init, Own, Counting, AtWork, Touching, Rebuilding, NoTask, NoWork, NoMemo
<1>7. \A j, u \in Jobs : Sole(j, u)
  BY DEF Init, Sole, NoWork
<1> QED
  BY <1>5, <1>6, <1>7 DEF RInv

LEMMA NextRInv == IInv /\ IInv' /\ RInv /\ [Next]_vars => RInv'
<1> SUFFICES ASSUME IInv, IInv', RInv, [Next]_vars PROVE RInv'
  OBVIOUS
<1>1. CASE UNCHANGED vars
  <2>1. Typed' /\ \A u, v \in Jobs : u # v => Sole(u, v)'
    BY <1>1 DEF vars, RInv, Typed, TaskRow, MemoRow, WorkRow, ReplyRow, Sole
  <2>2. ASSUME NEW u \in Jobs PROVE Own(u)'
    <3>1. Own(u)
      BY DEF RInv
    <3> QED
      BY <1>1, <3>1 DEF vars, Own, Counting, AtWork, Touching, Rebuilding, Replaced
  <2> QED
    BY <2>1, <2>2 DEF RInv
<1>2. ASSUME NEW j \in Jobs, Arrive(j) \/ Statement(j) \/ Crash(j) \/ DeadlockAbort(j)
      PROVE  RInv'
  <2>1. CASE Arrive(j)
    BY <2>1, ArriveOwns
  <2>2. CASE Crash(j) \/ DeadlockAbort(j)
    BY <2>2, AbandonOwns DEF Crash, DeadlockAbort, Outs
  <2>3. CASE UpsertSeries(j) \/ CreateSeries(j) \/ DescribeSeries(j) \/ DropSeries(j)
    BY <2>3, SeriesOwns
  <2>4. CASE ReadKnown(j) \/ UpsertPoint(j) \/ DeletePoint(j)
    BY <2>4, ReadKnownOwns, UpsertPointOwns, DeletePointOwns
  <2>5. CASE CascadeQuote(j) \/ BumpEtag(j) \/ LockSnapshot(j) \/ ReadPrior(j)
    BY <2>5, CascadeQuoteOwns, EtagOwns, ReadPriorOwns
  <2>6. CASE ClearSnapshot(j) \/ FillSnapshot(j) \/ CheckKeys(j)
    BY <2>6, RebuildOwns, CheckKeysOwns
  <2>7. CASE Commit(j)
    BY <2>7, CommitOwns
  <2> QED
    BY <1>2, <2>1, <2>2, <2>3, <2>4, <2>5, <2>6, <2>7 DEF Statement
<1> QED
  BY <1>1, <1>2 DEF Next

LEMMA Holds == Spec => [](IInv /\ RInv)
<1>1. IInv /\ RInv /\ [Next]_vars => (IInv /\ RInv)'
  BY NextIInv, NextRInv
<1> QED
  BY <1>1, InitIInv, InitRInv, PTL DEF Spec

\* The rows of schema md and what a job holds are well formed, no job counts more quotes
\* than there are series, and a slot between jobs holds no lock.
THEOREM TypeCorrect == Spec => []TypeOK
<1>1. IInv /\ RInv => TypeOK
  <2> SUFFICES ASSUME IInv, RInv PROVE TypeOK
    OBVIOUS
  <2>1. \A j \in Jobs : pc[j] = "idle" => work[j] = NoWork
    BY DEF IInv, Local, Holding
  <2>2. task \in [Jobs -> [kind : AllKinds \cup {"none"}, todo : Seq(Ids \X Nat),
                           id : Ids \cup {NoSeries}, text : Texts \cup {Blank}]]
    <3> DEFINE Loose == [kind : AllKinds \cup {"none"}, todo : Seq(Ids \X Nat),
                         id : Ids \cup {NoSeries}, text : Texts \cup {Blank}]
    <3>1. ASSUME NEW t \in TaskRow PROVE t \in Loose
      <4>1. t.todo \in Seq(Ids \X Nat)
        <5>1. t.todo \in Seq(Ids \X (Nat \ {0}))
          BY DEF TaskRow
        <5>2. \A n \in 1..Len(t.todo) : t.todo[n] \in Ids \X Nat
          BY <5>1
        <5> QED
          BY <5>1, <5>2
      <4> QED
        BY <4>1 DEF TaskRow
    <3>2. task \in [Jobs -> TaskRow]
      BY DEF RInv, Typed
    <3> HIDE DEF Loose
    <3>3. task \in [Jobs -> Loose]
      BY <3>1, <3>2
    <3> QED
      BY <3>3 DEF Loose
  <2> QED
    BY <2>1, <2>2 DEF RInv, Typed, TypeOK, MemoRow, WorkRow, ReplyRow
<1> QED
  BY <1>1, Holds, PTL

\* build_snapshot compares against a snapshot it read several statements before: the row
\* lock it took first keeps that one in place until its commit replaces it.
THEOREM ReportsAreExact == Spec => QuotesChangedExact
<1>1. IInv /\ RInv /\ [Next]_vars =>
        [\A j \in Jobs : task[j].kind = "build" /\ pc[j] = "commit" /\ reply'[j].out = "ok" =>
            reply'[j].n = Changed(snap.quotes, snap'.quotes)]_vars
  <2> SUFFICES ASSUME IInv, RInv, [Next]_vars, NEW j \in Jobs,
                      task[j].kind = "build", pc[j] = "commit", reply'[j].out = "ok"
               PROVE  reply'[j].n = Changed(snap.quotes, snap'.quotes)
    OBVIOUS
  <2>1. reply[j].out = "none" /\ Own(j)
    BY DEF RInv, Own, Counting
  <2>2. reply'[j] # reply[j]
    BY <2>1
  <2>3. PICK u \in Jobs : Arrive(u) \/ Statement(u) \/ Crash(u) \/ DeadlockAbort(u)
    BY <2>2 DEF Next, vars
  <2>4. u = j /\ Commit(j)
    <3>1. ASSUME Commit(u) PROVE u = j
      BY <2>2, <3>1, CommitReplies
    <3>2. ASSUME NEW out \in Outs \ {"ok"}, Abandon(u, out) PROVE FALSE
      BY <2>2, <3>2 DEF Abandon, End, RInv, Typed
    <3>3. ~Crash(u) /\ ~DeadlockAbort(u)
      BY <3>2 DEF Crash, DeadlockAbort, Outs
    <3>4. ~Arrive(u)
      BY <2>2 DEF Arrive, RInv, Typed
    <3>5. ASSUME Statement(u), ~Commit(u) PROVE FALSE
      <4>1. CASE reply' = reply
        BY <2>2, <4>1
      <4>2. ASSUME \A out \in Outs \ {"ok"} : ~Abandon(u, out) PROVE reply' = reply
        BY <3>5, <4>2 DEF Statement, UpsertSeries, CreateSeries, DescribeSeries, DropSeries,
              WriteSeries, ReadKnown, UpsertPoint, DeletePoint, CascadeQuote, BumpEtag,
              LockSnapshot, ReadPrior, ClearSnapshot, FillSnapshot, Affect, CheckKeys, Outs
      <4> QED
        BY <3>2, <4>1, <4>2
    <3> QED
      BY <2>3, <3>1, <3>3, <3>4, <3>5
  <2>5. reply'[j].n = memo[j].n
    <3>1. \E out \in {"ok", "lost"} : reply'[j] = [out |-> out, n |-> memo[j].n]
      BY <2>4, CommitReplies
    <3> QED
      BY <3>1
  <2>6. memo[j].n = Changed(snap.quotes, Replaced(j))
    BY <2>1 DEF Own, Rebuilding
  <2>7. snap'.quotes = Replaced(j)
    BY <2>4 DEF Commit, Replaced
  <2> QED
    BY <2>5, <2>6, <2>7
<1> QED
  BY <1>1, Holds, PTL DEF Spec, QuotesChangedExact

-----------------------------------------------------------------------------
(* III. Whole batches.                                                     *)

\* The rows that hold a quote hold the same one.
OneValue(q) == \A i, k \in Ids : q[i] \notin {0, Same} /\ q[k] \notin {0, Same} => q[i] = q[k]

\* An ingest run has written its batch's value, or still has to, everywhere.
CarryingOf(j, v) ==
    /\ \A n \in 1..Len(task[j].todo) : task[j].todo[n][1] \in Covered /\ task[j].todo[n][2] = v
    /\ \A i \in Ids : work[j].points[i] # Same => i \in Covered /\ work[j].points[i] = v
    /\ \A i \in Covered :
          work[j].points[i] = v \/ \E n \in 1..Len(task[j].todo) : task[j].todo[n][1] = i
    /\ pc[j] = "commit" => task[j].todo = <<>>

Carrying(j) == task[j].kind = "ingest" => \E v \in Nat \ {0} : CarryingOf(j, v)

Part(j) == Carrying(j) /\ OneValue(work[j].quotes) /\ task[j].kind # "import"

WInv == /\ \A j \in Jobs : Part(j)
        /\ \A i \in Ids : points[i] # 0 => i \in Covered
        /\ OneValue(points) /\ OneValue(snap.quotes)

LEMMA PartKept ==
    ASSUME WInv, NEW j \in Jobs, Others(j), UNCHANGED store, Part(j)'
    PROVE  WInv'
<1>1. ASSUME NEW u \in Jobs \ {j} PROVE Part(u)'
  <2>1. Part(u) /\ pc'[u] = pc[u] /\ task'[u] = task[u] /\ work'[u] = work[u]
    BY DEF WInv, Others
  <2>2. \A v : CarryingOf(u, v) => CarryingOf(u, v)'
    BY <2>1 DEF CarryingOf
  <2> QED
    BY <2>1, <2>2 DEF Part, Carrying, OneValue
<1>2. points' = points /\ snap' = snap
  BY DEF store
<1> QED
  BY <1>1, <1>2 DEF WInv, OneValue

LEMMA AbandonParts ==
    ASSUME RInv, WInv, NEW j \in Jobs, NEW out, Abandon(j, out)
    PROVE  WInv'
<1>1. UNCHANGED store /\ Others(j) /\ task'[j] = NoTask /\ work'[j] = NoWork
  BY DEF Abandon, End, Goto, RInv, Typed, Others
<1>2. Part(j)'
  BY <1>1 DEF Part, Carrying, OneValue, NoTask, NoWork
<1> QED
  BY <1>1, <1>2, PartKept

\* Each batch carries one value, and a quote for every series any batch names.
LEMMA ArriveParts ==
    ASSUME Uniform, IInv, RInv, WInv, NEW j \in Jobs, Arrive(j)
    PROVE  WInv'
<1>1. PICK t \in Tasks : task' = [task EXCEPT ![j] = t] /\ pc' = [pc EXCEPT ![j] = FirstStep[t.kind]]
  BY DEF Arrive, Goto
<1>2. /\ UNCHANGED store /\ Others(j) /\ task'[j] = t /\ pc'[j] = FirstStep[t.kind]
      /\ work'[j] = NoWork
  <2>1. pc[j] = "idle" /\ UNCHANGED <<store, work>>
    BY DEF Arrive
  <2>2. work[j] = NoWork
    BY <2>1 DEF IInv, Local, Holding
  <2> QED
    BY <1>1, <2>1, <2>2 DEF RInv, Typed, Others
<1>3. t.kind # "import" /\ (t.kind = "ingest" => t.todo \in Batches)
  BY DEF Tasks, Uniform
<1>4. (\A i \in Ids : NoWork.points[i] = Same /\ NoWork.quotes[i] = Same)
  BY DEF NoWork
<1>5. ASSUME t.kind = "ingest" PROVE \E v \in Nat \ {0} : CarryingOf(j, v)'
  <2> DEFINE q == t.todo
             v == q[1][2]
  <2>1. q \in Batches /\ q \in Seq(Ids \X (Nat \ {0})) /\ q # <<>>
    BY <1>3, <1>5, BatchFits
  <2>2. 1 \in 1..Len(q) /\ DOMAIN q = 1..Len(q) /\ Len(q) \in Nat
    BY <2>1
  <2>3. v \in Nat \ {0}
    BY <2>1, <2>2
  <2>4. \A n \in 1..Len(q) : q[n][1] \in Covered /\ q[n][2] = v
    BY <2>1, <2>2 DEF Covered, Uniform
  <2>5. \A i \in Covered : \E n \in 1..Len(q) : q[n][1] = i
    BY <2>1, <2>2 DEF Uniform
  <2>6. FirstStep[t.kind] # "commit"
    BY <1>5 DEF FirstStep
  <2> HIDE DEF v
  <2>7. CarryingOf(j, v)'
    BY <1>2, <1>4, <2>4, <2>5, <2>6 DEF CarryingOf
  <2> QED
    BY <2>3, <2>7
<1>6. Part(j)'
  BY <1>2, <1>3, <1>4, <1>5 DEF Part, Carrying, OneValue
<1> QED
  BY <1>2, <1>6, PartKept

\* A statement that writes no quote and leaves the job's list of them alone.
LEMMA SameQuotes ==
    ASSUME WInv, NEW j \in Jobs, Others(j), UNCHANGED store, task'[j] = task[j],
           task[j].kind = "ingest" => pc'[j] # "commit" /\ work'[j].points = work[j].points,
           OneValue(work[j].quotes)'
    PROVE  WInv'
<1>1. Part(j)
  BY DEF WInv
<1>2. ASSUME task[j].kind = "ingest" PROVE \E v \in Nat \ {0} : CarryingOf(j, v)'
  <2>1. PICK v \in Nat \ {0} : CarryingOf(j, v)
    BY <1>1, <1>2 DEF Part, Carrying
  <2>2. CarryingOf(j, v)'
    BY <1>2, <2>1 DEF CarryingOf
  <2> QED
    BY <2>2
<1>3. Part(j)'
  BY <1>1, <1>2 DEF Part, Carrying
<1> QED
  BY <1>3, PartKept

LEMMA SeriesParts ==
    ASSUME RInv, WInv, NEW j \in Jobs,
           UpsertSeries(j) \/ CreateSeries(j) \/ DescribeSeries(j) \/ DropSeries(j)
    PROVE  WInv'
<1>1. ASSUME NEW d, NEW step, WriteSeries(j, d, step), task[j].kind = "ingest" => step = "point"
      PROVE  WInv'
  <2>1. /\ UNCHANGED store /\ Others(j) /\ task'[j] = task[j] /\ pc'[j] = step
        /\ work'[j].points = work[j].points /\ work'[j].quotes = work[j].quotes
    BY <1>1 DEF WriteSeries, Goto, RInv, Typed, WorkRow, Others
  <2>2. OneValue(work[j].quotes)'
    BY <2>1 DEF WInv, Part, OneValue
  <2> QED
    BY <1>1, <2>1, <2>2, SameQuotes
<1> QED
  BY <1>1, AbandonParts DEF UpsertSeries, CreateSeries, DescribeSeries, DropSeries, Ready

\* The quote an ingest run writes leaves its list.
LEMMA UpsertPointParts ==
    ASSUME RInv, WInv, NEW j \in Jobs, UpsertPoint(j)
    PROVE  WInv'
<1> DEFINE i == Target(j)
           q == task[j].todo
<1>0. CASE Abandon(j, "error")
  BY <1>0, AbandonParts
<1>1. CASE /\ work' = [work EXCEPT ![j].points[i] = Head(q)[2],
                                   ![j].keys = IF Point(j, i) = 0 THEN @ \cup {i} ELSE @]
           /\ task' = [task EXCEPT ![j].todo = Tail(@)]
           /\ Goto(j, NextQuote(j))
           /\ UNCHANGED <<store, reply>>
  <2>1. task[j].kind = "ingest" /\ Part(j) /\ pc[j] = "point"
    BY DEF UpsertPoint, Ready, WInv, Part
  <2>2. PICK v \in Nat \ {0} : CarryingOf(j, v)
    BY <2>1 DEF Part, Carrying
  <2>3. q \in Seq(Ids \X (Nat \ {0})) /\ q # <<>>
    BY <2>1 DEF RInv, Typed, TaskRow, Own, AtWork
  <2> DEFINE S == Ids \X (Nat \ {0})
  <2>4. /\ Head(q) = q[1] /\ 1 \in 1..Len(q) /\ Len(q) \in Nat
        /\ Len(Tail(q)) = Len(q) - 1
        /\ \A n \in 1..Len(Tail(q)) : Tail(q)[n] = q[n + 1] /\ n + 1 \in 1..Len(q)
        /\ Len(q) = 1 => Tail(q) = <<>>
    <3>1. q \in Seq(S) /\ q # <<>>
      BY <2>3
    <3> HIDE DEF q, S
    <3>2. Head(q) = q[1] /\ Len(q) \in Nat /\ Len(q) > 0 /\ Len(Tail(q)) = Len(q) - 1
      BY <3>1
    <3>3. \A n \in 1..Len(Tail(q)) : Tail(q)[n] = q[n + 1] /\ n + 1 \in 1..Len(q)
      BY <3>1
    <3>4. Len(q) = 1 => Tail(q) = <<>>
      <4>1. \A r \in Seq(S) : Len(r) = 0 => r = <<>>
        OBVIOUS
      <4>2. Tail(q) \in Seq(S)
        BY <3>1
      <4>3. Len(q) = 1 => Len(Tail(q)) = 0
        BY <3>2
      <4> QED
        BY <4>1, <4>2, <4>3, Zenon
    <3>5. 1 \in 1..Len(q)
      BY <3>2
    <3> QED
      BY <3>2, <3>3, <3>4, <3>5, Zenon
  <2>5. i = q[1][1] /\ i \in Ids /\ q[1][2] = v
    <3>1. i = q[1][1] /\ q[1] \in Ids \X (Nat \ {0})
      BY <2>3, <2>4 DEF Target
    <3> QED
      BY <2>2, <2>4, <3>1 DEF CarryingOf
  <2>6. /\ UNCHANGED store /\ Others(j)
        /\ task'[j].todo = Tail(q) /\ task'[j].kind = "ingest" /\ pc'[j] = NextQuote(j)
        /\ work'[j].quotes = work[j].quotes
        /\ \A k \in Ids : work'[j].points[k] = IF k = i THEN v ELSE work[j].points[k]
    <3> DEFINE x == Head(q)[2]
    <3>1. x = v
      BY <2>4, <2>5
    <3> HIDE DEF x, i
    <3>2. /\ UNCHANGED store /\ Others(j)
          /\ task'[j].todo = Tail(q) /\ task'[j].kind = "ingest" /\ pc'[j] = NextQuote(j)
      BY <1>1, <2>1 DEF Goto, RInv, Typed, TaskRow, Others, i
    <3>3. /\ work'[j].quotes = work[j].quotes
          /\ \A k \in Ids : work'[j].points[k] = IF k = i THEN x ELSE work[j].points[k]
      BY <1>1 DEF RInv, Typed, WorkRow, x
    <3> QED
      BY <3>1, <3>2, <3>3
  <2> HIDE DEF q, i
  <2>7. CarryingOf(j, v)'
    <3>1. \A n \in 1..Len(Tail(q)) : Tail(q)[n][1] \in Covered /\ Tail(q)[n][2] = v
      BY <2>2, <2>4 DEF CarryingOf, q
    <3>2. ASSUME NEW k \in Ids, work'[j].points[k] # Same
          PROVE  k \in Covered /\ work'[j].points[k] = v
      <4>1. i \in Covered
        BY <2>2, <2>4, <2>5 DEF CarryingOf, q
      <4> QED
        BY <2>2, <2>6, <3>2, <4>1 DEF CarryingOf
    <3>3. ASSUME NEW k \in Covered, work'[j].points[k] # v
          PROVE  \E n \in 1..Len(Tail(q)) : Tail(q)[n][1] = k
      <4>0. k \in Ids
        BY MarketAssumption DEF Covered
      <4>1. k # i /\ work[j].points[k] # v
        BY <2>6, <3>3, <4>0
      <4>2. PICK n \in 1..Len(q) : q[n][1] = k
        BY <2>2, <4>1 DEF CarryingOf, q
      <4>3. n # 1
        BY <2>5, <4>1, <4>2
      <4>4. n - 1 \in 1..Len(Tail(q)) /\ (n - 1) + 1 = n
        BY <2>4, <4>3
      <4>5. Tail(q)[n - 1][1] = k
        BY <2>4, <4>2, <4>4
      <4> QED
        BY <4>4, <4>5
    <3>4. pc'[j] = "commit" => Tail(q) = <<>>
      BY <2>1, <2>4, <2>6 DEF NextQuote, q
    <3> QED
      BY <2>6, <3>1, <3>2, <3>3, <3>4 DEF CarryingOf
  <2>8. Part(j)'
    BY <2>1, <2>6, <2>7 DEF Part, Carrying, OneValue
  <2> QED
    BY <2>6, <2>8, PartKept
<1> QED
  BY <1>0, <1>1 DEF UpsertPoint

\* Deletions and rebuilds write no quotes of a batch, and rebuilds copy one state of them.
LEMMA OtherParts ==
    ASSUME RInv, RInv', WInv, NEW j \in Jobs,
           \/ DeletePoint(j) \/ CascadeQuote(j) \/ BumpEtag(j) \/ LockSnapshot(j)
           \/ ReadPrior(j) \/ ClearSnapshot(j) \/ FillSnapshot(j) \/ CheckKeys(j)
    PROVE  WInv'
<1>0. CASE Abandon(j, "error")
  BY <1>0, AbandonParts
<1>1. CASE ~Abandon(j, "error")
  <2>1. /\ UNCHANGED store /\ UNCHANGED task /\ task[j].kind \in {"delete", "build"}
        /\ Part(j) /\ Own(j) /\ Own(j)'
    BY <1>1 DEF DeletePoint, CascadeQuote, BumpEtag, LockSnapshot, ReadPrior, ClearSnapshot,
                FillSnapshot, CheckKeys, Affect, Ready, WInv, RInv, store
  <2>2. Others(j)
    BY <1>1 DEF DeletePoint, CascadeQuote, BumpEtag, LockSnapshot, ReadPrior, ClearSnapshot,
                FillSnapshot, CheckKeys, Affect, Goto, RInv, Typed, Others
  <2>3. OneValue(work[j].quotes)'
    <3>1. CASE task[j].kind = "delete"
      BY <2>1, <3>1 DEF Own, Touching, OneValue
    <3>2. CASE task[j].kind = "build" /\ (LockSnapshot(j) \/ ReadPrior(j) \/ CheckKeys(j))
      <4>1. work'[j].quotes = work[j].quotes
        BY <1>1, <3>2 DEF LockSnapshot, ReadPrior, CheckKeys, RInv, Typed, WorkRow
      <4> QED
        BY <2>1, <4>1 DEF Part, OneValue
    <3>3. CASE ClearSnapshot(j)
      <4>1. pc'[j] = "fill" /\ task'[j].kind = "build"
        BY <2>1, <3>3 DEF ClearSnapshot, Ready, Affect, Goto, RInv, Typed
      <4> QED
        BY <2>1, <4>1 DEF Own, Rebuilding, OneValue
    <3>4. CASE FillSnapshot(j)
      <4>1. pc[j] = "fill" /\ task[j].kind = "build" /\ Affect(j, Listed(points), points, "check")
        BY <3>4 DEF FillSnapshot, Ready
      <4>2. \A i \in Ids : work[j].quotes[i] \in {0, Same}
        BY <2>1, <4>1 DEF Own, Rebuilding
      <4>3. \A i \in Ids :
               work'[j].quotes[i] = IF i \in Listed(points) THEN points[i] ELSE work[j].quotes[i]
        <5> DEFINE rows == Listed(points)
                   q == [i \in Ids |-> IF i \in rows THEN points[i] ELSE work[j].quotes[i]]
                   e == IF rows = {} THEN work[j].etag ELSE "new"
                   w == [work[j] EXCEPT !.quotes = q, !.etag = e]
        <5>1. work'[j] = w
          BY <4>1 DEF Affect, RInv, Typed
        <5> HIDE DEF q, e
        <5>2. w.quotes = q
          BY DEF RInv, Typed, WorkRow
        <5> HIDE DEF w
        <5>3. work'[j].quotes = q
          BY <5>1, <5>2
        <5> QED
          BY <5>3 DEF q
      <4> QED
        BY <4>2, <4>3 DEF OneValue, WInv
    <3> QED
      BY <2>1, <3>1, <3>2, <3>3, <3>4
         DEF DeletePoint, CascadeQuote, BumpEtag, Ready
  <2> QED
    BY <2>1, <2>2, <2>3, SameQuotes
<1> QED
  BY <1>0, <1>1

\* An ingest run replaces every quote there is, a deletion takes one away.
LEMMA CommitParts ==
    ASSUME IInv, RInv, WInv, NEW j \in Jobs, Commit(j)
    PROVE  WInv'
<1>1. Committed(j) /\ Part(j) /\ Own(j)
  BY CommitIs DEF WInv, RInv
<1>2. /\ pc[j] = "commit" /\ task'[j] = NoTask /\ work'[j] = NoWork
      /\ \A u \in Jobs \ {j} : pc'[u] = pc[u] /\ task'[u] = task[u] /\ work'[u] = work[u]
      /\ \A i \in Ids : /\ points'[i] = Now(work[j].points[i], points[i])
                        /\ snap'.quotes[i] = Now(work[j].quotes[i], snap.quotes[i])
  BY <1>1 DEF Committed, Others, Point
<1>3. \A u \in Jobs : Part(u)'
  <2>1. Part(j)'
    BY <1>2 DEF Part, Carrying, OneValue, NoTask, NoWork
  <2>2. ASSUME NEW u \in Jobs \ {j} PROVE Part(u)'
    <3>1. Part(u)
      BY DEF WInv
    <3>2. \A v : CarryingOf(u, v) => CarryingOf(u, v)'
      BY <1>2 DEF CarryingOf
    <3> QED
      BY <1>2, <3>1, <3>2 DEF Part, Carrying, OneValue
  <2> QED
    BY <2>1, <2>2
<1>4. OneValue(points') /\ \A i \in Ids : points'[i] # 0 => i \in Covered
  <2>1. CASE task[j].kind = "ingest"
    <3>1. PICK v \in Nat \ {0} : CarryingOf(j, v)
      BY <1>1, <2>1 DEF Part, Carrying
    <3>2. task[j].todo = <<>>
      BY <1>2, <3>1 DEF CarryingOf
    <3>3. \A i \in Covered : work[j].points[i] = v
      BY <3>1, <3>2 DEF CarryingOf
    <3>4. Same \notin Nat
      BY MarketAssumption
    <3>5. ASSUME NEW i \in Ids PROVE points'[i] = IF i \in Covered THEN v ELSE 0
      <4>1. i \notin Covered => work[j].points[i] = Same /\ points[i] = 0
        BY <3>1 DEF CarryingOf, WInv
      <4> QED
        BY <1>2, <3>3, <3>4, <4>1 DEF Now
    <3> QED
      BY <3>5 DEF OneValue
  <2>2. CASE task[j].kind # "ingest"
    <3>1. \A i \in Ids : work[j].points[i] \in {0, Same}
      BY <1>1, <2>2 DEF Part, Own, Touching
    <3>2. \A i \in Ids : points'[i] \in {0, points[i]}
      BY <1>2, <3>1 DEF Now
    <3> QED
      BY <3>2 DEF WInv, OneValue
  <2> QED
    BY <2>1, <2>2
<1>5. OneValue(snap'.quotes)
  <2>1. CASE task[j].kind = "build"
    <3>1. \A i \in Ids : work[j].quotes[i] = Same => snap.quotes[i] = 0
      BY <1>1, <1>2, <2>1 DEF Own, Rebuilding
    <3>2. \A i \in Ids : snap'.quotes[i] \in {0, work[j].quotes[i]}
      BY <1>2, <3>1 DEF Now
    <3> QED
      BY <1>1, <3>2 DEF Part, OneValue
  <2>2. CASE task[j].kind # "build"
    <3>1. \A i \in Ids : work[j].quotes[i] \in {0, Same}
      BY <1>1, <2>2 DEF Own, Touching
    <3>2. \A i \in Ids : snap'.quotes[i] \in {0, snap.quotes[i]}
      BY <1>2, <3>1 DEF Now
    <3> QED
      BY <3>2 DEF WInv, OneValue
  <2> QED
    BY <2>1, <2>2
<1> QED
  BY <1>3, <1>4, <1>5, Zenon DEF WInv, OneValue

LEMMA NextWInv == Uniform /\ IInv /\ RInv /\ RInv' /\ WInv /\ [Next]_vars => WInv'
<1> SUFFICES ASSUME Uniform, IInv, RInv, RInv', WInv, [Next]_vars PROVE WInv'
  OBVIOUS
<1>1. CASE UNCHANGED vars
  <2>1. \A u \in Jobs : \A v : CarryingOf(u, v) => CarryingOf(u, v)'
    BY <1>1 DEF vars, CarryingOf
  <2> QED
    BY <1>1, <2>1 DEF vars, WInv, Part, Carrying, OneValue
<1>2. ASSUME NEW j \in Jobs, Arrive(j) \/ Statement(j) \/ Crash(j) \/ DeadlockAbort(j)
      PROVE  WInv'
  <2>1. CASE Arrive(j)
    BY <2>1, ArriveParts
  <2>2. CASE Crash(j) \/ DeadlockAbort(j)
    BY <2>2, AbandonParts DEF Crash, DeadlockAbort
  <2>3. CASE UpsertSeries(j) \/ CreateSeries(j) \/ DescribeSeries(j) \/ DropSeries(j)
    BY <2>3, SeriesParts
  <2>4. ~ReadKnown(j)
    BY DEF ReadKnown, Ready, WInv, Part
  <2>5. CASE UpsertPoint(j)
    BY <2>5, UpsertPointParts
  <2>6. CASE Commit(j)
    BY <2>6, CommitParts
  <2> QED
    BY <1>2, <2>1, <2>2, <2>3, <2>4, <2>5, <2>6, OtherParts DEF Statement
<1> QED
  BY <1>1, <1>2 DEF Next

\* The ingester's one transaction per run: neither the quotes nor a snapshot rebuilt from
\* them ever mixes two fetches of the same series, however runs, rebuilds and deletions
\* interleave and wherever they are cut off.
THEOREM BatchesStayWhole == Spec => []BatchesWhole
<1>1. CASE Uniform
  <2>1. Init => WInv
    <3> SUFFICES ASSUME Init PROVE WInv
      OBVIOUS
    <3> QED
      BY DEF Init, WInv, Part, Carrying, OneValue, NoTask, NoWork
  <2>2. IInv /\ RInv /\ WInv /\ [Next]_vars => (IInv /\ RInv /\ WInv)'
    BY <1>1, NextIInv, NextRInv, NextWInv
  <2>3. RInv /\ WInv => BatchesWhole
    <3> SUFFICES ASSUME RInv, WInv PROVE BatchesWhole
      OBVIOUS
    <3>1. points \in [Ids -> Nat] /\ snap.quotes \in [Ids -> Nat] /\ Same \notin Nat
      BY MarketAssumption DEF RInv, Typed
    <3>2. OneBatch(points) /\ OneBatch(snap.quotes)
      BY <3>1 DEF WInv, OneValue, OneBatch
    <3> QED
      BY <3>2 DEF BatchesWhole
  <2> QED
    BY <2>1, <2>2, <2>3, InitIInv, InitRInv, PTL DEF Spec
<1>2. CASE ~Uniform
  <2>1. BatchesWhole
    BY <1>2 DEF BatchesWhole
  <2> QED
    BY <2>1, PTL
<1> QED
  BY <1>1, <1>2
=============================================================================
