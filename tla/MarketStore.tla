----------------------------- MODULE MarketStore -----------------------------
(***************************************************************************)
(* The write side of schema md: the series catalog (md.canonical_ids), the *)
(* quotes (md.quote_points) and one named snapshot (md.snapshots and       *)
(* md.snapshot_quotes), as the ingester's pipeline, the user import and    *)
(* the series routes write them.  A job is one READ COMMITTED transaction  *)
(* of several statements; jobs interleave between statements.              *)
(*                                                                         *)
(* One as_of date: points[i] is the quote a rebuild picks for i, 0 if none.*)
(* As in EntityStore an uncommitted row is the lock on it, and a statement *)
(* that must wait for another transaction is disabled.  A foreign-key      *)
(* check takes a shared lock on the series row (keys) that only the row's  *)
(* deletion conflicts with.  md.vendor_mappings is left out: no statement  *)
(* modelled here reads it.                                                 *)
(***************************************************************************)
EXTENDS Naturals, Sequences, FiniteSets, Subsequences

CONSTANTS
    Jobs,      \* slots for requests and command-line runs, one job at a time
    Kinds,     \* the kinds of job explored
    Ids,       \* canonical ids
    Texts,     \* descriptions users enter
    Batches,   \* what a fetch or an upload carries: <<id, value>> pairs
    Blank, Generated, NoSeries, Same,
    MaxEtag    \* no job that renews the etag starts from this one on

AllKinds == {"ingest", "import", "create", "describe", "delete", "build"}
Steps == {"idle", "series", "point", "known", "points", "cascade", "quotes", "etag",
          "lock", "prior", "clear", "fill", "check", "commit"}
Outs == {"none", "ok", "exists", "not_found", "error", "lost"}
Descriptions == Texts \cup {Blank, Generated}

ASSUME MarketAssumption ==
    /\ Kinds \subseteq AllKinds /\ IsFiniteSet(Ids)
    /\ Batches \subseteq Seq(Ids \X (Nat \ {0})) \ {<<>>}
    /\ \A b \in Batches : \A m, n \in DOMAIN b : b[m][1] = b[n][1] => m = n
    /\ Blank # Generated /\ NoSeries \notin {Blank, Generated, Same}
    /\ Texts \cap {Blank, Generated, NoSeries} = {} /\ Same \notin Descriptions \cup Nat
    /\ MaxEtag \in Nat

VARIABLES
    series,  \* committed description of each series, or NoSeries
    points,  \* committed quote of each id
    snap,    \* the committed snapshot: its etag (0: no row yet) and quotes
    pc,      \* the statement each job runs next
    task,    \* the job: its kind and inputs
    memo,    \* what it has counted and read so far
    work,    \* its uncommitted rows, the locks they are, and its shared locks
    reply    \* how the slot's last job ended, and the count it reported

vars == <<series, points, snap, pc, task, memo, work, reply>>

Tasks ==
    [kind : Kinds \cap {"ingest", "import"}, todo : Batches, id : {NoSeries}, text : {Blank}]
    \cup [kind : Kinds \cap {"create", "describe"}, todo : {<<>>}, id : Ids,
          text : Texts \cup {Blank}]
    \cup [kind : Kinds \cap {"delete"}, todo : {<<>>}, id : Ids, text : {Blank}]
    \cup [kind : Kinds \cap {"build"}, todo : {<<>>}, id : {NoSeries}, text : {Blank}]

NoTask == [kind |-> "none", todo |-> <<>>, id |-> NoSeries, text |-> Blank]
NoMemo == [n |-> 0, prior |-> [i \in Ids |-> 0]]
NoWork == [series |-> [i \in Ids |-> Same], points |-> [i \in Ids |-> Same],
           quotes |-> [i \in Ids |-> Same], etag |-> "free", keys |-> {}]

Init ==
    /\ series = [i \in Ids |-> NoSeries]
    /\ points = [i \in Ids |-> 0]
    /\ snap = [etag |-> 0, quotes |-> [i \in Ids |-> 0]]
    /\ pc = [j \in Jobs |-> "idle"]
    /\ task = [j \in Jobs |-> NoTask]
    /\ memo = [j \in Jobs |-> NoMemo]
    /\ work = [j \in Jobs |-> NoWork]
    /\ reply = [j \in Jobs |-> [out |-> "none", n |-> 0]]

store == <<series, points, snap>>

-----------------------------------------------------------------------------
(* What a statement sees and waits for.                                    *)

Now(new, old) == IF new = Same THEN old ELSE new

Series(j, i) == Now(work[j].series[i], series[i])
Point(j, i) == Now(work[j].points[i], points[i])

\* The id the next statement is about.
Target(j) == IF task[j].todo # <<>> THEN Head(task[j].todo)[1] ELSE task[j].id

\* The snapshot rows of a job, and the series its foreign keys name.
Listed(quotes) == {i \in Ids : quotes[i] \notin {0, Same}}

\* Mutant: the foreign keys are not checked against a deletion under way.
DeletesSeries_Unseen(u, i) == FALSE

DeletesSeries(u, i) == work[u].series[i] = NoSeries

\* Transaction u holds a lock that j's next statement needs.
Blocks(u, j) ==
    LET i == Target(j)
    IN CASE pc[j] = "series" /\ task[j].kind \in {"ingest", "create"} ->
                work[u].series[i] # Same
         [] pc[j] = "series" /\ task[j].kind = "describe" ->
                series[i] # NoSeries /\ work[u].series[i] # Same
         [] pc[j] = "series" /\ task[j].kind = "delete" ->
                series[i] # NoSeries /\ (work[u].series[i] # Same \/ i \in work[u].keys)
         [] pc[j] = "point" ->
                \/ work[u].points[i] # Same
                \/ Point(j, i) = 0 /\ DeletesSeries(u, i)
         [] pc[j] \in {"points", "cascade"} -> Point(j, i) # 0 /\ work[u].points[i] # Same
         [] pc[j] = "quotes" -> snap.quotes[i] # 0 /\ work[u].quotes[i] # Same
         [] pc[j] \in {"etag", "lock"} -> work[u].etag # "free"
         [] pc[j] = "clear" -> \E k \in Listed(snap.quotes) : work[u].quotes[k] # Same
         [] pc[j] = "check" -> \E k \in Listed(work[j].quotes) : DeletesSeries(u, k)
         [] OTHER -> FALSE

Blockers(j) == {u \in Jobs \ {j} : Blocks(u, j)}

Ready(j, step, kinds) == pc[j] = step /\ task[j].kind \in kinds /\ Blockers(j) = {}

Goto(j, step) == pc' = [pc EXCEPT ![j] = step]

-----------------------------------------------------------------------------
(* The ends of a job.                                                      *)

End(j, out, n) ==
    /\ Goto(j, "idle")
    /\ task' = [task EXCEPT ![j] = NoTask]
    /\ memo' = [memo EXCEPT ![j] = NoMemo]
    /\ work' = [work EXCEPT ![j] = NoWork]
    /\ reply' = [reply EXCEPT ![j] = [out |-> out, n |-> n]]

\* Mutant: the connection goes back to its pool with the transaction open.
Abandon_Open(j, out) ==
    /\ Goto(j, "idle")
    /\ task' = [task EXCEPT ![j] = NoTask]
    /\ memo' = [memo EXCEPT ![j] = NoMemo]
    /\ reply' = [reply EXCEPT ![j] = [out |-> out, n |-> 0]]
    /\ UNCHANGED <<store, work>>

\* engine.begin() rolls back, or commits a transaction that wrote nothing.
Abandon(j, out) == End(j, out, 0) /\ UNCHANGED store

Commit(j) ==
    LET w == work[j]
    IN  /\ Ready(j, "commit", AllKinds)
        /\ series' = [i \in Ids |-> Now(w.series[i], series[i])]
        /\ points' = [i \in Ids |-> Now(w.points[i], points[i])]
        /\ snap' = [etag |-> IF w.etag = "new" THEN snap.etag + 1 ELSE snap.etag,
                    quotes |-> [i \in Ids |-> Now(w.quotes[i], snap.quotes[i])]]
        /\ \E out \in {"ok", "lost"} : End(j, out, memo[j].n)

FirstStep == [ingest |-> "series", import |-> "known", create |-> "series",
              describe |-> "series", delete |-> "points", build |-> "lock"]

Arrive(j) ==
    /\ pc[j] = "idle"
    /\ \E t \in Tasks :
          /\ t.kind \in {"delete", "build"} => snap.etag < MaxEtag
          /\ task' = [task EXCEPT ![j] = t]
          /\ Goto(j, FirstStep[t.kind])
    /\ reply' = [reply EXCEPT ![j] = [out |-> "none", n |-> 0]]
    /\ UNCHANGED <<store, memo, work>>

-----------------------------------------------------------------------------
(* Series rows.                                                            *)

WriteSeries(j, d, step) ==
    /\ work' = [work EXCEPT ![j].series[Target(j)] = d]
    /\ Goto(j, step)
    /\ UNCHANGED <<store, task, memo, reply>>

\* Mutant: DO UPDATE SET description = EXCLUDED.description.
Described_Always(d) == Generated

\* upsert_canonical fills a description only where there is none.
Described(d) == IF d \in {NoSeries, Blank} THEN Generated ELSE d

UpsertSeries(j) ==
    /\ Ready(j, "series", {"ingest"})
    /\ WriteSeries(j, Described(Series(j, Target(j))), "point")

\* ON CONFLICT DO NOTHING: an existing series is a 409.
CreateSeries(j) ==
    /\ Ready(j, "series", {"create"})
    /\ \/ series[Target(j)] # NoSeries /\ Abandon(j, "exists")
       \/ series[Target(j)] = NoSeries /\ WriteSeries(j, task[j].text, "commit")

DescribeSeries(j) ==
    /\ Ready(j, "series", {"describe"})
    /\ \/ series[Target(j)] = NoSeries /\ Abandon(j, "not_found")
       \/ series[Target(j)] # NoSeries /\ WriteSeries(j, task[j].text, "commit")

\* delete_series: its row, once its quotes are gone and counted; 404 without one.
DropSeries(j) ==
    /\ Ready(j, "series", {"delete"})
    /\ \/ series[Target(j)] = NoSeries /\ Abandon(j, "not_found")
       \/ series[Target(j)] # NoSeries /\ WriteSeries(j, NoSeries, "cascade")

-----------------------------------------------------------------------------
(* Quotes.                                                                 *)

\* After a quote: the next one, an ingested one by way of its series.
NextQuote(j) == IF Len(task[j].todo) = 1 THEN "commit"
                ELSE IF task[j].kind = "ingest" THEN "series" ELSE "point"

\* Mutant: each quote is committed as it is written.
UpsertPoint_Autocommit(j) ==
    LET i == Target(j)
    IN  /\ Ready(j, "point", {"ingest", "import"})
        /\ series' = [series EXCEPT ![i] = Series(j, i)]
        /\ points' = [points EXCEPT ![i] = Head(task[j].todo)[2]]
        /\ work' = [work EXCEPT ![j] = NoWork]
        /\ memo' = [memo EXCEPT ![j].n = @ + 1]
        /\ task' = [task EXCEPT ![j].todo = Tail(@)]
        /\ Goto(j, NextQuote(j))
        /\ UNCHANGED <<snap, reply>>

\* upsert_quote: an update of the row, or an insert with its foreign-key check.
UpsertPoint(j) ==
    LET i == Target(j)
        inserts == Point(j, i) = 0
    IN  /\ Ready(j, "point", {"ingest", "import"})
        /\ \/ inserts /\ Series(j, i) = NoSeries /\ Abandon(j, "error")
           \/ /\ inserts => Series(j, i) # NoSeries
              /\ work' = [work EXCEPT ![j].points[i] = Head(task[j].todo)[2],
                                      ![j].keys = IF inserts THEN @ \cup {i} ELSE @]
              /\ memo' = [memo EXCEPT ![j].n = @ + 1]
              /\ task' = [task EXCEPT ![j].todo = Tail(@)]
              /\ Goto(j, NextQuote(j))
              /\ UNCHANGED <<store, reply>>

\* existing_canonical_ids: quotes of other series are reported and dropped.
ReadKnown(j) ==
    LET todo == task[j].todo
        known == Picked(todo, {n \in 1..Len(todo) : series[todo[n][1]] # NoSeries})
    IN  /\ Ready(j, "known", {"import"})
        /\ task' = [task EXCEPT ![j].todo = known]
        /\ Goto(j, IF known = <<>> THEN "commit" ELSE "point")
        /\ UNCHANGED <<store, memo, work, reply>>

\* delete_series deletes and counts the quotes it sees; the foreign key's
\* ON DELETE CASCADE deletes those that were committed since.
DeletePoint(j) ==
    LET i == Target(j)
        n == IF Point(j, i) = 0 THEN 0 ELSE 1
    IN  /\ Ready(j, "points", {"delete"}) \/ Ready(j, "cascade", {"delete"})
        /\ work' = [work EXCEPT ![j].points[i] = IF n = 0 THEN @ ELSE 0]
        /\ memo' = [memo EXCEPT ![j].n = IF pc[j] = "points" THEN n ELSE @]
        /\ Goto(j, IF pc[j] = "points" THEN "series" ELSE "quotes")
        /\ UNCHANGED <<store, task, reply>>

-----------------------------------------------------------------------------
(* The snapshot.                                                           *)

\* Mutant: the etag trigger is not installed for DELETE.
CascadeQuote_NoTrigger(j) ==
    /\ Ready(j, "quotes", {"delete"})
    /\ work' = [work EXCEPT ![j].quotes[Target(j)] = IF snap.quotes[Target(j)] = 0 THEN @ ELSE 0]
    /\ Goto(j, "commit")
    /\ UNCHANGED <<store, task, memo, reply>>

\* The cascade to md.snapshot_quotes, whose trigger then renews the etag.
CascadeQuote(j) ==
    LET i == Target(j)
        none == snap.quotes[i] = 0
    IN  /\ Ready(j, "quotes", {"delete"})
        /\ work' = [work EXCEPT ![j].quotes[i] = IF none THEN @ ELSE 0]
        /\ Goto(j, IF none THEN "commit" ELSE "etag")
        /\ UNCHANGED <<store, task, memo, reply>>

BumpEtag(j) ==
    /\ Ready(j, "etag", {"delete"})
    /\ work' = [work EXCEPT ![j].etag = "new"]
    /\ Goto(j, "commit")
    /\ UNCHANGED <<store, task, memo, reply>>

\* Mutant: an existing row is looked up instead of upserted, so not locked.
LockSnapshot_LooksUp(j) ==
    /\ Ready(j, "lock", {"build"})
    /\ work' = [work EXCEPT ![j].etag = IF snap.etag = 0 THEN "new" ELSE "free"]
    /\ Goto(j, "prior")
    /\ UNCHANGED <<store, task, memo, reply>>

\* build_snapshot: the upsert that locks the snapshot's row or inserts it (the
\* etag it reports as the one before is read earlier, and left out here).
LockSnapshot(j) ==
    /\ Ready(j, "lock", {"build"})
    /\ work' = [work EXCEPT ![j].etag = IF snap.etag = 0 THEN "new" ELSE "held"]
    /\ Goto(j, "prior")
    /\ UNCHANGED <<store, task, memo, reply>>

ReadPrior(j) ==
    /\ Ready(j, "prior", {"build"})
    /\ memo' = [memo EXCEPT ![j].prior = snap.quotes]
    /\ Goto(j, "clear")
    /\ UNCHANGED <<store, task, work, reply>>

\* A statement that affects rows of the snapshot renews its etag.
Affect(j, rows, value, step) ==
    /\ work' = [work EXCEPT
          ![j].quotes = [i \in Ids |-> IF i \in rows THEN value[i] ELSE @[i]],
          ![j].etag = IF rows = {} THEN @ ELSE "new"]
    /\ Goto(j, step)
    /\ UNCHANGED <<store, task, memo, reply>>

ClearSnapshot(j) ==
    /\ Ready(j, "clear", {"build"})
    /\ Affect(j, Listed(snap.quotes), [i \in Ids |-> 0], "fill")

\* The INSERT ... SELECT: one statement, so one committed state of the quotes.
FillSnapshot(j) ==
    /\ Ready(j, "fill", {"build"})
    /\ Affect(j, Listed(points), points, "check")

\* quotes_changed: ids added, removed or with another value.
Changed(old, new) == Cardinality({i \in Ids : old[i] # new[i]})

\* Mutant: a rebuild whose series is gone polls for it instead of failing.
CheckKeys_Polls(j) ==
    LET new == [i \in Ids |-> Now(work[j].quotes[i], 0)]
    IN  /\ Ready(j, "check", {"build"})
        /\ \A i \in Listed(new) : series[i] # NoSeries
        /\ work' = [work EXCEPT ![j].keys = Listed(new)]
        /\ memo' = [memo EXCEPT ![j].n = Changed(memo[j].prior, new)]
        /\ Goto(j, "commit")
        /\ UNCHANGED <<store, task, reply>>

\* The insert's foreign-key checks, then the comparison for the report.
CheckKeys(j) ==
    LET new == [i \in Ids |-> Now(work[j].quotes[i], 0)]
    IN  /\ Ready(j, "check", {"build"})
        /\ \/ (\E i \in Listed(new) : series[i] = NoSeries) /\ Abandon(j, "error")
           \/ /\ \A i \in Listed(new) : series[i] # NoSeries
              /\ work' = [work EXCEPT ![j].keys = Listed(new)]
              /\ memo' = [memo EXCEPT ![j].n = Changed(memo[j].prior, new)]
              /\ Goto(j, "commit")
              /\ UNCHANGED <<store, task, reply>>

-----------------------------------------------------------------------------
(* Failures.                                                               *)

\* The process dies or the connection drops: PostgreSQL rolls back.
Crash(j) == pc[j] # "idle" /\ Abandon(j, "lost")

InDeadlock(j) ==
    \E S \in SUBSET Jobs :
        /\ j \in S
        /\ \A u \in S : Blockers(u) \cap S # {} /\ \E v \in S : u \in Blockers(v)

DeadlockAbort(j) == InDeadlock(j) /\ Abandon(j, "error")

Statement(j) ==
    \/ UpsertSeries(j) \/ CreateSeries(j) \/ DescribeSeries(j) \/ DropSeries(j)
    \/ ReadKnown(j) \/ UpsertPoint(j) \/ DeletePoint(j) \/ CascadeQuote(j) \/ BumpEtag(j)
    \/ LockSnapshot(j) \/ ReadPrior(j) \/ ClearSnapshot(j) \/ FillSnapshot(j) \/ CheckKeys(j)
    \/ Commit(j)

Next == \E j \in Jobs : Arrive(j) \/ Statement(j) \/ Crash(j) \/ DeadlockAbort(j)

Spec == Init /\ [][Next]_vars

\* As in EntityStore: lock waits are granted in order of arrival and PostgreSQL
\* breaks every waiting cycle.
FairSpec == Spec /\ \A j \in Jobs : SF_vars(Statement(j)) /\ WF_vars(DeadlockAbort(j))

-----------------------------------------------------------------------------
(* Properties.                                                             *)

\* Every variable keeps its type, and a slot between jobs holds no lock.
TypeOK ==
    /\ series \in [Ids -> Descriptions \cup {NoSeries}]
    /\ points \in [Ids -> Nat]
    /\ snap \in [etag : Nat, quotes : [Ids -> Nat]]
    /\ pc \in [Jobs -> Steps]
    /\ task \in [Jobs -> [kind : AllKinds \cup {"none"}, todo : Seq(Ids \X Nat),
                          id : Ids \cup {NoSeries}, text : Texts \cup {Blank}]]
    /\ memo \in [Jobs -> [n : 0..Cardinality(Ids), prior : [Ids -> Nat]]]
    /\ work \in [Jobs -> [series : [Ids -> Descriptions \cup {NoSeries, Same}],
                          points : [Ids -> Nat \cup {Same}],
                          quotes : [Ids -> Nat \cup {Same}],
                          etag : {"free", "held", "new"}, keys : SUBSET Ids]]
    /\ reply \in [Jobs -> [out : Outs, n : 0..Cardinality(Ids)]]
    /\ \A j \in Jobs : pc[j] = "idle" => work[j] = NoWork

\* No quote and no snapshot row outlives its series: an import whose series was
\* deleted after it had looked, and a rebuild that read the quotes of a series
\* being deleted, fail instead of writing.
NoOrphans ==
    \A i \in Ids : points[i] # 0 \/ snap.quotes[i] # 0 => series[i] # NoSeries

\* The snapshot's contents never change under the etag a client may have pinned,
\* the cascade of a series deletion included.
EtagTracksContents ==
    [][snap'.quotes # snap.quotes => snap'.etag # snap.etag]_vars

\* Jobs that write whole batches, each of one value and over the same ids.
Covered == UNION {{q[n][1] : n \in DOMAIN q} : q \in Batches}
Uniform ==
    /\ "import" \notin Kinds
    /\ \A q \in Batches : /\ \A m, n \in DOMAIN q : q[m][2] = q[n][2]
                          /\ \A i \in Covered : \E n \in DOMAIN q : q[n][1] = i

OneBatch(quotes) == \A i, k \in Ids : quotes[i] # 0 /\ quotes[k] # 0 => quotes[i] = quotes[k]

\* The value of each quote being its batch: the quotes of an ingested batch are
\* stored together, and no state of the store or the snapshot mixes two batches
\* of the same ids, in whatever order the batches lock their rows.
BatchesWhole == Uniform => OneBatch(points) /\ OneBatch(snap.quotes)

\* A description a user entered gives way only to a PATCH or the deletion of its
\* series, however ingest runs interleave with both.
UserTextKept ==
    [][\A i \in Ids : series[i] \in Texts /\ series'[i] \notin {series[i], NoSeries} =>
          \E j \in Jobs : task[j].kind = "describe" /\ task[j].id = i /\ pc[j] = "commit"]_vars

\* A rebuild reports as quotes_changed how the snapshot differs from the one it
\* replaces, although it read that one several statements before.
QuotesChangedExact ==
    [][\A j \in Jobs : task[j].kind = "build" /\ pc[j] = "commit" /\ reply'[j].out = "ok" =>
          reply'[j].n = Changed(snap.quotes, snap'.quotes)]_vars

\* Every job ends, lock waits and deadlocks notwithstanding.
EveryJobEnds == \A j \in Jobs : pc[j] # "idle" ~> pc[j] = "idle"
=============================================================================
