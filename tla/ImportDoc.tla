----------------------------- MODULE ImportDoc -----------------------------
(***************************************************************************)
(* POST /v1/import: a document in the engine's format becomes entities.    *)
(* Its entries are mapped and validated first, all at once; the mapped     *)
(* ones are then looked up and created one after the other, each in a      *)
(* transaction of its own, while the account's user edits the same tables. *)
(*                                                                         *)
(* Statements inside a transaction are EntityStore's subject; here the     *)
(* store is the AuditLedger that EntityStore implements.  The five tables  *)
(* are told apart by the type in a row's name.  An entry is known by what  *)
(* the mapping asks of it: its id, whether the translators take it, where  *)
(* its quote is, and for a curve the index its helpers name.  Warnings and *)
(* the report of unsupported sections are left out.  So is what never      *)
(* becomes an entry: what is no object, and a legacy flat section that a   *)
(* nested one shadows, are dropped and not reported.                       *)
(***************************************************************************)
EXTENDS Naturals, Sequences, FiniteSets, Subsequences

CONSTANTS
    Ids,         \* primary keys, in the order they are handed out
    NoId, NoRow,
    Names,       \* engine ids
    NoName,      \* the id of an entry that has none
    Catalog,     \* overnight and IBOR indices known without a definition
    Documents,   \* the documents users post, each a sequence of entries
    Inherited,   \* the tables an account may start with
    MaxImports,  \* no import that writes starts after this many
    MaxEdits     \* the user edits no more after this many times

Types == {"index", "curve", "credit_curve", "vol_surface", "swaption_model"}

\* quote: given inline, by an id the document's quotes hold or by one they lack;
\* grid: the quote is a cell of a vol grid.
Entry == [type : Types, id : Names \cup {NoName}, sound : BOOLEAN,
          quote : {"inline", "known", "unknown"}, grid : BOOLEAN, index : Names \cup Catalog]

ASSUME ImportAssumption ==
    /\ IsFiniteSet(Ids) /\ Ids = 1..Cardinality(Ids) /\ NoId = 0
    /\ NoName \notin Names \cup Catalog
    /\ Documents \subseteq Seq(Entry)
    /\ MaxImports \in Nat /\ MaxEdits \in Nat

Owner == "user"
Row == [owner : {Owner}, name : Types \X Names, app : {NoId}, body : {"document", "user"},
        live : BOOLEAN]

ASSUME RowAssumption == NoRow \notin Row

\* Whatever the account starts with, the ids last.
ASSUME InheritedAssumption ==
    /\ Inherited \subseteq [Ids -> Row \cup {NoRow}]
    /\ \A h \in Inherited, d \in Documents :
          Cardinality({i \in Ids : h[i] # NoRow}) + MaxImports * Len(d) + MaxEdits
              <= Cardinality(Ids)

VARIABLES
    rows, trail,  \* the ledger of the account's entities
    job,          \* the import under way
    imports, edits

vars == <<rows, trail, job, imports, edits>>

Ledger == INSTANCE AuditLedger WITH Rows <- Row

Name(e) == <<e.type, e.id>>
LiveNames(rs) == {rs[i].name : i \in {k \in Ids : rs[k] # NoRow /\ rs[k].live}}

\* What became of an entry.  A conflict is listed as skipped or as an error, as
\* the request says; invalid and failed ones are errors.
Outcome == [kind : {"pending", "imported", "conflict", "invalid", "failed"}, id : Ids \cup {NoId}]
Plain(kind) == [kind |-> kind, id |-> NoId]

\* batch: the names this import has taken.  For the properties, start and seen are
\* the names live when it began and at any time since, and quiet says that nobody
\* else wrote and nothing failed.
NoJob == [stage |-> "idle", doc |-> <<>>, dry |-> FALSE, skip |-> FALSE, out |-> <<>>,
          batch |-> {}, start |-> {}, seen |-> {}, quiet |-> TRUE]

Init ==
    /\ Ledger!Init
    /\ job = NoJob
    /\ imports = 0 /\ edits = 0

-----------------------------------------------------------------------------
(* map_document.                                                           *)

Section(d, t) == Picked(d, {k \in DOMAIN d : d[k].type = t})

\* The entries in the order they are mapped, and later created.
Ordered(d) ==
    Section(d, "index") \o Section(d, "curve") \o Section(d, "credit_curve")
        \o Section(d, "vol_surface") \o Section(d, "swaption_model")

Entries(d) == {d[k] : k \in DOMAIN d}

IndexMaps(e) == e.id # NoName /\ e.sound

\* Mutant: an index counts as defined although it did not map.
IndexIds_Unmapped(d) == {e.id : e \in {x \in Entries(d) : x.type = "index"}}

\* The document's own indices that mapped.
IndexIds(d) == {e.id : e \in {x \in Entries(d) : x.type = "index" /\ IndexMaps(x)}}

\* An unknown quote id is kept where market data can resolve it later: in a curve
\* point or in the base of a vol surface, not in a vol grid or a credit curve.
CurveMaps(d, e) == e.id # NoName /\ e.sound /\ e.index \in Catalog \cup IndexIds(d)
CreditMaps(e) == e.id # NoName /\ e.sound /\ e.quote # "unknown"
SurfaceMaps(e) == e.id # NoName /\ e.sound /\ (e.grid => e.quote # "unknown")
ModelMaps(e) == e.id # NoName /\ e.sound

Maps(d, e) ==
    CASE e.type = "index" -> IndexMaps(e)
      [] e.type = "curve" -> CurveMaps(d, e)
      [] e.type = "credit_curve" -> CreditMaps(e)
      [] e.type = "vol_surface" -> SurfaceMaps(e)
      [] e.type = "swaption_model" -> ModelMaps(e)

-----------------------------------------------------------------------------
(* The import.                                                             *)

Busy == job.stage \in {"check", "create"}

\* The item at hand: the first that mapped and has no outcome yet.
At == CHOOSE k \in DOMAIN job.doc :
          /\ job.out[k].kind = "pending"
          /\ \A m \in 1..(k - 1) : job.out[m].kind # "pending"
Item == job.doc[At]

NextStage(out) == IF \E k \in DOMAIN out : out[k].kind = "pending" THEN "check" ELSE "done"

\* import_document: an empty document is refused, another one is mapped.
Arrive ==
    /\ job.stage = "idle"
    /\ \E d \in Documents, dry, skip \in BOOLEAN :
          LET doc == Ordered(d)
              out == [k \in DOMAIN doc |-> Plain(IF Maps(doc, doc[k]) THEN "pending" ELSE "invalid")]
          IN  /\ d # <<>>
              /\ dry \/ imports < MaxImports
              /\ imports' = IF dry THEN imports ELSE imports + 1
              /\ job' = [NoJob EXCEPT !.stage = NextStage(out), !.doc = doc, !.dry = dry,
                                      !.skip = skip, !.out = out,
                                      !.start = LiveNames(rows), !.seen = LiveNames(rows)]
    /\ UNCHANGED <<rows, trail, edits>>

\* The item's outcome is o, and on to the next.
Settle(o, names) ==
    LET out == [job.out EXCEPT ![At] = o]
    IN  job' = [job EXCEPT !.out = out, !.batch = @ \cup names, !.stage = NextStage(out),
                           !.seen = @ \cup LiveNames(rows'), !.quiet = @ /\ o.kind # "failed"]

\* Mutants: a deleted row counts as a conflict; a dry run takes no names.
Taken_AnyLife(n) == n \in job.batch \/ \E i \in Ids : rows[i] # NoRow /\ rows[i].name = n
DryRun_TakesNoName ==
    /\ job.stage = "check" /\ job.dry
    /\ Name(Item) \notin job.batch \cup LiveNames(rows)
    /\ UNCHANGED <<rows, trail, imports, edits>>
    /\ Settle(Plain("imported"), {})

\* batch_names, then _name_exists.
Taken(n) == n \in job.batch \cup LiveNames(rows)

Precheck ==
    /\ job.stage = "check" /\ ~job.dry
    /\ ~Taken(Name(Item))
    /\ job' = [job EXCEPT !.stage = "create"]
    /\ UNCHANGED <<rows, trail, imports, edits>>

\* Mutant: a conflict names the row it met.
Conflict_NamesRow ==
    \/ /\ job.stage = "check" /\ Taken(Name(Item))
       /\ UNCHANGED <<rows, trail, imports, edits>>
       /\ Settle([kind |-> "conflict",
                  id |-> CHOOSE i \in Ids \cup {NoId} :
                            i = NoId \/ (rows[i] # NoRow /\ rows[i].name = Name(Item))], {})
    \/ /\ job.stage = "create" /\ Name(Item) \in LiveNames(rows)
       /\ UNCHANGED <<rows, trail, imports, edits>>
       /\ Settle([kind |-> "conflict",
                  id |-> CHOOSE i \in Ids : rows[i] # NoRow /\ rows[i].name = Name(Item)], {})

\* Met by the look-up, or by the INSERT after it (NameConflictError).
Conflict ==
    /\ \/ job.stage = "check" /\ Taken(Name(Item))
       \/ job.stage = "create" /\ Name(Item) \in LiveNames(rows)
    /\ UNCHANGED <<rows, trail, imports, edits>>
    /\ Settle(Plain("conflict"), {})

DryRun ==
    /\ job.stage = "check" /\ job.dry
    /\ ~Taken(Name(Item))
    /\ UNCHANGED <<rows, trail, imports, edits>>
    /\ Settle(Plain("imported"), {Name(Item)})

\* The next primary key.
Fresh(i) == rows[i] = NoRow /\ \A k \in 1..(i - 1) : rows[k] # NoRow

NewRow(n, who) == [owner |-> Owner, name |-> n, app |-> NoId, body |-> who, live |-> TRUE]

\* Mutant: an upsert on the name.
Create_Upserts ==
    /\ job.stage = "create"
    /\ LET n == Name(Item)
           same == {i \in Ids : rows[i] # NoRow /\ rows[i].live /\ rows[i].name = n}
       IN  \E i \in Ids :
              /\ IF same = {} THEN Fresh(i) ELSE i \in same
              /\ Ledger!Record(i, IF same = {} THEN "create" ELSE "amend", NewRow(n, "document"))
              /\ Settle([kind |-> "imported", id |-> i], {n})
    /\ UNCHANGED <<imports, edits>>

Create ==
    /\ job.stage = "create"
    /\ \E i \in Ids : /\ Fresh(i) /\ Ledger!Create(i, NewRow(Name(Item), "document"))
                      /\ Settle([kind |-> "imported", id |-> i], {Name(Item)})
    /\ UNCHANGED <<imports, edits>>

\* Any other exception, of the look-up or of the create, is one item's error; the
\* create's transaction may have committed all the same.
Fails ==
    /\ Busy
    /\ \/ UNCHANGED <<rows, trail>>
       \/ /\ job.stage = "create"
          /\ \E i \in Ids : Fresh(i) /\ Ledger!Create(i, NewRow(Name(Item), "document"))
    /\ Settle(Plain("failed"), {})
    /\ UNCHANGED <<imports, edits>>

\* The report is sent, or the request dies on the way.
Answer == job.stage = "done" /\ job' = NoJob /\ UNCHANGED <<rows, trail, imports, edits>>
Crash == Busy /\ job' = NoJob /\ UNCHANGED <<rows, trail, imports, edits>>

\* The user creates, renames or edits, deletes and restores entities meanwhile.
Edit ==
    /\ edits < MaxEdits
    /\ edits' = edits + 1
    /\ \/ \E n \in Types \X Names, i \in Ids : Fresh(i) /\ Ledger!Create(i, NewRow(n, "user"))
       \/ \E i \in Ids, n \in Names :
             rows[i] # NoRow /\ Ledger!Amend(i, NewRow(<<rows[i].name[1], n>>, "user"))
       \/ \E i \in Ids : Ledger!Delete(i, {i}) \/ Ledger!Restore(i)
    /\ job' = IF job.stage = "idle" THEN job
              ELSE [job EXCEPT !.seen = @ \cup LiveNames(rows'), !.quiet = FALSE]
    /\ UNCHANGED imports

Next ==
    \/ Arrive \/ Precheck \/ Conflict \/ DryRun \/ Create \/ Fails \/ Answer \/ Crash
    \/ Edit

Spec == Init /\ [][Next]_vars

-----------------------------------------------------------------------------
(* Properties.                                                             *)

Done == job.stage = "done"
Reported(kind) == {k \in DOMAIN job.out : job.out[k].kind = kind}
Ok == \A k \in DOMAIN job.out :
          job.out[k].kind = "imported" \/ (job.skip /\ job.out[k].kind = "conflict")

\* Every variable keeps its type; an item has an id exactly if it is reported as
\* imported, and not by a dry run (a failed one has none, its row written or not).
TypeOK ==
    /\ rows \in [Ids -> Row \cup {NoRow}]
    /\ trail \in [Ids -> Seq([change : {"create", "amend", "delete", "restore"}, row : Row])]
    /\ job.stage \in {"idle", "check", "create", "done"}
    /\ job.doc \in Seq(Entry) /\ job.out \in Seq(Outcome) /\ Len(job.out) = Len(job.doc)
    /\ \A k \in DOMAIN job.out :
          job.out[k].id # NoId <=> job.out[k].kind = "imported" /\ ~job.dry
    /\ job.batch \cup job.start \cup job.seen \subseteq Types \X Names
    /\ {job.dry, job.skip, job.quiet} \subseteq BOOLEAN
    /\ imports \in 0..MaxImports /\ edits \in 0..MaxEdits

\* What a report lists as imported is a row of its own that this import created
\* from that entry: no existing row is taken over, whoever else created the name
\* between the look-up and the INSERT.
ImportedIsCreated ==
    \A k \in Reported("imported") : ~job.dry =>
        LET i == job.out[k].id
        IN  /\ trail[i][1].change = "create"
            /\ trail[i][1].row = NewRow(Name(job.doc[k]), "document")
            /\ \A m \in Reported("imported") \ {k} : job.out[m].id # i

\* A report that says ok, on a document imported in earnest, means that every entry
\* of it has been live under its name while the import ran, the skipped ones and
\* those an earlier attempt had left behind included.
OkMeansThere ==
    Done /\ Ok /\ ~job.dry => \A k \in DOMAIN job.doc : Name(job.doc[k]) \in job.seen

\* Nobody else writing and nothing failing, an import reports of each entry what a
\* dry run of it would: imported if it maps, its name was free and no entry before
\* it in the document has the same name.
Predicted(k) ==
    LET e == job.doc[k]
        before == {Name(job.doc[m]) : m \in {x \in 1..(k - 1) : Maps(job.doc, job.doc[x])}}
    IN  CASE ~Maps(job.doc, e) -> "invalid"
          [] Maps(job.doc, e) /\ Name(e) \in job.start \cup before -> "conflict"
          [] OTHER -> "imported"
ReportAsPredicted ==
    Done /\ job.quiet => \A k \in DOMAIN job.doc : job.out[k].kind = Predicted(k)

\* Nobody else writing and nothing failing, the indices an imported curve names are
\* in the catalog or stored when the import is done ("every helper index ref must
\* resolve", importer.py).
CurvesFindIndices ==
    Done /\ job.quiet /\ ~job.dry =>
        \A k \in Reported("imported") : job.doc[k].type = "curve" =>
            job.doc[k].index \in Catalog \/ <<"index", job.doc[k].index>> \in LiveNames(rows)
=============================================================================
