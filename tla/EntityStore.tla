---------------------------- MODULE EntityStore ----------------------------
(***************************************************************************)
(* The orchestrator's CrudRepository over PostgreSQL: one entity table of  *)
(* schema app (head rows) and its part of app.entity_versions.  Every      *)
(* mutating request is one READ COMMITTED transaction of several           *)
(* statements: the head-row write, the version insert numbered MAX + 1,    *)
(* for a wrapper's delete the same pair for the save-graph sibling, then   *)
(* the commit.  Requests of many clients interleave between statements.    *)
(*                                                                         *)
(* An uncommitted head row (draft[c][i]) doubles as the row lock client c  *)
(* holds on i, as in PostgreSQL.  A statement that meets a lock or a       *)
(* uniqueness check against an open transaction waits: its action is       *)
(* disabled until the other transaction ends.                              *)
(***************************************************************************)
EXTENDS Integers, FiniteSets

CONSTANTS
    Clients,     \* request slots; a slot serves one request at a time
    Owners,      \* owner_uid values
    OwnerOf,     \* the authenticated principal of each client
    Ids,         \* primary keys a create can be given
    Names,       \* values of the name column
    Bodies,      \* values of the remaining scalar / JSONB columns
    Patches,     \* PATCH bodies; a column left out holds Keep
    NoId, NoRow, Keep,
    Inherited,   \* the tables a store may start with: migration 0013's, or empty ones
    MaxVersions  \* no new write request starts once this many versions exist

Row == [owner : Owners, name : Names, app : Ids \cup {NoId},
        body : Bodies, live : BOOLEAN]

Changes == {"create", "amend", "delete", "restore"}
Version == [id : Ids, no : Nat \ {0}, change : Changes, row : Row]

Patch == [name : Names \cup {Keep}, app : Ids \cup {NoId, Keep},
          body : Bodies \cup {Keep}]
EmptyPatch == [name |-> Keep, app |-> Keep, body |-> Keep]
Ops == {"create", "patch", "delete", "restore"}
Request == [op : Ops, id : Ids \cup {NoId}, set : Patch]
NoRequest == [op |-> "create", id |-> NoId, set |-> EmptyPatch]

Steps == {"idle", "get", "read", "head", "index", "version", "cascade",
          "commit", "refetch"}
Replies == {"none", "ok", "not_found", "name_conflict", "error", "lost"}

ASSUME SentinelAssumption ==
    /\ NoId \notin Ids
    /\ NoRow \notin Row
    /\ Keep \notin Names \cup Ids \cup Bodies \cup {NoId}
ASSUME RequestAssumption ==
    /\ OwnerOf \in [Clients -> Owners]
    /\ Patches \subseteq Patch
    /\ MaxVersions \in Nat

\* The partial unique index on (owner_uid, name) WHERE deleted_at IS NULL.
SameKey(r, s) ==
    r # NoRow /\ s # NoRow /\ r.live /\ s.live /\ r.owner = s.owner /\ r.name = s.name

\* Tables older than the audit trail obey the index, and name rows that exist.
ASSUME InheritedAssumption ==
    /\ Inherited \subseteq [Ids -> Row \cup {NoRow}]
    /\ \A h \in Inherited, i \in Ids : h[i] # NoRow =>
          /\ h[i].app = NoId \/ h[h[i].app] # NoRow
          /\ \A j \in Ids \ {i} : ~SameKey(h[i], h[j])

VARIABLES
    head,      \* committed row of each id
    versions,  \* committed rows of app.entity_versions
    pc,        \* the statement each client's request runs next
    req,       \* the request each client is serving
    cur,       \* the row whose version row the transaction owes
    draft,     \* head rows written and not yet committed (the row locks)
    vdraft,    \* version rows inserted and not yet committed
    reply      \* the outcome of each client's last request

vars == <<head, versions, pc, req, cur, draft, vdraft, reply>>

NoDraft == [i \in Ids |-> NoRow]

\* Migration 0013 gives every row it finds, deleted ones too, a version 1 "create".
Backfilled(h) ==
    {[id |-> i, no |-> 1, change |-> "create", row |-> h[i]] : i \in {j \in Ids : h[j] # NoRow}}

Init == /\ head \in Inherited
        /\ versions = Backfilled(head)
        /\ pc = [c \in Clients |-> "idle"]
        /\ req = [c \in Clients |-> NoRequest]
        /\ cur = [c \in Clients |-> NoId]
        /\ draft = [c \in Clients |-> NoDraft]
        /\ vdraft = [c \in Clients |-> {}]
        /\ reply = [c \in Clients |-> "none"]

-----------------------------------------------------------------------------
(* What a statement of c's transaction sees and waits for.                 *)

\* The committed row of i; NoId is an id no row has.
Stored(i) == IF i = NoId THEN NoRow ELSE head[i]

View(c, i) == IF i # NoId /\ draft[c][i] # NoRow THEN draft[c][i] ELSE Stored(i)

Owned(c, r) == r # NoRow /\ r.owner = OwnerOf[c]

\* Mutant: the UPDATE without its deleted_at condition.
Matches_AnyLife(c, i) == Owned(c, View(c, i))
\* The WHERE clause of each UPDATE: owner-scoped, and live except for restore.
Matches(c, i) ==
    LET r == View(c, i)
    IN  Owned(c, r) /\ (r.live <=> (req[c].op # "restore"))

LockedFor(c, i) == \E d \in Clients \ {c} : draft[d][i] # NoRow

\* An open transaction d has an index entry for r's key that its end decides:
\* one of a row it is updating, or one it has inserted itself.
KeyHeldBy(d, r) ==
    \E i \in Ids : /\ draft[d][i] # NoRow
                   /\ \/ SameKey(head[i], r)
                      \/ SameKey(draft[d][i], r) /\ ~(pc[d] = "index" /\ cur[d] = i)

\* Mutant: a restored row is not checked against the rows that came after it.
KeyTaken_NotOnRestore(c, i) ==
    req[c].op # "restore" /\ \E j \in Ids \ {i} : SameKey(head[j], draft[c][i])

KeyTaken(c, i) == \E j \in Ids \ {i} : SameKey(head[j], draft[c][i])

NumbersOf(vs, i) == {v.no : v \in {w \in vs : w.id = i}}

\* Mutants: the + 1 is lost; the entity_id condition is lost.
NextNo_NoIncrement(vs, i) ==
    CHOOSE n \in NumbersOf(vs, i) \cup {0} : \A m \in NumbersOf(vs, i) \cup {0} : m <= n
NextNo_WholeTable(vs, i) ==
    LET ns == {v.no : v \in vs} \cup {0}
    IN  1 + (CHOOSE n \in ns : \A m \in ns : m <= n)

\* COALESCE(MAX(version_no), 0) + 1 over what the transaction sees.
NextNo(vs, i) ==
    1 + (CHOOSE n \in NumbersOf(vs, i) \cup {0} :
            \A m \in NumbersOf(vs, i) \cup {0} : m <= n)

-----------------------------------------------------------------------------
(* Ends of a request.                                                      *)

\* Rolls back, or ends a request that wrote nothing; the client gets r.
Abandon(c, r) ==
    /\ pc' = [pc EXCEPT ![c] = "idle"]
    /\ req' = [req EXCEPT ![c] = NoRequest]
    /\ cur' = [cur EXCEPT ![c] = NoId]
    /\ draft' = [draft EXCEPT ![c] = NoDraft]
    /\ vdraft' = [vdraft EXCEPT ![c] = {}]
    /\ reply' = [reply EXCEPT ![c] = r]
    /\ UNCHANGED <<head, versions>>

Goto(c, step) == pc' = [pc EXCEPT ![c] = step]

-----------------------------------------------------------------------------
(* Arrival.                                                                *)

\* Clients name rows they have seen: a save graph is created before its wrapper.
KnownRefs == {NoId} \cup {i \in Ids : head[i] # NoRow}

\* gen_random_uuid() gives each create an id no row and no other create has.
FreshIds == {i \in Ids : head[i] = NoRow /\ \A c \in Clients : req[c].id # i}

CreateRequests ==
    [op : {"create"}, id : FreshIds, set : [name : Names, app : KnownRefs, body : Bodies]]
PatchRequests ==
    [op : {"patch"}, id : KnownRefs, set : {p \in Patches : p.app \in KnownRefs \cup {Keep}}]
OtherRequests == [op : {"delete", "restore"}, id : KnownRefs, set : {EmptyPatch}]

FirstStep(q) ==
    CASE q.op = "restore" -> "read"
      [] q.op = "patch" /\ q.set = EmptyPatch -> "get"
      [] OTHER -> "head"

Arrive(c) ==
    /\ pc[c] = "idle"
    /\ \E q \in CreateRequests \cup PatchRequests \cup OtherRequests :
          /\ Cardinality(versions) < MaxVersions \/ FirstStep(q) = "get"
          /\ req' = [req EXCEPT ![c] = q]
          /\ Goto(c, FirstStep(q))
    /\ reply' = [reply EXCEPT ![c] = "none"]
    /\ UNCHANGED <<head, versions, cur, draft, vdraft>>

-----------------------------------------------------------------------------
(* Reads on the read-only pool, outside any write transaction.             *)

\* A PATCH with no columns answers with get().
Get(c) ==
    /\ pc[c] = "get"
    /\ LET r == Stored(req[c].id)
       IN  Abandon(c, IF Owned(c, r) /\ r.live THEN "ok" ELSE "not_found")

\* restore() first fetches the row whatever its deleted_at.
ReadForRestore(c) ==
    /\ pc[c] = "read"
    /\ LET r == Stored(req[c].id)
       IN  \/ ~Owned(c, r) /\ Abandon(c, "not_found")
           \/ Owned(c, r) /\ r.live /\ Abandon(c, "ok")
           \/ /\ Owned(c, r) /\ ~r.live
              /\ Goto(c, "head")
              /\ UNCHANGED <<head, versions, req, cur, draft, vdraft, reply>>

\* Mutant: a restore that updated nothing starts over instead of re-reading.
Refetch_Retry(c) ==
    /\ pc[c] = "refetch"
    /\ Goto(c, "head")
    /\ UNCHANGED <<head, versions, req, cur, draft, vdraft, reply>>

\* After an UPDATE of no row: delete() fetches any row, restore() a live one.
Refetch(c) ==
    /\ pc[c] = "refetch"
    /\ LET r == Stored(req[c].id)
       IN  Abandon(c, IF Owned(c, r) /\ (req[c].op = "delete" \/ r.live)
                      THEN "ok" ELSE "not_found")

-----------------------------------------------------------------------------
(* The write transaction.                                                  *)

WriteHead(c, i, r, step) ==
    /\ draft' = [draft EXCEPT ![c][i] = r]
    /\ cur' = [cur EXCEPT ![c] = i]
    /\ Goto(c, step)
    /\ UNCHANGED <<head, versions, req, vdraft, reply>>

Inserted(c) ==
    [owner |-> OwnerOf[c], name |-> req[c].set.name, app |-> req[c].set.app,
     body |-> req[c].set.body, live |-> TRUE]

InsertHead(c) ==
    /\ pc[c] = "head" /\ req[c].op = "create"
    /\ WriteHead(c, req[c].id, Inserted(c), "index")

Set(old, new) == IF new = Keep THEN old ELSE new

\* The SET list of each UPDATE: only the named columns, or only deleted_at.
Updated(c, r) ==
    LET s == req[c].set
    IN  [owner |-> r.owner, name |-> Set(r.name, s.name), app |-> Set(r.app, s.app),
         body |-> Set(r.body, s.body), live |-> req[c].op # "delete"]

\* Mutant: the head write commits on its own, so no lock of it is left to wait for.
UpdateHead_SplitTransaction(c) ==
    LET i == req[c].id
    IN  /\ pc[c] = "head" /\ req[c].op # "create"
        /\ Matches(c, i)
        /\ WriteHead(c, i, Updated(c, View(c, i)),
                     IF req[c].op = "delete" THEN "version" ELSE "index")

UpdateHead(c) ==
    LET i == req[c].id
    IN  /\ pc[c] = "head" /\ req[c].op # "create"
        /\ Matches(c, i)
        /\ ~LockedFor(c, i)
        /\ WriteHead(c, i, Updated(c, View(c, i)),
                     IF req[c].op = "delete" THEN "version" ELSE "index")

\* The UPDATE returned no row; the empty transaction commits.
MissHead(c) ==
    /\ pc[c] = "head" /\ req[c].op # "create"
    /\ ~Matches(c, req[c].id)
    /\ \/ req[c].op = "patch" /\ Abandon(c, "not_found")
       \/ /\ req[c].op # "patch"
          /\ Goto(c, "refetch")
          /\ UNCHANGED <<head, versions, req, cur, draft, vdraft, reply>>

\* The index entry of the new row version: waits for open transactions on the
\* key, then raises (translated to 409) or inserts.
ClaimName(c) ==
    /\ pc[c] = "index"
    /\ \A d \in Clients \ {c} : ~KeyHeldBy(d, draft[c][cur[c]])
    /\ \/ KeyTaken(c, cur[c]) /\ Abandon(c, "name_conflict")
       \/ /\ ~KeyTaken(c, cur[c])
          /\ Goto(c, "version")
          /\ UNCHANGED <<head, versions, req, cur, draft, vdraft, reply>>

ChangeType(op) == IF op = "patch" THEN "amend" ELSE op

\* Mutant: the wrapper flag is dropped from the delete's RETURNING list.
CascadeDue_NoFlag(c) == FALSE

\* soft_delete goes on to the sibling only for a wrapper row with an appId.
CascadeDue(c) ==
    req[c].op = "delete" /\ cur[c] = req[c].id /\ draft[c][cur[c]].app # NoId

\* Mutants: the snapshot is the row before the change; the cascaded sibling's
\* delete is not recorded.
WriteVersion_PreImage(c) ==
    LET i == cur[c]
        n == NextNo(versions \cup vdraft[c], i)
    IN  /\ pc[c] = "version"
        /\ vdraft' = [vdraft EXCEPT ![c] = @ \cup
               {[id |-> i, no |-> n, change |-> ChangeType(req[c].op),
                 row |-> IF head[i] = NoRow THEN draft[c][i] ELSE head[i]]}]
        /\ Goto(c, IF CascadeDue(c) THEN "cascade" ELSE "commit")
        /\ UNCHANGED <<head, versions, req, cur, draft, reply>>
WriteVersion_NotSibling(c) ==
    LET i == cur[c]
        n == NextNo(versions \cup vdraft[c], i)
    IN  /\ pc[c] = "version"
        /\ vdraft' = IF i # req[c].id THEN vdraft ELSE
               [vdraft EXCEPT ![c] = @ \cup
                 {[id |-> i, no |-> n, change |-> ChangeType(req[c].op), row |-> draft[c][i]]}]
        /\ Goto(c, IF CascadeDue(c) THEN "cascade" ELSE "commit")
        /\ UNCHANGED <<head, versions, req, cur, draft, reply>>

\* The INSERT's unique constraint is left out: BackstopIdle shows it never acts.
WriteVersion(c) ==
    LET i == cur[c]
        n == NextNo(versions \cup vdraft[c], i)
    IN  /\ pc[c] = "version"
        /\ vdraft' = [vdraft EXCEPT ![c] = @ \cup
               {[id |-> i, no |-> n, change |-> ChangeType(req[c].op), row |-> draft[c][i]]}]
        /\ Goto(c, IF CascadeDue(c) THEN "cascade" ELSE "commit")
        /\ UNCHANGED <<head, versions, req, cur, draft, reply>>

Cascade(c) ==
    LET i == draft[c][req[c].id].app
    IN  /\ pc[c] = "cascade"
        /\ \/ /\ Matches(c, i)
              /\ ~LockedFor(c, i)
              /\ WriteHead(c, i, Updated(c, View(c, i)), "version")
           \/ /\ ~Matches(c, i)
              /\ Goto(c, "commit")
              /\ UNCHANGED <<head, versions, req, cur, draft, vdraft, reply>>

\* COMMIT; the answer reaches the client or is lost with its connection.
Commit(c) ==
    /\ pc[c] = "commit"
    /\ head' = [i \in Ids |-> View(c, i)]
    /\ versions' = versions \cup vdraft[c]
    /\ Goto(c, "idle")
    /\ req' = [req EXCEPT ![c] = NoRequest]
    /\ cur' = [cur EXCEPT ![c] = NoId]
    /\ draft' = [draft EXCEPT ![c] = NoDraft]
    /\ vdraft' = [vdraft EXCEPT ![c] = {}]
    /\ \E r \in {"ok", "lost"} : reply' = [reply EXCEPT ![c] = r]

-----------------------------------------------------------------------------
(* Failures.                                                               *)

\* The process dies or the connection drops: PostgreSQL rolls back.
Crash(c) == pc[c] # "idle" /\ Abandon(c, "lost")

WaitsForRow(c, i, d) == Matches(c, i) /\ draft[d][i] # NoRow

WaitsFor(c, d) ==
    /\ c # d
    /\ \/ pc[c] = "head" /\ req[c].op # "create" /\ WaitsForRow(c, req[c].id, d)
       \/ pc[c] = "cascade" /\ WaitsForRow(c, draft[c][req[c].id].app, d)
       \/ pc[c] = "index" /\ KeyHeldBy(d, draft[c][cur[c]])

\* PostgreSQL's deadlock detector aborts one transaction of a waiting cycle.
InDeadlock(c) ==
    \E S \in SUBSET Clients :
        /\ c \in S
        /\ \A d \in S : (\E e \in S : WaitsFor(d, e)) /\ (\E e \in S : WaitsFor(e, d))

DeadlockAbort(c) == InDeadlock(c) /\ Abandon(c, "error")

-----------------------------------------------------------------------------
Statement(c) ==
    \/ Get(c) \/ ReadForRestore(c) \/ Refetch(c)
    \/ InsertHead(c) \/ UpdateHead(c) \/ MissHead(c) \/ ClaimName(c)
    \/ WriteVersion(c) \/ Cascade(c) \/ Commit(c)

Next == \E c \in Clients : Arrive(c) \/ Statement(c) \/ Crash(c) \/ DeadlockAbort(c)

Spec == Init /\ [][Next]_vars

\* PostgreSQL grants row and index waits in order of arrival, so a statement
\* that could run again and again does run; it breaks every waiting cycle.
Fairness == \A c \in Clients : SF_vars(Statement(c)) /\ WF_vars(DeadlockAbort(c))

FairSpec == Spec /\ Fairness

-----------------------------------------------------------------------------
(* Properties.                                                             *)

\* Every variable keeps its type: requests, drafts and versions are well formed.
TypeOK ==
    /\ head \in [Ids -> Row \cup {NoRow}]
    /\ versions \subseteq Version
    /\ pc \in [Clients -> Steps]
    /\ req \in [Clients -> Request]
    /\ cur \in [Clients -> Ids \cup {NoId}]
    /\ draft \in [Clients -> [Ids -> Row \cup {NoRow}]]
    /\ vdraft \in [Clients -> SUBSET Version]
    /\ reply \in [Clients -> Replies]

\* Two open transactions never hold version rows of the same number for the
\* same entity: writers serialise on the head row before they number, so the
\* unique constraint on (entity_id, version_no) is a backstop that never acts.
BackstopIdle ==
    \A c, d \in Clients : c # d =>
        \A v \in vdraft[c] : \A w \in versions \cup vdraft[d] : <<v.id, v.no>> # <<w.id, w.no>>

\* The versions of an entity are numbered 1..n with no gap and no repetition,
\* whatever transactions aborted, crashed or deadlocked on the way.
VersionsContiguous ==
    /\ \A i \in Ids : NumbersOf(versions, i) = 1..(NextNo(versions, i) - 1)
    /\ \A v, w \in versions : v.id = w.id /\ v.no = w.no => v = w

\* The newest version of an entity is a snapshot of its head row.
HeadIsLastVersion ==
    \A i \in Ids :
        IF head[i] = NoRow THEN NumbersOf(versions, i) = {}
        ELSE \E v \in versions : /\ v.id = i /\ v.row = head[i]
                                 /\ \A n \in NumbersOf(versions, i) : n <= v.no

\* Read in order, an entity's versions are a possible life: one create first;
\* amend and delete only from a live row, restore only from a deleted one;
\* delete and restore change nothing else.  A repeated delete adds no version.
\* A life that began before the audit trail opens with the row as migration 0013
\* found it, a deleted one included; every later snapshot fits its change.
FoundAtMigration(v) == v.no = 1 /\ \E h \in Inherited : h[v.id] = v.row
HistoryReplays ==
    \A w \in versions :
        /\ w.change = "create" <=> w.no = 1
        /\ FoundAtMigration(w) \/ (w.row.live <=> w.change # "delete")
        /\ \A v \in versions : v.id = w.id /\ w.no = v.no + 1 =>
              /\ v.row.live <=> w.change \in {"amend", "delete"}
              /\ w.change \in {"delete", "restore"} =>
                    w.row = [v.row EXCEPT !.live = w.row.live]
              /\ v.row.owner = w.row.owner

\* At most one live row per owner and name, however creates, renames, deletes
\* and restores of the same name interleave.
LiveNamesUnique ==
    \A i, j \in Ids : i # j => ~SameKey(head[i], head[j])

\* A wrapper's delete leaves no live save-graph row of its owner behind, whoever
\* edits, deletes or restores that row meanwhile; only a row that has been brought
\* back from an earlier deletion may be live, for the cascade may have met it dead.
Deletes(c) == /\ pc[c] = "commit" /\ req[c].op = "delete"
              /\ head[req[c].id].live /\ ~head'[req[c].id].live
BroughtBack(i) == \E v \in versions : v.id = i /\ v.change = "restore"
CascadeComplete ==
    [][\A c \in Clients : Deletes(c) =>
          LET graph == head[req[c].id].app
          IN  \/ graph = NoId \/ head'[graph] = NoRow \/ ~head'[graph].live
              \/ head'[graph].owner # head[req[c].id].owner
              \/ BroughtBack(graph)]_vars

\* A committed row changes only when a request of its own owner commits, the
\* cascade to a row named by a client-supplied appId included.
OnlyOwnerChanges ==
    [][\A i \in Ids : head'[i] # head[i] =>
          \E c \in Clients : /\ pc[c] = "commit" /\ pc'[c] = "idle"
                             /\ Owned(c, head'[i])
                             /\ head[i] = NoRow \/ Owned(c, head[i])]_vars

\* A PATCH keeps every column it does not name, also when another PATCH of the
\* same row committed while it waited for the row lock.
PatchKeepsOtherColumns ==
    [][\A c \in Clients :
         pc[c] = "commit" /\ req[c].op = "patch" /\ head' # head =>
            LET i == req[c].id
            IN  /\ req[c].set.name = Keep => head'[i].name = head[i].name
                /\ req[c].set.body = Keep => head'[i].body = head[i].body
                /\ req[c].set.app = Keep => head'[i].app = head[i].app]_vars

\* Every request ends with an answer, row locks, index waits and the deadlocks
\* between the two notwithstanding.
EveryRequestEnds == \A c \in Clients : pc[c] # "idle" ~> pc[c] = "idle"

-----------------------------------------------------------------------------
(* The store implements AuditLedger: a commit is one ledger step.          *)

Trail(i) == [n \in NumbersOf(versions, i) |->
                LET v == CHOOSE w \in versions : w.id = i /\ w.no = n
                IN  [change |-> v.change, row |-> v.row]]

Ledger == INSTANCE AuditLedger WITH
              rows <- head, trail <- [i \in Ids |-> Trail(i)], Rows <- Row

LedgerSpec == Ledger!Spec
=============================================================================
