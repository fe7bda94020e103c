----------------------------- MODULE PricingCall -----------------------------
(***************************************************************************)
(* A pricing request of the orchestrator (POST /v1/price/<product>).  The  *)
(* trade, and what Assembly says it needs (a curve set, curves, a surface, *)
(* a model, an index, the snapshot pin), are read one statement at a time  *)
(* while other requests change them; quotes are resolved, the engine       *)
(* called, and one row of app.pricing_history is written before the        *)
(* answer.  The rows belong to the entity store, taken here at the level   *)
(* of AuditLedger, which EntityStore implements.                           *)
(***************************************************************************)
EXTENDS Assembly

CONSTANTS
    Calls,       \* pricing requests, each made once
    Uid,         \* the authenticated principal of each call
    Requests,    \* the request bodies a call may carry
    Trades, Sets, \* the keys of trades and of curve sets, tables of their own
    Rows, NoRow,
    Saved,       \* the rows that exist when the behaviour starts
    Blocks,      \* the pricing block in a trade's body
    Members,     \* the curves in a curve set's body
    MaxEntries   \* the store changes until it holds this many trail entries

Bodies == DOMAIN Blocks
Request == [trade : Ids \cup {NoId}, inline : Block, with : Override]

ASSUME PricingAssumption ==
    /\ NoRow \notin Rows
    /\ Saved \in [Ids -> Rows \cup {NoRow}]
    /\ \A b \in Bodies : Blocks[b] \in Block
    /\ \A b \in Bodies : Members[b] \in Seq([id : Ids, role : Roles])
    /\ \A r \in Rows : r.body \in Bodies
    /\ \A r \in Rows, l \in BOOLEAN : LET s == [r EXCEPT !.live = l]
                                     IN  s \in Rows /\ s.owner = r.owner /\ s.live = l
    /\ \A q \in Requests : q \in Request /\ (q.trade # NoId => q.inline = NoBlock)
    /\ IsFiniteSet(Ids) /\ MaxEntries \in Nat
    /\ Cardinality({i \in Ids : Saved[i] # NoRow}) <= MaxEntries

\* What a block and an override refer to, the block's curve set aside.
Named(s) == {s[k].id : k \in DOMAIN s}
OfBlock(b) == Named(b.curves) \cup {b.discount, b.forecast, b.credit, b.vol, b.model, b.index, b.spot}
OfOverride(w) == Named(w.curves) \cup {w.credit, w.vol, w.model, w.index, w.spot, w.snap}

\* No reference leads from one table into another.
ASSUME TableAssumption ==
    LET others == Trades \cup Sets
        apart(b) == b.set \in Sets \cup {NoId} /\ OfBlock(b) \cap others = {}
    IN  /\ others \subseteq Ids /\ Trades \cap Sets = {}
        /\ \A b \in Bodies : apart(Blocks[b]) /\ Named(Members[b]) \cap others = {}
        /\ \A q \in Requests : /\ q.trade \in Trades \cup {NoId}
                               /\ apart(q.inline) /\ OfOverride(q.with) \cap others = {}

VARIABLES
    rows, trail,  \* the entity store
    stage,        \* what each call does next
    ask,          \* its request
    todo,         \* entities it has still to read
    used,         \* rows it has read, by id
    result,       \* the outcome the route is about to report
    history,      \* committed rows of app.pricing_history
    answer,       \* what the client got
    begun,        \* (for the properties) versions when the call arrived
    loaded        \* (for the properties) version of the trade when it was read

Store == INSTANCE AuditLedger WITH Inherited <- {Saved}

store == <<rows, trail>>
call == <<stage, ask, todo, used, result, answer, begun, loaded>>
vars == <<store, call, history>>

Stages == {"new", "trade", "set", "refs", "quotes", "engine", "record", "done"}
Outcomes == {"priced", "http_error"}
Answers == [outcome : Outcomes \cup {"none", "internal_error", "lost"}, id : BOOLEAN]
Entry == [call : Calls, trade : Ids \cup {NoId}, version : 0..MaxEntries, outcome : Outcomes]

Says(o, id) == [outcome |-> o, id |-> id]

NoRequest ==
    [trade |-> NoId, inline |-> NoBlock,
     with |-> [product |-> "swap_ir", curves |-> <<>>, credit |-> NoId, vol |-> NoId,
               model |-> NoId, index |-> NoId, spot |-> NoId, snap |-> NoId]]

Init ==
    /\ Store!Init
    /\ stage = [c \in Calls |-> "new"]
    /\ ask = [c \in Calls |-> NoRequest]
    /\ todo = [c \in Calls |-> <<>>]
    /\ used = [c \in Calls |-> [i \in Ids |-> NoRow]]
    /\ result = [c \in Calls |-> "http_error"]
    /\ history = {}
    /\ answer = [c \in Calls |-> Says("none", FALSE)]
    /\ begun = [c \in Calls |-> [i \in Ids |-> 0]]
    /\ loaded = [c \in Calls |-> 0]

-----------------------------------------------------------------------------
(* The store's side.                                                       *)

\* Any other request commits.
StoreStep ==
    /\ Store!Next
    /\ Cardinality(UNION {{i} \X DOMAIN trail'[i] : i \in Ids}) <= MaxEntries
    /\ UNCHANGED <<call, history>>

\* Mutant: the SELECT without its deleted_at condition.
Visible_AnyLife(c, i) == rows[i] # NoRow /\ rows[i].owner = Uid[c]

Visible(c, i) == rows[i] # NoRow /\ rows[i].owner = Uid[c] /\ rows[i].live

\* Mutant: the subquery without its entity_id condition.
HeadVersion_AnyEntity(c, i) ==
    IF i = NoId THEN 0
    ELSE CHOOSE n \in {Len(trail[j]) : j \in Ids} : \A j \in Ids : Len(trail[j]) <= n

\* MAX(version_no) of the owner's versions; NULL (0) for an inline trade.
HeadVersion(c, i) ==
    IF i # NoId /\ rows[i] # NoRow /\ rows[i].owner = Uid[c] THEN Len(trail[i]) ELSE 0

-----------------------------------------------------------------------------
(* The route.                                                              *)

Goto(c, s) == stage' = [stage EXCEPT ![c] = s]

\* A structured error on any stage inside the try ends in the failure hook.
Raise(c) == /\ Goto(c, "record")
            /\ result' = [result EXCEPT ![c] = "http_error"]

Use(c, i) == used' = [used EXCEPT ![c][i] = rows[i]]

\* With the trade at hand: the curve set if the curves hang on it, else the rows.
Plan(c, q, b) ==
    IF NeedsSet(q, b) THEN Goto(c, "set") /\ UNCHANGED todo
    ELSE Goto(c, "refs") /\ todo' = [todo EXCEPT ![c] = Reads(q, b, <<>>)]

Arrive(c) ==
    /\ stage[c] = "new"
    /\ \E q \in Requests :
          /\ ask' = [ask EXCEPT ![c] = q]
          /\ IF q.trade = NoId THEN Plan(c, q.with, q.inline)
             ELSE Goto(c, "trade") /\ UNCHANGED todo
    /\ begun' = [begun EXCEPT ![c] = [i \in Ids |-> Len(trail[i])]]
    /\ UNCHANGED <<store, used, result, history, answer, loaded>>

\* _load_trade
LoadTrade(c) ==
    LET i == ask[c].trade
    IN  /\ stage[c] = "trade"
        /\ \/ /\ ~Visible(c, i)
              /\ Raise(c)
              /\ UNCHANGED <<todo, used, loaded>>
           \/ /\ Visible(c, i)
              /\ Use(c, i)
              /\ loaded' = [loaded EXCEPT ![c] = Len(trail[i])]
              /\ Plan(c, ask[c].with, Blocks[rows[i].body])
              /\ UNCHANGED result
        /\ UNCHANGED <<store, ask, history, answer, begun>>

\* The block and the curve-set entries a call works with, from what it read.
BlockOf(c) ==
    IF ask[c].trade = NoId THEN ask[c].inline ELSE Blocks[used[c][ask[c].trade].body]
MembersOf(c) ==
    IF NeedsSet(ask[c].with, BlockOf(c)) THEN Members[used[c][BlockOf(c).set].body] ELSE <<>>

\* _refs_from_curve_set: a set that has vanished, or whose entries are malformed,
\* raises; its curves are read afterwards, one statement each.
LoadSet(c) ==
    LET i == BlockOf(c).set
    IN  /\ stage[c] = "set"
        /\ \/ /\ ~Visible(c, i)
              /\ Raise(c)
              /\ UNCHANGED <<todo, used>>
           \/ /\ Visible(c, i)
              /\ Use(c, i)
              /\ Goto(c, "refs")
              /\ todo' = [todo EXCEPT ![c] =
                             Reads(ask[c].with, BlockOf(c), Members[rows[i].body])]
              /\ UNCHANGED result
        /\ UNCHANGED <<store, ask, history, answer, begun, loaded>>

\* The next row, or the point where a missing reference raises.  A row that is
\* there may still be refused: a surface of the wrong kind, a malformed payload.
LoadNext(c) ==
    /\ stage[c] = "refs" /\ todo[c] # <<>>
    /\ LET i == Head(todo[c])
       IN  \/ /\ Raise(c)
              /\ UNCHANGED <<todo, used>>
           \/ /\ i # NoId /\ Visible(c, i)
              /\ Use(c, i)
              /\ todo' = [todo EXCEPT ![c] = Tail(@)]
              /\ UNCHANGED <<stage, result>>
    /\ UNCHANGED <<store, ask, history, answer, begun, loaded>>

\* Pins and the market-data client: every quote, or a 422 or MD error.
ResolveQuotes(c) ==
    /\ \/ /\ stage[c] = "refs" /\ todo[c] = <<>>
          /\ Goto(c, "quotes") /\ UNCHANGED result
       \/ /\ stage[c] = "quotes"
          /\ \/ Goto(c, "engine") /\ UNCHANGED result
             \/ Raise(c)
    /\ UNCHANGED <<store, ask, todo, used, history, answer, begun, loaded>>

\* The engine answers, or its failure is mapped to a structured error.
CallEngine(c) ==
    /\ stage[c] = "engine"
    /\ \/ Raise(c)
       \/ Goto(c, "record") /\ result' = [result EXCEPT ![c] = "priced"]
    /\ UNCHANGED <<store, ask, todo, used, history, answer, begun, loaded>>

\* Mutant: the outcome is taken from the answer, which is not built yet.
Row_FromAnswer(c) == [call |-> c, trade |-> ask[c].trade,
                      version |-> HeadVersion(c, ask[c].trade), outcome |-> answer[c].outcome]

Row(c) == [call |-> c, trade |-> ask[c].trade, version |-> HeadVersion(c, ask[c].trade),
           outcome |-> result[c]]

\* Mutants: a failed audit write fails the request; the failure hook writes
\* before the outcome is settled, so every row says "priced".
Record_Raises(c) ==
    /\ stage[c] = "record"
    /\ Goto(c, "done")
    /\ \/ /\ history' = history \cup {Row(c)}
          /\ answer' = [answer EXCEPT ![c] = Says(result[c], result[c] = "priced")]
       \/ /\ UNCHANGED history
          /\ answer' = [answer EXCEPT ![c] = Says("internal_error", FALSE)]
    /\ UNCHANGED <<store, ask, todo, used, result, begun, loaded>>
Record_Early(c) ==
    /\ stage[c] = "record"
    /\ Goto(c, "done")
    /\ history' = history \cup {[Row(c) EXCEPT !.outcome = "priced"]}
    /\ answer' = [answer EXCEPT ![c] = Says(result[c], result[c] = "priced")]
    /\ UNCHANGED <<store, ask, todo, used, result, begun, loaded>>

\* record_pricing_call never raises: the row is committed and its id returned,
\* or the write fails and the answer carries no id; a commit whose
\* acknowledgement is lost leaves the row and returns none.  Only a priced
\* answer has an id field.
Record(c) ==
    /\ stage[c] = "record"
    /\ Goto(c, "done")
    /\ \/ /\ history' = history \cup {Row(c)}
          /\ \E id \in {result[c] = "priced", FALSE} :
                answer' = [answer EXCEPT ![c] = Says(result[c], id)]
       \/ /\ UNCHANGED history
          /\ answer' = [answer EXCEPT ![c] = Says(result[c], FALSE)]
    /\ UNCHANGED <<store, ask, todo, used, result, begun, loaded>>

Reading(c) == stage[c] \in {"trade", "set", "refs", "quotes"}

\* An exception that is no HTTPException (a database error in assemble, a
\* response model that does not validate) passes the except clause and gets
\* the catch-all handler's 500.
Unexpected(c) ==
    /\ Reading(c)
    /\ Goto(c, "done")
    /\ answer' = [answer EXCEPT ![c] = Says("internal_error", FALSE)]
    /\ UNCHANGED <<store, ask, todo, used, result, history, begun, loaded>>

\* The process dies; at the history write the row may already be committed.
Crash(c) ==
    /\ stage[c] \notin {"new", "done"}
    /\ Goto(c, "done")
    /\ answer' = [answer EXCEPT ![c] = Says("lost", FALSE)]
    /\ \/ UNCHANGED history
       \/ stage[c] = "record" /\ history' = history \cup {Row(c)}
    /\ UNCHANGED <<store, ask, todo, used, result, begun, loaded>>

Step(c) ==
    LoadTrade(c) \/ LoadSet(c) \/ LoadNext(c) \/ ResolveQuotes(c) \/ CallEngine(c) \/ Record(c)

\* Each call is made once, so a behaviour may come to rest when all have ended.
AllEnded == (\A c \in Calls : stage[c] = "done") /\ UNCHANGED vars

Next == \/ StoreStep
        \/ \E c \in Calls : Arrive(c) \/ Step(c) \/ Unexpected(c) \/ Crash(c)
        \/ AllEnded

Spec == Init /\ [][Next]_vars

-----------------------------------------------------------------------------
(* Properties.                                                             *)

TypeOK ==
    /\ rows \in [Ids -> Rows \cup {NoRow}]
    /\ stage \in [Calls -> Stages]
    /\ ask \in [Calls -> Request]
    /\ todo \in [Calls -> Seq(Ids \cup {NoId})]
    /\ used \in [Calls -> [Ids -> Rows \cup {NoRow}]]
    /\ result \in [Calls -> Outcomes]
    /\ history \subseteq Entry
    /\ answer \in [Calls -> Answers]
    /\ begun \in [Calls -> [Ids -> 0..MaxEntries]]
    /\ loaded \in [Calls -> 0..MaxEntries]

\* The trade_version of a priced call is a version the trade went through no
\* earlier than the priced one, and it is the priced one when nobody changed the
\* trade during the call.
VersionWithinCall ==
    \A h \in history : h.outcome = "priced" /\ h.trade # NoId =>
        /\ h.version \in loaded[h.call]..Len(trail[h.trade])
        /\ Len(trail[h.trade]) = begun[h.call][h.trade] => h.version = loaded[h.call]

\* Every row a call prices was committed and live at some moment of that call:
\* concurrent edits can mix versions of different rows, never bring in a row
\* deleted or replaced before the call began.
InputsCurrentDuringCall ==
    \A c \in Calls, i \in Ids : used[c][i] # NoRow =>
        /\ used[c][i].live
        /\ \E n \in begun[c][i]..Len(trail[i]) : n > 0 /\ trail[i][n].row = used[c][i]

\* The audit row of a call says what its client was told, and the id a priced
\* answer carries names a row that exists; a call never has two rows.
AuditMatchesAnswer ==
    /\ \A h \in history :
          /\ answer[h.call].outcome \in {h.outcome, "lost"}
          /\ \A g \in history : g.call = h.call => g = h
    /\ \A c \in Calls : answer[c].id =>
          \E h \in history : h.call = c /\ h.outcome = "priced"

\* A price the engine delivered reaches the client, whatever becomes of the
\* audit row; only the death of the process takes it away.
PriceSurvivesAuditFailure ==
    \A c \in Calls : stage[c] = "done" /\ result[c] = "priced" =>
        answer[c].outcome \in {"priced", "lost"}

\* When the engine is called every role is filled, and by a row the call has read
\* (the trade, the set and the curves come from separate statements), or by an
\* inline definition.
RolesWereRead ==
    \A c \in Calls : stage[c] = "engine" =>
        \A k \in 1..2 : LET x == Curves(ask[c].with, BlockOf(c), MembersOf(c))[k]
                        IN  x = Literal \/ x \in {i \in Ids : used[c][i] # NoRow}

\* equity_options/assembler.py, _split_into_discount_and_dividend: "Honors an
\* explicit ``role`` if pinned on at least one curve".
PinnedRoleHonoured ==
    \A c \in Calls :
        LET q == ask[c].with
            list == CurveList(q, BlockOf(c), MembersOf(c))
        IN  stage[c] = "engine" /\ q.product = "equity_option" =>
                \A k \in 1..2 : LET pinned == {n \in DOMAIN list : list[n].role = EquityRoles[k]}
                                IN  Cardinality(pinned) = 1 =>
                                        Curves(q, BlockOf(c), MembersOf(c))[k] = Pick(list, pinned, 1)

\* 0014_pricing_hist_trade_version.py: the row "records exactly which VERSION
\* of that entity was priced".
PricedVersionRecorded ==
    \A h \in history : h.outcome = "priced" /\ h.trade # NoId =>
        trail[h.trade][h.version].row = used[h.call][h.trade]
=============================================================================
