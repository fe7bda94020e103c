----------------------------- MODULE SaveGraph -----------------------------
(***************************************************************************)
(* The portal's product pages (frontend/src/pages/products) saving a trade. *)
(* Save persists a graph of rows leaf to root, one request each: curves,   *)
(* curve set, product-specific leaf, trade.  The ids are then stamped on a *)
(* wrapper row, the page's own record of the trade; from then on the page  *)
(* saves by PATCHing the stamped ids and prices by reference, which the    *)
(* orchestrator resolves as Assembly says.  Requests fail, acknowledgements *)
(* get lost, two tabs work from caches loaded once, and the user duplicates *)
(* wrappers and deletes them and rows in between.  Wrappers read from a    *)
(* file (a page's import, the backup's restore) are left out.              *)
(*                                                                         *)
(* A save is known by its number: a row's edit is the last save that wrote *)
(* it.  Names are left out: a name already taken is one of the failures.   *)
(***************************************************************************)
EXTENDS Assembly

CONSTANTS
    Pages,      \* the products whose page is opened
    Tabs,       \* the browser tabs on pages of a product
    Entries,    \* local ids, in the order they are generated
    NoGraph,    \* what a cache holds of an entry it does not know
    MaxSaves,   \* no save starts after this many
    MaxDeleted  \* the user deletes no row once this many are gone

ASSUME PortalAssumption ==
    /\ Pages \subseteq Products \ {"fx_forward"} /\ Pages \subseteq DOMAIN Tabs
    /\ Ids \cup Entries \subseteq Nat \ {0}
    /\ NoId = 0
    /\ MaxSaves \in Nat /\ MaxDeleted \in Nat

VARIABLES
    product,  \* the product of this behaviour
    rows,     \* server rows, numbered as they are created
    entries,  \* server wrapper rows, likewise
    cache,    \* what each tab last heard of the wrappers
    page,     \* the entry a tab shows (0: a new one) and the graph it remembers
    job,      \* the save a tab is running
    saves,    \* saves started
    origin    \* for the properties: the entry a copy was first made from, else itself

vars == <<product, rows, entries, cache, page, job, saves, origin>>

Keys == {"discount", "forward", "projection", "dividend", "nominal", "inflation"}
Parts == Keys \cup {"set", "credit", "vol", "model", "index", "trade"}

\* The curve lists a page may persist, by key.
CurveKeys(p) ==
    CASE p \in {"swap_ir", "swaption"} -> {<<"discount">>, <<"discount", "forward">>}
      [] p \in {"bond_fixed", "cds"} -> {<<"discount">>}
      [] p = "bond_floating" -> {<<"discount", "projection">>}
      [] p = "equity_option" -> {<<"discount">>, <<"discount", "dividend">>}
      [] p = "swap_inflation" -> {<<"nominal", "inflation">>}

Leaves(p) ==
    CASE p \in {"swap_ir", "bond_fixed"} -> <<"set">>
      [] p = "bond_floating" -> <<"set", "index">>
      [] p = "swaption" -> <<"set", "vol", "model">>
      [] p = "cds" -> <<"set", "credit">>
      [] p = "equity_option" -> <<"vol">>
      [] p = "swap_inflation" -> <<"index">>

\* The requests of persist<Product>Graph, in order.
Requests(p, keys) == keys \o Leaves(p) \o <<"trade">>

Graph == [ids : [Parts -> Ids \cup {NoId}], save : 0..MaxSaves]
Blank == [ids |-> [p \in Parts |-> NoId], save |-> 0]
Stamped(g) == g.ids["trade"] # NoId
RowsOf(g) == {g.ids[p] : p \in Parts} \ {NoId}

SetRef == [id : Ids, role : Keys]
ASSUME NoGraphAssumption == NoGraph \notin Graph

Row == [part : Parts, edit : 1..MaxSaves, live : BOOLEAN, refs : Seq(SetRef), block : Block]
EntryRow == [live : BOOLEAN, graph : Graph]
Page == [entry : Entries \cup {0}, graph : Graph]
Job == [step : {"idle", "persist", "store"}, left : Seq(Parts), keys : Seq(Keys),
        save : 0..MaxSaves, prior : Graph, next : Graph, fine : BOOLEAN]

NoJob == [step |-> "idle", left |-> <<>>, keys |-> <<>>, save |-> 0,
          prior |-> Blank, next |-> Blank, fine |-> TRUE]
NewPage == [entry |-> 0, graph |-> Blank]

Init ==
    /\ product \in Pages
    /\ rows = <<>> /\ entries = <<>> /\ saves = 0
    /\ cache = [t \in Tabs[product] |-> [e \in Entries |-> NoGraph]]
    /\ page = [t \in Tabs[product] |-> NewPage]
    /\ job = [t \in Tabs[product] |-> NoJob]
    /\ origin = [e \in Entries |-> e]

-----------------------------------------------------------------------------
(* Moving about.                                                           *)

Idle(t) == job[t].step = "idle"

Reload(t) ==
    /\ Idle(t)
    /\ cache' = [cache EXCEPT ![t] =
                    [e \in Entries |-> IF e \in DOMAIN entries /\ entries[e].live
                                       THEN entries[e].graph ELSE NoGraph]]
    /\ page' = [page EXCEPT ![t] = NewPage]
    /\ UNCHANGED <<product, rows, entries, job, saves, origin>>

Open(t, e) ==
    /\ Idle(t) /\ cache[t][e] # NoGraph
    /\ page' = [page EXCEPT ![t] = [entry |-> e, graph |-> cache[t][e]]]
    /\ UNCHANGED <<product, rows, entries, cache, job, saves, origin>>

\* Mutant: the blank form keeps the graph of the entry shown before.
New_KeepsGraph(t) ==
    /\ Idle(t)
    /\ page' = [page EXCEPT ![t].entry = 0]
    /\ UNCHANGED <<product, rows, entries, cache, job, saves, origin>>

New(t) ==
    /\ Idle(t)
    /\ page' = [page EXCEPT ![t] = NewPage]
    /\ UNCHANGED <<product, rows, entries, cache, job, saves, origin>>

\* The bond pages choose an entry's id themselves and store it as they have it.
OwnIds == product \in {"bond_fixed", "bond_floating"}

\* A list page's Duplicate: a new wrapper of the entry's request, in which a bond's
\* brings its graph along.  The answer may be lost.
Duplicate(t, e) ==
    LET f == Len(entries) + 1
        g == IF OwnIds THEN cache[t][e] ELSE Blank
    IN  /\ Idle(t) /\ cache[t][e] # NoGraph /\ f \in Entries
        /\ entries' = Append(entries, [live |-> TRUE, graph |-> g])
        /\ cache' \in {cache, [cache EXCEPT ![t][f] = g]}
        /\ page' = [page EXCEPT ![t] = NewPage]
        /\ origin' = [origin EXCEPT ![f] = IF OwnIds THEN origin[e] ELSE f]
        /\ UNCHANGED <<product, rows, job, saves>>

\* Deleting the wrapper takes the trade it names along, on the server; the cache
\* forgets the entry.  A wrapper already gone answers 404 and nothing changes.
Delete(t, e) ==
    /\ Idle(t) /\ cache[t][e] # NoGraph /\ entries[e].live
    /\ entries' = [entries EXCEPT ![e].live = FALSE]
    /\ LET g == entries[e].graph
       IN  rows' = IF Stamped(g) THEN [rows EXCEPT ![g.ids["trade"]].live = FALSE] ELSE rows
    /\ cache' = [cache EXCEPT ![t][e] = NoGraph]
    /\ page' = [page EXCEPT ![t] = NewPage]
    /\ UNCHANGED <<product, job, saves, origin>>

\* From another page (market data) the user deletes a curve, a set or a leaf.
DeleteRow(i) ==
    /\ i \in DOMAIN rows /\ rows[i].live /\ rows[i].part # "trade"
    /\ Cardinality({k \in DOMAIN rows : ~rows[k].live}) < MaxDeleted
    /\ rows' = [rows EXCEPT ![i].live = FALSE]
    /\ UNCHANGED <<product, entries, cache, page, job, saves, origin>>

-----------------------------------------------------------------------------
(* Saving.                                                                 *)

\* A page that skips the graph for what the server does not keep, or without a curve.
LocalOnly == product \in {"swap_ir", "cds", "bond_fixed", "bond_floating"}

\* handleSave: persist the graph, or skip it and store the wrapper alone.
StartSave(t) ==
    /\ Idle(t) /\ saves < MaxSaves
    /\ saves' = saves + 1
    /\ \E keys \in CurveKeys(product), persist \in {TRUE, ~LocalOnly} :
          job' = [job EXCEPT ![t] =
                    [NoJob EXCEPT !.step = IF persist THEN "persist" ELSE "store",
                                  !.left = IF persist THEN Requests(product, keys) ELSE <<>>,
                                  !.keys = keys, !.save = saves', !.prior = page[t].graph,
                                  !.next = IF persist THEN [Blank EXCEPT !.save = saves']
                                           ELSE page[t].graph]]
    /\ UNCHANGED <<product, rows, entries, cache, page, origin>>

Refs(keys, g) == [k \in DOMAIN keys |-> [id |-> g.ids[keys[k]], role |-> keys[k]]]

\* Mutant: the floating bond pins its discount curve as the forecast one.
Pins_NoForecast(keys, g) ==
    LET id(p) == g.ids[p]
        listed == product \in {"equity_option", "swap_inflation"}
        pinned == product \in {"bond_fixed", "bond_floating", "cds"}
    IN  [NoBlock EXCEPT
            !.set = id("set"), !.credit = id("credit"), !.vol = id("vol"),
            !.model = id("model"), !.index = id("index"),
            !.curves = IF listed THEN Refs(keys, g) ELSE <<>>,
            !.discount = IF pinned THEN id("discount") ELSE NoId,
            !.forecast = IF product = "bond_floating" THEN id("discount") ELSE NoId,
            !.spot = IF product = "equity_option" THEN Literal ELSE NoId]

\* request.pricing of the persisted trade.
Pins(keys, g) ==
    LET id(p) == g.ids[p]
        listed == product \in {"equity_option", "swap_inflation"}
        pinned == product \in {"bond_fixed", "bond_floating", "cds"}
    IN  [NoBlock EXCEPT
            !.set = id("set"), !.credit = id("credit"), !.vol = id("vol"),
            !.model = id("model"), !.index = id("index"),
            !.curves = IF listed THEN Refs(keys, g) ELSE <<>>,
            !.discount = IF pinned THEN id("discount") ELSE NoId,
            !.forecast = IF product = "bond_floating"
                         THEN Or(id("projection"), id("discount")) ELSE NoId,
            !.spot = IF product = "equity_option" THEN Literal ELSE NoId]

Written(j, p) ==
    [part |-> p, edit |-> j.save, live |-> TRUE,
     refs |-> IF p = "set" THEN Refs(j.keys, j.next) ELSE <<>>,
     block |-> IF p = "trade" THEN Pins(j.keys, j.next) ELSE NoBlock]

\* The id the request answers with: the remembered one, or a new row's.
Target(j, p) == Or(j.prior.ids[p], Len(rows) + 1)

\* PATCH the remembered row, which must still be there, or POST a new one.
Write(j, p) ==
    LET i == j.prior.ids[p]
    IN  IF i = NoId
        THEN Len(rows) + 1 \in Ids /\ rows' = Append(rows, Written(j, p))
        ELSE rows[i].live /\ rows' = [rows EXCEPT ![i] = Written(j, p)]

\* Mutant: the graph handed back leaves the curve set out.
Persist_Lossy(t) ==
    LET j == job[t]
        p == Head(j.left)
    IN  /\ j.step = "persist"
        /\ Write(j, p)
        /\ job' = [job EXCEPT ![t].next.ids = [@ EXCEPT ![p] = Target(j, p),
                                                        !["set"] = IF p = "trade" THEN NoId ELSE @],
                              ![t].left = Tail(@),
                              ![t].step = IF p = "trade" THEN "store" ELSE @]
        /\ UNCHANGED <<product, entries, cache, page, saves, origin>>

Persist(t) ==
    LET j == job[t]
        p == Head(j.left)
    IN  /\ j.step = "persist"
        /\ Write(j, p)
        /\ job' = [job EXCEPT ![t].next.ids[p] = Target(j, p), ![t].left = Tail(@),
                              ![t].step = IF p = "trade" THEN "store" ELSE @]
        /\ UNCHANGED <<product, entries, cache, page, saves, origin>>

\* A request fails, its effect lost or not: the flow stops, the ids of this save
\* are dropped, and the wrapper is stored with the graph the page came with.
PersistFails(t) ==
    LET j == job[t]
    IN  /\ j.step = "persist"
        /\ Write(j, Head(j.left)) \/ UNCHANGED rows
        /\ job' = [job EXCEPT ![t].step = "store", ![t].left = <<>>, ![t].fine = FALSE,
                              ![t].next = j.prior]
        /\ UNCHANGED <<product, entries, cache, page, saves, origin>>

EntryOf(t) == IF page[t].entry = 0 THEN Len(entries) + 1 ELSE page[t].entry

\* Mutant: the cached graph is taken over without asking whether there is one.
Kept_Unchecked(t) == IF Stamped(job[t].next) THEN job[t].next ELSE cache[t][EntryOf(t)]

\* wrappedStore.save: an entry the cache knows keeps its graph when the save
\* brings none.
Kept(t) ==
    LET e == page[t].entry
        g == job[t].next
    IN  IF Stamped(g) \/ e = 0 \/ OwnIds THEN g ELSE cache[t][e]

\* The entry is created, or updated if the server still has it.
WriteEntry(t) ==
    LET e == EntryOf(t)
        r == [live |-> TRUE, graph |-> Kept(t)]
    IN  IF page[t].entry = 0
        THEN e \in Entries /\ entries' = Append(entries, r)
        ELSE entries[e].live /\ entries' = [entries EXCEPT ![e] = r]

\* The wrapper is stored; after success the page moves to the entry and its graph,
\* after a failed persist it stays as it was, a new one still new unless the page
\* chose its id.
Store(t) ==
    /\ job[t].step = "store"
    /\ WriteEntry(t)
    /\ cache' = [cache EXCEPT ![t][EntryOf(t)] = Kept(t)]
    /\ page' = [page EXCEPT ![t] = IF job[t].fine \/ OwnIds
                                   THEN [entry |-> EntryOf(t), graph |-> job[t].next] ELSE @]
    /\ job' = [job EXCEPT ![t] = NoJob]
    /\ UNCHANGED <<product, rows, saves, origin>>

\* Storing the wrapper throws, with or without an effect on the server.
StoreFails(t) ==
    /\ job[t].step = "store"
    /\ WriteEntry(t) \/ UNCHANGED entries
    /\ job' = [job EXCEPT ![t] = NoJob]
    /\ UNCHANGED <<product, rows, cache, page, saves, origin>>

Next ==
    \/ \E t \in Tabs[product] :
          \/ Reload(t) \/ New(t) \/ StartSave(t)
          \/ Persist(t) \/ PersistFails(t) \/ Store(t) \/ StoreFails(t)
          \/ \E e \in Entries : Open(t, e) \/ Duplicate(t, e) \/ Delete(t, e)
    \/ \E i \in Ids : DeleteRow(i)

Spec == Init /\ [][Next]_vars

-----------------------------------------------------------------------------
(* Properties.                                                             *)

TypeOK ==
    /\ product \in Pages
    /\ rows \in Seq(Row) /\ entries \in Seq(EntryRow)
    /\ cache \in [Tabs[product] -> [Entries -> Graph \cup {NoGraph}]]
    /\ page \in [Tabs[product] -> Page]
    /\ job \in [Tabs[product] -> Job]
    /\ saves \in 0..MaxSaves
    /\ origin \in [Entries -> Entries]

ByReference == [product |-> product, curves |-> <<>>, credit |-> NoId, vol |-> NoId,
                model |-> NoId, index |-> NoId, spot |-> NoId, snap |-> NoId]

\* What the page means by its curves.
Meant(g) ==
    LET id(p) == g.ids[p]
    IN  CASE product \in {"swap_ir", "swaption"} -> <<id("discount"), Or(id("forward"), id("discount"))>>
          [] product \in {"bond_fixed", "cds"} -> <<id("discount"), id("discount")>>
          [] product = "bond_floating" -> <<id("discount"), id("projection")>>
          [] product = "equity_option" -> <<id("discount"), Or(id("dividend"), Literal)>>
          [] product = "swap_inflation" -> <<id("nominal"), id("inflation")>>

\* A saved trade whose rows nobody touched after the save that stamped it prices
\* by reference from exactly the rows that save wrote, every curve in the role the
\* page gave it: persist*Graph and the assemblers, written apart in two languages,
\* agree on every product.
PricesAsSaved ==
    \A e \in DOMAIN entries :
        LET g == entries[e].graph
            b == rows[g.ids["trade"]].block
            set == IF NeedsSet(ByReference, b) THEN rows[b.set].refs ELSE <<>>
            plan == Reads(ByReference, b, set)
        IN  (/\ entries[e].live /\ Stamped(g)
             /\ \A i \in RowsOf(g) : rows[i].live /\ rows[i].edit = g.save) =>
                /\ Curves(ByReference, b, set) = Meant(g)
                /\ {plan[k] : k \in DOMAIN plan} = RowsOf(g) \ {g.ids["trade"], g.ids["set"]}

\* Entries share a server row only if one was duplicated from the other, or both
\* from a third: a blank form, a stale tab or a failed save never makes one trade
\* name, and so patch or delete, what another is priced with.
GraphsDisjoint ==
    \A e, f \in DOMAIN entries :
        origin[e] # origin[f] /\ entries[e].live /\ entries[f].live =>
            RowsOf(entries[e].graph) \cap RowsOf(entries[f].graph) = {}

\* The graph stamped on an entry names every row that the save it came from wrote
\* and nobody wrote since.
NothingForgotten ==
    \A e \in DOMAIN entries :
        LET g == entries[e].graph
        IN  Stamped(g) => {i \in DOMAIN rows : rows[i].edit = g.save} \subseteq RowsOf(g)

\* saveGraphNaming.ts: "a re-save can only ever touch the product's own rows", so
\* what a save writes is never a row that two saved trades name.
ResaveTouchesOwnRows ==
    [][\A e, f \in DOMAIN entries :
          e # f /\ entries[e].live /\ entries[f].live =>
              \A i \in RowsOf(entries[e].graph) \cap RowsOf(entries[f].graph) :
                  rows'[i].edit = rows[i].edit]_vars
=============================================================================
