-------------------------- MODULE SaveGraphProofs --------------------------
(***************************************************************************)
(* Only duplicates share server rows, a stamped graph names every row its  *)
(* save wrote, and a saved trade prices by reference from exactly those    *)
(* rows, for any number of tabs, entries, rows and saves.                  *)
(*                                                                         *)
(* A graph is held for an entry and its duplicates (by the server, a       *)
(* cache, a page or a save), known by the entry they come from, or for a   *)
(* tab whose trade has no entry yet (Held).  What different                *)
(* claimants hold is disjoint, and a save hands its tab's rows to the new  *)
(* entry (IInv).  The rows a held graph names are of the parts it names    *)
(* them for, and its set and trade, if still of its save, refer to what    *)
(* else it names (FInv); what the assemblers make of such a set and trade  *)
(* is a matter of evaluation, product by product (AllFit).                 *)
(***************************************************************************)
EXTENDS SaveGraph, SubsequencesProofs, SequenceTheorems, TLAPS

T == Tabs[product]
Root(e) == <<"entry", e>>
Entry(e) == Root(origin[e])
Tab(t) == <<"tab", t>>
Claimants == {Root(e) : e \in Entries} \cup {Tab(t) : t \in T}

\* For whom a tab works: the entry it shows and its duplicates, or itself.
For(t) == IF page[t].entry = 0 THEN Tab(t) ELSE Entry(page[t].entry)

Stored(x) == {entries[e].graph : e \in {f \in DOMAIN entries : x = Entry(f)}}
Cached(x) == UNION {{cache[t][e] : e \in {f \in Entries : x = Entry(f)}} : t \in T}
Shown(x) == UNION {{page[t].graph, job[t].prior, job[t].next} : t \in {u \in T : For(u) = x}}
Held(x) == Stored(x) \cup (Cached(x) \ {NoGraph}) \cup Shown(x)

Listed(s) == s \in Seq({s[i] : i \in DOMAIN s})

Shaped ==
    /\ product \in Pages
    /\ Listed(rows)
    /\ entries \in Seq(EntryRow) /\ DOMAIN entries \subseteq Entries
    /\ cache \in [T -> [Entries -> Graph \cup {NoGraph}]]
    /\ page \in [T -> Page] /\ job \in [T -> Job]
    /\ saves \in 0..MaxSaves
    /\ origin \in [Entries -> Entries]
    /\ \A i \in DOMAIN rows : rows[i].edit \in 1..saves /\ "edit" \in DOMAIN rows[i]

\* Copies come from entries there are; an entry yet to be made is its own.
OriginOK ==
    /\ \A e \in DOMAIN entries : origin[e] \in DOMAIN entries
    /\ \A e \in Entries \ DOMAIN entries : origin[e] = e

PageOK(t) ==
    /\ page[t].entry = 0 => page[t].graph = Blank
    /\ page[t].entry # 0 => cache[t][page[t].entry] # NoGraph
    /\ \A e \in Entries : cache[t][e] # NoGraph => e \in DOMAIN entries

\* Parts that differ, the trade last.
Once(s) == \A m, n \in DOMAIN s : s[m] = s[n] => m = n
InOrder(s) == Once(s) /\ \A n \in DOMAIN s : (s[n] = "trade") <=> (n = Len(s))

\* What a save still has to write, in order, it has not written yet.
JobOK(t) ==
    LET j == job[t]
    IN  /\ j.step = "idle" => j = NoJob
        /\ j.step # "idle" => j.prior = page[t].graph
        /\ ~j.fine => j.next = j.prior
        /\ j.step = "persist" =>
              /\ j.fine /\ j.left # <<>> /\ j.next.save = j.save
              /\ j.save \in 1..saves
              /\ InOrder(j.left)
              /\ \A n \in DOMAIN j.left : j.next.ids[j.left[n]] = NoId

\* No graph but the one it builds is of a save that is writing rows.
Sole(t) ==
    LET s == job[t].save
    IN  job[t].step = "persist" =>
            /\ \A e \in DOMAIN entries : entries[e].graph.save # s
            /\ \A u \in T, e \in Entries : cache[u][e] # NoGraph => cache[u][e].save # s
            /\ \A u \in T : page[u].graph.save # s /\ job[u].prior.save # s
            /\ \A u \in T \ {t} : job[u].next.save # s

Whole(g) ==
    /\ RowsOf(g) \subseteq DOMAIN rows
    /\ g.save <= saves
    /\ {i \in DOMAIN rows : rows[i].edit = g.save} \subseteq RowsOf(g)

HeldOK == \A x \in Claimants : \A g \in Held(x) : g \in Graph /\ Whole(g)

Apart == \A x, y \in Claimants : x # y =>
            \A g \in Held(x), h \in Held(y) : RowsOf(g) \cap RowsOf(h) = {}

IInv == /\ Shaped /\ OriginOK
        /\ \A t \in T : PageOK(t) /\ JobOK(t) /\ Sole(t)
        /\ HeldOK /\ Apart
-----------------------------------------------------------------------------
(* Rows and graphs.                                                        *)

\* A request that leaves rows alone but for what is live.
RowsAlone ==
    /\ Listed(rows') /\ DOMAIN rows' = DOMAIN rows
    /\ \A i \in DOMAIN rows : rows'[i].edit = rows[i].edit /\ "edit" \in DOMAIN rows'[i]

\* A request that writes row i, or creates it, for save s.
RowWritten(i, s) ==
    /\ Listed(rows') /\ DOMAIN rows' = DOMAIN rows \cup {i}
    /\ \A k \in DOMAIN rows' : "edit" \in DOMAIN rows'[k]
    /\ rows'[i].edit = s
    /\ \A k \in DOMAIN rows \ {i} : rows'[k].edit = rows[k].edit

Grown(s, x, r) == r = Append(s, x)

\* The same, saying what is written.
RowPut(i, w) ==
    /\ DOMAIN rows' = DOMAIN rows \cup {i} /\ rows'[i] = w
    /\ \A k \in DOMAIN rows \ {i} : rows'[k] = rows[k]

LEMMA Appended ==
    ASSUME NEW s, Listed(s), NEW x, NEW r, Grown(s, x, r)
    PROVE  /\ Listed(r) /\ Len(s) \in Nat
           /\ DOMAIN r = 1..(Len(s) + 1) /\ DOMAIN s = 1..Len(s)
           /\ r[Len(s) + 1] = x
           /\ \A i \in 1..Len(s) : r[i] = s[i]
<1> DEFINE S == {s[i] : i \in DOMAIN s} \cup {x}
<1>1. s \in Seq(S)
  BY DEF Listed
<1>2. /\ r \in Seq(S) /\ Len(r) = Len(s) + 1 /\ Len(s) \in Nat
      /\ r[Len(s) + 1] = x /\ \A i \in 1..Len(s) : r[i] = s[i]
  BY <1>1, AppendProperties DEF Grown
<1>3. DOMAIN r = 1..Len(r) /\ DOMAIN s = 1..Len(s)
  BY <1>1, <1>2
<1>4. Listed(r)
  BY <1>2, <1>3 DEF Listed
<1> QED
  BY <1>2, <1>3, <1>4

LEMMA Replaced ==
    ASSUME NEW s, Listed(s), NEW k, NEW x,
           NEW r, r = [s EXCEPT ![k] = x]
    PROVE  /\ Listed(r) /\ DOMAIN r = DOMAIN s
           /\ \A i \in DOMAIN s : r[i] = IF i = k THEN x ELSE s[i]
<1>1. DOMAIN r = DOMAIN s /\ \A i \in DOMAIN s : r[i] = IF i = k THEN x ELSE s[i]
  OBVIOUS
<1>2. Len(s) \in Nat /\ DOMAIN s = 1..Len(s)
  <2> DEFINE S == {s[i] : i \in DOMAIN s}
  <2>1. s \in Seq(S)
    BY DEF Listed
  <2> HIDE DEF S
  <2> QED
    BY <2>1
<1>3. Listed(r)
  <2> DEFINE R == {r[i] : i \in DOMAIN r}
  <2>1. r = [i \in 1..Len(s) |-> r[i]] /\ \A i \in 1..Len(s) : r[i] \in R
    BY <1>1, <1>2
  <2> HIDE DEF R
  <2>2. [i \in 1..Len(s) |-> r[i]] \in Seq(R)
    BY <1>2, <2>1
  <2>3. r \in Seq(R)
    BY <2>1, <2>2
  <2> QED
    BY <2>3 DEF R, Listed
<1> QED
  BY <1>1, <1>3

\* The places where a claimant's graphs are.
LEMMA HeldIs ==
    ASSUME NEW x, NEW g
    PROVE  g \in Held(x) <=>
             \/ \E e \in DOMAIN entries : x = Entry(e) /\ g = entries[e].graph
             \/ \E t \in T, e \in Entries : x = Entry(e) /\ g = cache[t][e] /\ g # NoGraph
             \/ \E t \in T : x = For(t) /\ g \in {page[t].graph, job[t].prior, job[t].next}
<1>1. g \in Stored(x) <=> \E e \in DOMAIN entries : x = Entry(e) /\ g = entries[e].graph
  BY DEF Stored
<1>2. g \in Cached(x) <=> \E t \in T, e \in Entries : x = Entry(e) /\ g = cache[t][e]
  BY DEF Cached
<1>3. g \in Shown(x) <=> \E t \in T : x = For(t) /\ g \in {page[t].graph, job[t].prior, job[t].next}
  BY DEF Shown
<1> QED
  BY <1>1, <1>2, <1>3 DEF Held

LEMMA HeldNext ==
    ASSUME NEW x, NEW g
    PROVE  g \in Held(x)' <=>
             \/ \E e \in DOMAIN entries' : x = Entry(e)' /\ g = entries'[e].graph
             \/ \E t \in T', e \in Entries : x = Entry(e)' /\ g = cache'[t][e] /\ g # NoGraph
             \/ \E t \in T' : x = For(t)' /\ g \in {page'[t].graph, job'[t].prior, job'[t].next}
<1>1. (g \in Held(x) <=>
         \/ \E e \in DOMAIN entries : x = Entry(e) /\ g = entries[e].graph
         \/ \E t \in T, e \in Entries : x = Entry(e) /\ g = cache[t][e] /\ g # NoGraph
         \/ \E t \in T : x = For(t) /\ g \in {page[t].graph, job[t].prior, job[t].next})'
  BY HeldIs, PTL
<1> QED
  BY <1>1

\* The same, when no copy is made.
LEMMA HeldIsNext ==
    ASSUME origin' = origin, NEW x, NEW g
    PROVE  g \in Held(x)' <=>
             \/ \E e \in DOMAIN entries' : x = Entry(e) /\ g = entries'[e].graph
             \/ \E t \in T', e \in Entries : x = Entry(e) /\ g = cache'[t][e] /\ g # NoGraph
             \/ \E t \in T' : x = For(t)' /\ g \in {page'[t].graph, job'[t].prior, job'[t].next}
BY HeldNext DEF Entry

\* Whom an entry's graphs are held for.
LEMMA EntryClaims ==
    ASSUME IInv
    PROVE  /\ \A e \in Entries : Entry(e) \in Claimants
           /\ \A e \in DOMAIN entries : e \in Entries
BY DEF IInv, Shaped, Claimants, Entry

LEMMA OriginStays ==
    ASSUME IInv, origin' = origin, DOMAIN entries \subseteq DOMAIN entries',
           \A e \in DOMAIN entries' : e \in DOMAIN entries \/ origin[e] = e
    PROVE  OriginOK'
BY DEF IInv, OriginOK

LEMMA BlankFacts == Blank \in Graph /\ RowsOf(Blank) = {} /\ Blank.save = 0
BY PortalAssumption DEF Blank, Graph, RowsOf

\* A graph that names no row, of a save that wrote none.
NoRows(g, s) ==
    /\ g \in Graph /\ RowsOf(g) = {} /\ g.save <= s
    /\ \A i \in DOMAIN rows : rows[i].edit # g.save

LEMMA BlankNoRows == ASSUME IInv, NEW s \in Nat, saves <= s PROVE NoRows(Blank, s)
BY BlankFacts, PortalAssumption DEF NoRows, IInv, Shaped

\* Graphs stay whole and apart when each claimant holds what it or the one whose place
\* it takes held before, and no row is written under a graph's save.
LEMMA Copied ==
    ASSUME IInv, product' = product, saves \in Nat, saves' \in Nat, saves <= saves', NEW f,
           \A x \in Claimants : f[x] \in Claimants,
           \A x, y \in Claimants : f[x] = f[y] => x = y,
           \A x \in Claimants : \A g \in Held(x)' : g \in Held(f[x]) \/ NoRows(g, saves'),
           DOMAIN rows \subseteq DOMAIN rows',
           \A x \in Claimants : \A g \in Held(x)' : \A i \in DOMAIN rows' :
              rows'[i].edit = g.save => i \in DOMAIN rows /\ rows[i].edit = g.save
    PROVE  HeldOK' /\ Apart'
<1>1. Claimants' = Claimants
  BY DEF Claimants, T
<1>2. ASSUME NEW x \in Claimants, NEW g \in Held(x)'
      PROVE  g \in Graph /\ Whole(g)'
  <2>1. CASE g \in Held(f[x])
    <3>1. g \in Graph /\ Whole(g)
      BY <2>1 DEF IInv, HeldOK
    <3>2. g.save \in Nat
      BY <3>1, PortalAssumption DEF Graph
    <3> QED
      BY <1>2, <3>1, <3>2 DEF Whole, RowsOf
  <2>2. CASE NoRows(g, saves')
    BY <1>2, <2>2 DEF NoRows, Whole, RowsOf
  <2> QED
    BY <1>2, <2>1, <2>2
<1>3. ASSUME NEW x \in Claimants, NEW y \in Claimants, x # y, NEW g \in Held(x)', NEW h \in Held(y)'
      PROVE  RowsOf(g) \cap RowsOf(h) = {}
  BY <1>3 DEF NoRows, IInv, Apart
<1>4. HeldOK'
  BY <1>1, <1>2 DEF HeldOK
<1>5. Apart'
  BY <1>1, <1>3 DEF Apart, RowsOf
<1> QED
  BY <1>4, <1>5
-----------------------------------------------------------------------------
(* Moving about.                                                           *)

\* An idle tab takes over what the server has of entries, or shows one it knows.
Moved(t) ==
    /\ Idle(t) /\ UNCHANGED <<product, job, saves, origin>> /\ RowsAlone
    /\ entries' \in Seq(EntryRow) /\ DOMAIN entries' = DOMAIN entries
    /\ \A e \in DOMAIN entries : entries'[e].graph = entries[e].graph
    /\ cache' \in [T -> [Entries -> Graph \cup {NoGraph}]]
    /\ \A u \in T \ {t} : cache'[u] = cache[u] /\ page'[u] = page[u]
    /\ \A e \in Entries : \/ cache'[t][e] \in {NoGraph, cache[t][e]}
                          \/ e \in DOMAIN entries /\ cache'[t][e] = entries[e].graph
    /\ page' \in [T -> Page]
    /\ \/ page'[t] = NewPage
       \/ cache' = cache /\ \E e \in Entries :
             cache[t][e] # NoGraph /\ page'[t] = [entry |-> e, graph |-> cache[t][e]]

LEMMA EntryNumbers == Entries \subseteq Nat \ {0}
BY PortalAssumption

\* What the claimants hold after it.
LEMMA MovedHeld ==
    ASSUME IInv, NEW t \in T, Moved(t), NEW x \in Claimants, NEW g \in Held(x)'
    PROVE  g \in Held(x) \/ g = Blank
<1>1. T' = T /\ job' = job /\ job[t] = NoJob
  BY DEF Moved, T, Idle, IInv, JobOK
<1>2. CASE \E e \in DOMAIN entries' : x = Entry(e) /\ g = entries'[e].graph
  BY <1>2, HeldIs DEF Moved
<1>3. CASE \E u \in T', e \in Entries : x = Entry(e) /\ g = cache'[u][e] /\ g # NoGraph
  <2>1. PICK u \in T, e \in Entries : x = Entry(e) /\ g = cache'[u][e] /\ g # NoGraph
    BY <1>1, <1>3
  <2>2. CASE g = cache[u][e]
    BY <2>1, <2>2, HeldIs
  <2>3. CASE e \in DOMAIN entries /\ g = entries[e].graph
    BY <2>1, <2>3, HeldIs
  <2> QED
    BY <2>1, <2>2, <2>3 DEF Moved
<1>4. CASE \E u \in T' : x = For(u)' /\ g \in {page'[u].graph, job'[u].prior, job'[u].next}
  <2>1. PICK u \in T : x = For(u)' /\ g \in {page'[u].graph, job[u].prior, job[u].next}
    BY <1>1, <1>4
  <2>2. CASE u # t
    <3>1. page'[u] = page[u] /\ x = For(u)
      BY <2>1, <2>2 DEF Moved, For, Entry
    <3> QED
      BY <2>1, <3>1, HeldIs
  <2>3. CASE u = t /\ g # Blank
    <3>1. g = page'[t].graph
      BY <1>1, <2>1, <2>3 DEF NoJob
    <3>2. PICK e \in Entries : cache[t][e] # NoGraph /\ page'[t] = [entry |-> e, graph |-> cache[t][e]]
      BY <2>3, <3>1 DEF Moved, NewPage
    <3>3. x = Entry(e)
      BY <2>1, <2>3, <3>2, EntryNumbers DEF For, Entry, Moved
    <3> QED
      BY <3>1, <3>2, <3>3, HeldIs
  <2> QED
    BY <2>2, <2>3
<1> QED
  BY <1>2, <1>3, <1>4, HeldIsNext DEF Moved

LEMMA MovedKeeps ==
    ASSUME IInv, NEW t \in T, Moved(t)
    PROVE  IInv'
<1>1. T' = T /\ saves' = saves /\ product' = product /\ job' = job
  BY DEF Moved, T
<1>2. Shaped'
  BY <1>1 DEF Moved, RowsAlone, IInv, Shaped
<1>3. job[t] = NoJob /\ OriginOK'
  BY OriginStays DEF Moved, Idle, IInv, JobOK
<1>4. \A u \in T : PageOK(u)'
  <2>1. \A e \in Entries : cache'[t][e] # NoGraph => e \in DOMAIN entries
    BY DEF Moved, IInv, PageOK
  <2>2. PageOK(t)'
    BY <2>1, EntryNumbers DEF Moved, PageOK, NewPage
  <2> QED
    BY <1>1, <2>2 DEF Moved, IInv, PageOK
<1>5. \A u \in T : JobOK(u)'
  <2>1. JobOK(t)'
    BY <1>1, <1>3 DEF JobOK, NoJob
  <2>2. ASSUME NEW u \in T \ {t} PROVE JobOK(u)'
    <3>1. JobOK(u) /\ page'[u] = page[u]
      BY DEF Moved, IInv
    <3> QED
      BY <1>1, <3>1 DEF JobOK
  <2> QED
    BY <2>1, <2>2
<1>6. \A u \in T : Sole(u)'
  <2> SUFFICES ASSUME NEW u \in T, job[u].step = "persist" PROVE Sole(u)'
    BY <1>1 DEF Sole
  <2> DEFINE s == job[u].save
  <2>1. /\ \A e \in DOMAIN entries : entries[e].graph.save # s
        /\ \A v \in T, e \in Entries : cache[v][e] # NoGraph => cache[v][e].save # s
        /\ \A v \in T : page[v].graph.save # s /\ job[v].prior.save # s
        /\ \A v \in T \ {u} : job[v].next.save # s
    BY DEF IInv, Sole
  <2>2. s # 0
    BY DEF IInv, JobOK
  <2>3. \A v \in T, e \in Entries : cache'[v][e] # NoGraph => cache'[v][e].save # s
    BY <2>1 DEF Moved
  <2>4. \A v \in T : page'[v].graph.save # s
    <3>1. page'[t].graph.save # s
      <4>1. CASE page'[t] = NewPage
        BY <2>2, <4>1, BlankFacts DEF NewPage
      <4>2. CASE page'[t] # NewPage
        BY <2>1, <4>2 DEF Moved
      <4> QED
        BY <4>1, <4>2
    <3> QED
      BY <2>1, <3>1 DEF Moved
  <2>5. \A e \in DOMAIN entries' : entries'[e].graph.save # s
    BY <2>1 DEF Moved
  <2> QED
    BY <1>1, <2>1, <2>3, <2>4, <2>5 DEF Sole
<1>7. HeldOK' /\ Apart'
  <2> DEFINE f == [x \in Claimants |-> x]
  <2>1. \A x \in Claimants : \A g \in Held(x)' : g \in Held(x) \/ g = Blank
    BY MovedHeld
  <2>2. saves \in Nat /\ saves' = saves
    BY <1>1, PortalAssumption DEF IInv, Shaped
  <2>3. NoRows(Blank, saves')
    BY <2>2, BlankNoRows
  <2>4. \A x \in Claimants : f[x] \in Claimants /\ \A y \in Claimants : f[x] = f[y] => x = y
    OBVIOUS
  <2>5. \A x \in Claimants : \A g \in Held(x)' : g \in Held(f[x]) \/ NoRows(g, saves')
    BY <2>1, <2>3
  <2>6. DOMAIN rows' = DOMAIN rows /\ \A i \in DOMAIN rows : rows'[i].edit = rows[i].edit
    BY DEF Moved, RowsAlone
  <2> HIDE DEF f
  <2> QED
    BY <1>1, <2>2, <2>4, <2>5, <2>6, Copied
<1> QED
  BY <1>1, <1>2, <1>3, <1>4, <1>5, <1>6, <1>7 DEF IInv

LEMMA RowsStay == ASSUME IInv, UNCHANGED rows PROVE RowsAlone
BY DEF IInv, Shaped, RowsAlone

LEMMA RowDies ==
    ASSUME IInv, NEW k, rows' = [rows EXCEPT ![k].live = FALSE]
    PROVE  RowsAlone
<1> DEFINE x == [rows[k] EXCEPT !.live = FALSE]
<1>1. rows' = [rows EXCEPT ![k] = x]
  OBVIOUS
<1>2. k \in DOMAIN rows => x.edit = rows[k].edit /\ "edit" \in DOMAIN x
  BY DEF IInv, Shaped
<1>3. Listed(rows)
  BY DEF IInv, Shaped
<1> HIDE DEF x
<1>4. /\ Listed(rows') /\ DOMAIN rows' = DOMAIN rows
      /\ \A i \in DOMAIN rows : rows'[i] = IF i = k THEN x ELSE rows[i]
  BY <1>1, <1>3, Replaced
<1> QED
  BY <1>2, <1>4 DEF IInv, Shaped, RowsAlone

LEMMA EntryRows ==
    ASSUME IInv, NEW e \in DOMAIN entries
    PROVE  entries[e] \in EntryRow /\ entries[e].graph \in Graph /\ entries[e].live \in BOOLEAN
<1>1. entries \in Seq(EntryRow)
  BY DEF IInv, Shaped
<1>2. entries[e] \in EntryRow
  BY <1>1, ElementOfSeq
<1> QED
  BY <1>2 DEF EntryRow

LEMMA MovesAre ==
    ASSUME IInv, NEW t \in T,
           Reload(t) \/ New(t) \/ \E e \in Entries : Open(t, e) \/ Delete(t, e)
    PROVE  Moved(t)
<1> USE DEF Moved
<1>1. /\ entries \in Seq(EntryRow) /\ page \in [T -> Page]
      /\ cache \in [T -> [Entries -> Graph \cup {NoGraph}]]
      /\ \A e \in DOMAIN entries : entries[e].graph \in Graph
  BY EntryRows DEF IInv, Shaped
<1>2. NewPage \in Page
  BY BlankFacts DEF NewPage, Page
<1>3. CASE Reload(t)
  BY <1>1, <1>2, <1>3, RowsStay DEF Reload, T
<1>4. CASE New(t)
  BY <1>1, <1>2, <1>4, RowsStay DEF New, T
<1>5. ASSUME NEW e \in Entries, Open(t, e) PROVE Moved(t)
  <2>1. page' = [page EXCEPT ![t] = [entry |-> e, graph |-> cache[t][e]]] /\ cache[t][e] # NoGraph
    BY <1>5 DEF Open
  <2>2. [entry |-> e, graph |-> cache[t][e]] \in Page
    BY <1>1, <2>1 DEF Page
  <2> QED
    BY <1>1, <1>5, <2>1, <2>2, RowsStay DEF Open
<1>6. ASSUME NEW e \in Entries, Delete(t, e) PROVE Moved(t)
  <2>1. e \in DOMAIN entries /\ Idle(t) /\ UNCHANGED <<product, job, saves, origin>>
    BY <1>6 DEF Delete, IInv, PageOK
  <2>2. entries' \in Seq(EntryRow) /\ DOMAIN entries' = DOMAIN entries
        /\ \A d \in DOMAIN entries : entries'[d].graph = entries[d].graph
    <3> DEFINE r == [entries[e] EXCEPT !.live = FALSE]
    <3>1. r \in EntryRow /\ r.graph = entries[e].graph
      BY <2>1, EntryRows DEF EntryRow
    <3>2. entries' = [entries EXCEPT ![e] = r]
      BY <1>6 DEF Delete
    <3> HIDE DEF r
    <3>3. e \in 1..Len(entries) /\ DOMAIN entries = 1..Len(entries)
      BY <1>1, <2>1
    <3> QED
      BY <1>1, <3>1, <3>2, <3>3, ExceptSeq
  <2>3. RowsAlone
    BY <1>6, RowsStay, RowDies DEF Delete
  <2>4. /\ cache' \in [T -> [Entries -> Graph \cup {NoGraph}]]
        /\ \A u \in T \ {t} : cache'[u] = cache[u]
        /\ \A d \in Entries : cache'[t][d] \in {NoGraph, cache[t][d]}
    BY <1>1, <1>6 DEF Delete
  <2>5. page' \in [T -> Page] /\ page'[t] = NewPage /\ \A u \in T \ {t} : page'[u] = page[u]
    BY <1>1, <1>2, <1>6 DEF Delete
  <2> QED
    BY <2>1, <2>2, <2>3, <2>4, <2>5
<1> QED
  BY <1>3, <1>4, <1>5, <1>6

\* A tab makes a copy: entry f, with the graph of e and its claim, or with none.
CopyMade(t, e, f) ==
    /\ DOMAIN entries' = DOMAIN entries \cup {f}
    /\ f \in Entries /\ f \notin DOMAIN entries /\ e \in DOMAIN entries
    /\ entries' \in Seq(EntryRow)
    /\ \A d \in DOMAIN entries : entries'[d] = entries[d]
    /\ \/ entries'[f].graph = cache[t][e] /\ origin'[f] = origin[e]
       \/ entries'[f].graph = Blank /\ origin'[f] = f
    /\ origin' \in [Entries -> Entries]
    /\ \A d \in Entries \ {f} : origin'[d] = origin[d]
    /\ cache' \in [T -> [Entries -> Graph \cup {NoGraph}]]
    /\ \A u \in T, d \in Entries : \/ cache'[u][d] = cache[u][d]
                                   \/ d = f /\ cache'[u][d] = entries'[f].graph
    /\ page' \in [T -> Page] /\ page'[t] = NewPage
    /\ \A u \in T \ {t} : page'[u] = page[u]
    /\ UNCHANGED <<product, rows, job, saves>>
    /\ job[t] = NoJob /\ cache[t][e] # NoGraph

LEMMA CopyIs ==
    ASSUME IInv, NEW t \in T, NEW e \in Entries, Duplicate(t, e)
    PROVE  \E f \in Entries : CopyMade(t, e, f)
<1> DEFINE f == Len(entries) + 1
           g == IF OwnIds THEN cache[t][e] ELSE Blank
           r == [live |-> TRUE, graph |-> g]
<1>1. /\ entries \in Seq(EntryRow) /\ page \in [T -> Page]
      /\ cache \in [T -> [Entries -> Graph \cup {NoGraph}]]
      /\ origin \in [Entries -> Entries]
      /\ OriginOK /\ PageOK(t) /\ JobOK(t)
  BY DEF IInv, Shaped
<1>2. /\ Idle(t) /\ cache[t][e] # NoGraph /\ f \in Entries
      /\ entries' = Append(entries, r)
      /\ cache' \in {cache, [cache EXCEPT ![t][f] = g]}
      /\ page' = [page EXCEPT ![t] = NewPage]
      /\ origin' = [origin EXCEPT ![f] = IF OwnIds THEN origin[e] ELSE f]
      /\ UNCHANGED <<product, rows, job, saves>>
  BY DEF Duplicate
<1>3. e \in DOMAIN entries /\ job[t] = NoJob
  BY <1>1, <1>2 DEF PageOK, Idle, JobOK
<1>4. g \in Graph /\ (g = cache[t][e] \/ g = Blank) /\ g # NoGraph
  BY <1>1, <1>2, BlankFacts, NoGraphAssumption
<1>5. r \in EntryRow /\ r.graph = g
  BY <1>4 DEF EntryRow
<1>6. NewPage \in Page
  BY BlankFacts DEF NewPage, Page
<1>7. \/ g = cache[t][e] /\ origin'[f] = origin[e]
      \/ g = Blank /\ origin'[f] = f
  BY <1>1, <1>2
<1>8. origin' \in [Entries -> Entries] /\ \A d \in Entries \ {f} : origin'[d] = origin[d]
  BY <1>1, <1>2
<1> HIDE DEF g, r
<1>9. /\ entries' \in Seq(EntryRow) /\ DOMAIN entries' = DOMAIN entries \cup {f}
      /\ f \notin DOMAIN entries /\ entries'[f] = r
      /\ \A d \in DOMAIN entries : entries'[d] = entries[d]
  <2>1. /\ Len(entries) \in Nat /\ DOMAIN entries = 1..Len(entries)
        /\ DOMAIN entries' = 1..Len(entries') /\ Len(entries') = Len(entries) + 1
        /\ entries' \in Seq(EntryRow)
        /\ \A i \in 1..Len(entries) : entries'[i] = entries[i]
        /\ entries'[Len(entries) + 1] = r
    BY <1>1, <1>2, <1>5, AppendProperties
  <2> QED
    BY <2>1
<1>10. /\ cache' \in [T -> [Entries -> Graph \cup {NoGraph}]]
       /\ \A u \in T, d \in Entries : cache'[u][d] = cache[u][d] \/ (d = f /\ cache'[u][d] = g)
  <2> DEFINE G == Graph \cup {NoGraph}
             c == [cache[t] EXCEPT ![f] = g]
  <2>1. cache' = cache \/ cache' = [cache EXCEPT ![t] = c]
    BY <1>2
  <2>2. cache \in [T -> [Entries -> G]] /\ g \in G
    BY <1>1, <1>4
  <2>3. c \in [Entries -> G] /\ \A d \in Entries : c[d] = cache[t][d] \/ (d = f /\ c[d] = g)
    BY <2>2
  <2> HIDE DEF G, c
  <2>4. cache' \in [T -> [Entries -> G]]
    BY <2>1, <2>2, <2>3
  <2>5. \A u \in T, d \in Entries : cache'[u][d] = cache[u][d] \/ (d = f /\ cache'[u][d] = g)
    BY <2>1, <2>2, <2>3
  <2> QED
    BY <2>4, <2>5 DEF G
<1>11. page' \in [T -> Page] /\ page'[t] = NewPage /\ \A u \in T \ {t} : page'[u] = page[u]
  BY <1>1, <1>2, <1>6
<1>12. f \in Entries /\ UNCHANGED <<product, rows, job, saves>> /\ cache[t][e] # NoGraph
  BY <1>2
<1> HIDE DEF f
<1>13. CopyMade(t, e, f)
  BY <1>3, <1>5, <1>7, <1>8, <1>9, <1>10, <1>11, <1>12 DEF CopyMade
<1> QED
  BY <1>12, <1>13

\* Nobody but the claimant of e comes to hold a graph.
LEMMA CopyHeld ==
    ASSUME IInv, NEW t \in T, NEW e \in Entries, NEW f \in Entries, CopyMade(t, e, f),
           NEW x \in Claimants, NEW g \in Held(x)'
    PROVE  g \in Held(x) \/ g = Blank
<1>1. /\ T' = T /\ job' = job /\ job[t] = NoJob /\ OriginOK
      /\ \A d \in Entries \ {f} : Entry(d)' = Entry(d)
      /\ DOMAIN entries \subseteq Entries
  BY DEF CopyMade, T, Entry, Root, IInv, Shaped
<1>2. CASE Entry(f)' = x /\ g = entries'[f].graph
  <2>1. CASE entries'[f].graph = cache[t][e] /\ origin'[f] = origin[e]
    <3>1. x = Entry(e) /\ g = cache[t][e] /\ g # NoGraph
      BY <1>2, <2>1 DEF Entry, Root, CopyMade
    <3> QED
      BY <3>1, HeldIs
  <2>2. CASE entries'[f].graph = Blank
    BY <1>2, <2>2
  <2> QED
    BY <2>1, <2>2 DEF CopyMade
<1>3. CASE \E d \in DOMAIN entries' : x = Entry(d)' /\ g = entries'[d].graph
  <2>1. PICK d \in DOMAIN entries' : x = Entry(d)' /\ g = entries'[d].graph
    BY <1>3
  <2>2. CASE d # f
    <3>1. d \in DOMAIN entries /\ x = Entry(d) /\ g = entries[d].graph
      BY <1>1, <2>1, <2>2 DEF CopyMade
    <3> QED
      BY <3>1, HeldIs
  <2> QED
    BY <1>2, <2>1, <2>2
<1>4. CASE \E u \in T', d \in Entries : x = Entry(d)' /\ g = cache'[u][d] /\ g # NoGraph
  <2>1. PICK u \in T, d \in Entries : x = Entry(d)' /\ g = cache'[u][d] /\ g # NoGraph
    BY <1>1, <1>4
  <2>2. CASE d # f
    <3>1. x = Entry(d) /\ g = cache[u][d]
      BY <1>1, <2>1, <2>2 DEF CopyMade
    <3> QED
      BY <2>1, <3>1, HeldIs
  <2>3. CASE d = f
    <3>1. cache[u][f] = NoGraph
      BY DEF CopyMade, IInv, PageOK
    <3>2. g = entries'[f].graph
      BY <2>1, <2>3, <3>1 DEF CopyMade
    <3> QED
      BY <1>2, <2>1, <2>3, <3>2
  <2> QED
    BY <2>2, <2>3
<1>5. CASE \E u \in T' : x = For(u)' /\ g \in {page'[u].graph, job'[u].prior, job'[u].next}
  <2>1. PICK u \in T : x = For(u)' /\ g \in {page'[u].graph, job[u].prior, job[u].next}
    BY <1>1, <1>5
  <2>2. CASE u = t
    BY <1>1, <2>1, <2>2 DEF CopyMade, NewPage, NoJob
  <2>3. CASE u # t
    <3>1. page'[u] = page[u] /\ PageOK(u) /\ page[u].entry \in Entries \cup {0}
      BY <2>3 DEF CopyMade, IInv, Shaped, Page
    <3>2. page[u].entry = 0 \/ page[u].entry \in DOMAIN entries
      BY <3>1 DEF PageOK
    <3>3. For(u)' = For(u)
      BY <1>1, <3>1, <3>2 DEF For, CopyMade
    <3> QED
      BY <2>1, <3>1, <3>3, HeldIs
  <2> QED
    BY <2>2, <2>3
<1> QED
  BY <1>3, <1>4, <1>5, HeldNext

LEMMA CopyKeeps ==
    ASSUME IInv, NEW t \in T, NEW e \in Entries, NEW f \in Entries, CopyMade(t, e, f)
    PROVE  IInv'
<1>1. T' = T /\ saves' = saves /\ product' = product /\ job' = job /\ rows' = rows
  BY DEF CopyMade, T
<1>2. Shaped'
  BY <1>1 DEF CopyMade, IInv, Shaped
<1>3. OriginOK'
  <2>1. OriginOK /\ DOMAIN entries \subseteq Entries
    BY DEF IInv, Shaped
  <2>2. \A d \in DOMAIN entries' : origin'[d] \in DOMAIN entries'
    <3>1. ASSUME NEW d \in DOMAIN entries PROVE origin'[d] \in DOMAIN entries'
      BY <2>1 DEF OriginOK, CopyMade
    <3>2. origin'[f] \in DOMAIN entries'
      BY <2>1 DEF OriginOK, CopyMade
    <3> QED
      BY <3>1, <3>2 DEF CopyMade
  <2>3. \A d \in Entries \ DOMAIN entries' : origin'[d] = d
    BY <2>1 DEF OriginOK, CopyMade
  <2> QED
    BY <2>2, <2>3 DEF OriginOK
<1>4. \A u \in T : PageOK(u)'
  <2>1. ASSUME NEW u \in T, NEW d \in Entries, cache'[u][d] # NoGraph
        PROVE  d \in DOMAIN entries'
    BY <2>1 DEF CopyMade, IInv, PageOK
  <2>2. ASSUME NEW u \in T, page'[u].entry = 0 PROVE page'[u].graph = Blank
    BY <2>2 DEF CopyMade, NewPage, IInv, PageOK
  <2>3. ASSUME NEW u \in T, page'[u].entry # 0 PROVE cache'[u][page'[u].entry] # NoGraph
    <3>1. u # t /\ page'[u] = page[u] /\ page[u].entry \in Entries /\ PageOK(u)
      BY <2>3 DEF CopyMade, NewPage, IInv, Shaped, Page
    <3>2. cache[u][page[u].entry] # NoGraph /\ page[u].entry \in DOMAIN entries
      BY <2>3, <3>1 DEF PageOK
    <3> QED
      BY <3>1, <3>2 DEF CopyMade
  <2> QED
    BY <2>1, <2>2, <2>3 DEF PageOK
<1>5. \A u \in T : JobOK(u)'
  <2>1. JobOK(t)'
    BY <1>1 DEF CopyMade, JobOK, NoJob
  <2>2. ASSUME NEW u \in T \ {t} PROVE JobOK(u)'
    <3>1. JobOK(u) /\ page'[u] = page[u]
      BY DEF CopyMade, IInv
    <3> QED
      BY <1>1, <3>1 DEF JobOK
  <2> QED
    BY <2>1, <2>2
<1>6. \A u \in T : Sole(u)'
  <2> SUFFICES ASSUME NEW u \in T, job[u].step = "persist" PROVE Sole(u)'
    BY <1>1 DEF Sole
  <2> DEFINE s == job[u].save
  <2>1. /\ \A d \in DOMAIN entries : entries[d].graph.save # s
        /\ \A v \in T, d \in Entries : cache[v][d] # NoGraph => cache[v][d].save # s
        /\ \A v \in T : page[v].graph.save # s /\ job[v].prior.save # s
        /\ \A v \in T \ {u} : job[v].next.save # s
    BY DEF IInv, Sole
  <2>2. s # 0
    BY DEF IInv, JobOK
  <2>3. entries'[f].graph.save # s
    BY <2>1, <2>2, BlankFacts DEF CopyMade
  <2>4. \A d \in DOMAIN entries' : entries'[d].graph.save # s
    BY <2>1, <2>3 DEF CopyMade
  <2>5. \A v \in T, d \in Entries : cache'[v][d] # NoGraph => cache'[v][d].save # s
    BY <2>1, <2>3 DEF CopyMade
  <2>6. \A v \in T : page'[v].graph.save # s
    BY <2>1, <2>2, BlankFacts DEF CopyMade, NewPage
  <2> QED
    BY <1>1, <2>1, <2>4, <2>5, <2>6 DEF Sole
<1>7. HeldOK' /\ Apart'
  <2> DEFINE own == [x \in Claimants |-> x]
  <2>1. \A x \in Claimants : \A g \in Held(x)' : g \in Held(x) \/ g = Blank
    BY CopyHeld
  <2>2. saves \in Nat /\ saves' = saves
    BY <1>1, PortalAssumption DEF IInv, Shaped
  <2>3. NoRows(Blank, saves')
    BY <2>2, BlankNoRows
  <2>4. \A x \in Claimants : own[x] \in Claimants /\ \A y \in Claimants : own[x] = own[y] => x = y
    OBVIOUS
  <2>5. \A x \in Claimants : \A g \in Held(x)' : g \in Held(own[x]) \/ NoRows(g, saves')
    BY <2>1, <2>3
  <2> HIDE DEF own
  <2> QED
    BY <1>1, <2>2, <2>4, <2>5, Copied
<1> QED
  BY <1>1, <1>2, <1>3, <1>4, <1>5, <1>6, <1>7 DEF IInv

LEMMA DuplicateKeeps ==
    ASSUME IInv, NEW t \in T, NEW e \in Entries, Duplicate(t, e)
    PROVE  IInv'
BY CopyIs, CopyKeeps

LEMMA DeleteRowKeeps ==
    ASSUME IInv, UNCHANGED <<product, entries, cache, page, job, saves, origin>>, RowsAlone
    PROVE  IInv'
<1>1. T' = T
  BY DEF T
<1>2. Shaped' /\ OriginOK'
  BY <1>1, OriginStays DEF RowsAlone, IInv, Shaped
<1>3. \A u \in T : PageOK(u)' /\ JobOK(u)' /\ Sole(u)'
  <2> TAKE u \in T
  <2>1. PageOK(u) /\ JobOK(u) /\ Sole(u)
    BY DEF IInv
  <2> QED
    BY <1>1, <2>1 DEF PageOK, JobOK, Sole
<1>4. HeldOK' /\ Apart'
  <2> DEFINE f == [x \in Claimants |-> x]
  <2>1. \A x \in Claimants : Held(x)' = Held(x)
    BY <1>1 DEF Held, Stored, Cached, Shown, For, Entry
  <2>2. saves \in Nat
    BY PortalAssumption DEF IInv, Shaped
  <2>3. \A x \in Claimants : f[x] \in Claimants /\ \A y \in Claimants : f[x] = f[y] => x = y
    OBVIOUS
  <2>4. \A x \in Claimants : Held(x)' = Held(f[x])
    BY <2>1
  <2>5. DOMAIN rows' = DOMAIN rows /\ \A i \in DOMAIN rows : rows'[i].edit = rows[i].edit
    BY DEF RowsAlone
  <2> HIDE DEF f
  <2> QED
    BY <2>2, <2>3, <2>4, <2>5, Copied
<1> QED
  BY <1>1, <1>2, <1>3, <1>4 DEF IInv
-----------------------------------------------------------------------------
(* Saving.                                                                 *)

\* Only t's job moves, and the rows.
Worked(t) ==
    /\ UNCHANGED <<product, entries, cache, page, origin>>
    /\ job' \in [T -> Job] /\ \A u \in T \ {t} : job'[u] = job[u]
    /\ saves' \in saves..MaxSaves
    /\ Listed(rows') /\ DOMAIN rows \subseteq DOMAIN rows'
    /\ \A i \in DOMAIN rows' : rows'[i].edit \in 1..saves' /\ "edit" \in DOMAIN rows'[i]

\* What a job's step must say of its own job, so that the others' facts stay.
LEMMA WorkedFacts ==
    ASSUME IInv, NEW t \in T, Worked(t), JobOK(t)', Sole(t)',
           \A u \in T \ {t} : job[u].step = "persist" =>
              job'[t].prior.save # job[u].save /\ job'[t].next.save # job[u].save
    PROVE  /\ T' = T /\ product' = product /\ saves \in Nat /\ saves' \in Nat /\ saves <= saves'
           /\ Shaped' /\ OriginOK' /\ \A u \in T : PageOK(u)' /\ JobOK(u)' /\ Sole(u)'
<1>1. T' = T /\ product' = product
  BY DEF Worked, T
<1>2. saves \in Nat /\ saves' \in Nat /\ saves <= saves' /\ saves' \in 0..MaxSaves
  BY PortalAssumption DEF Worked, IInv, Shaped
<1>3. Shaped' /\ OriginOK'
  BY <1>1, <1>2, OriginStays DEF Worked, IInv, Shaped
<1>4. \A u \in T : PageOK(u)'
  BY <1>1 DEF Worked, IInv, PageOK
<1>5. ASSUME NEW u \in T \ {t} PROVE JobOK(u)' /\ Sole(u)'
  <2>1. JobOK(u) /\ Sole(u) /\ job'[u] = job[u]
    BY DEF Worked, IInv
  <2>2. JobOK(u)'
    BY <1>2, <2>1 DEF Worked, JobOK
  <2>3. Sole(u)'
    BY <1>1, <2>1 DEF Worked, Sole
  <2> QED
    BY <2>2, <2>3
<1> QED
  BY <1>1, <1>2, <1>3, <1>4, <1>5

\* A tab's own graphs.
LEMMA OwnGraphs ==
    ASSUME IInv, NEW t \in T
    PROVE  /\ For(t) \in Claimants
           /\ \A g \in {page[t].graph, job[t].prior, job[t].next} : g \in Held(For(t))
<1>1. page[t].entry \in Entries \cup {0}
  BY DEF IInv, Shaped, Page
<1>2. For(t) \in Claimants
  BY <1>1, EntryClaims DEF For, Claimants
<1> QED
  BY <1>2, HeldIs

\* What the claimants hold after a job's step.
LEMMA WorkedHeld ==
    ASSUME NEW t \in T, UNCHANGED <<product, entries, cache, page, origin>>,
           \A u \in T \ {t} : job'[u] = job[u], NEW x, NEW g \in Held(x)'
    PROVE  g \in Held(x) \/ (x = For(t) /\ g \in {job'[t].prior, job'[t].next})
<1>1. /\ T' = T /\ \A u \in T : For(u)' = For(u)
      /\ entries' = entries /\ cache' = cache /\ page' = page
      /\ \A u \in T \ {t} : job'[u] = job[u]
  BY DEF T, For, Entry
<1>2. CASE \E e \in DOMAIN entries' : x = Entry(e) /\ g = entries'[e].graph
  <2>1. g \in Held(x)
    BY <1>1, <1>2, HeldIs
  <2> QED
    BY <2>1
<1>3. CASE \E u \in T', e \in Entries : x = Entry(e) /\ g = cache'[u][e] /\ g # NoGraph
  <2>1. g \in Held(x)
    BY <1>1, <1>3, HeldIs
  <2> QED
    BY <2>1
<1>4. CASE \E u \in T' : x = For(u)' /\ g \in {page'[u].graph, job'[u].prior, job'[u].next}
  <2>1. PICK u \in T : x = For(u) /\ g \in {page[u].graph, job'[u].prior, job'[u].next}
    BY <1>1, <1>4
  <2>2. CASE g \in {page[u].graph, job[u].prior, job[u].next}
    <3>1. g \in Held(x)
      BY <2>1, <2>2, HeldIs
    <3> QED
      BY <3>1
  <2>3. CASE u = t /\ g \in {job'[t].prior, job'[t].next}
    BY <2>1, <2>3
  <2> QED
    BY <1>1, <2>1, <2>2, <2>3
<1> QED
  BY <1>2, <1>3, <1>4, HeldIsNext

\* What they hold after a step of a save that writes rows: nothing of that save
\* but the graph it has built.
LEMMA WritingHeld ==
    ASSUME IInv, NEW t \in T, job[t].step = "persist",
           UNCHANGED <<product, entries, cache, page, origin>>,
           \A u \in T \ {t} : job'[u] = job[u],
           job'[t].prior = job[t].prior, NEW x, NEW g \in Held(x)'
    PROVE  (g \in Held(x) /\ g.save # job[t].save) \/ (x = For(t) /\ g = job'[t].next)
<1>1. /\ T' = T /\ page' = page /\ entries' = entries /\ cache' = cache /\ origin' = origin
      /\ \A u \in T \ {t} : job'[u] = job[u]
  BY DEF T
<1>2. Sole(t)
  BY DEF IInv
<1> DEFINE Goal == (g \in Held(x) /\ g.save # job[t].save) \/ (x = For(t) /\ g = job'[t].next)
<1>3. CASE \E e \in DOMAIN entries' : x = Entry(e) /\ g = entries'[e].graph
  <2>1. g \in Held(x) /\ g.save # job[t].save
    BY <1>1, <1>2, <1>3, HeldIs DEF Sole
  <2> QED
    BY <2>1
<1>4. CASE \E u \in T', e \in Entries : x = Entry(e) /\ g = cache'[u][e] /\ g # NoGraph
  <2>1. g \in Held(x) /\ g.save # job[t].save
    BY <1>1, <1>2, <1>4, HeldIs DEF Sole
  <2> QED
    BY <2>1
<1>5. CASE \E u \in T' : x = For(u)' /\ g \in {page'[u].graph, job'[u].prior, job'[u].next}
  <2>1. PICK u \in T : x = For(u) /\ g \in {page[u].graph, job'[u].prior, job'[u].next}
    BY <1>1, <1>5 DEF For, Entry
  <2>2. CASE u = t /\ g = job'[t].next
    BY <2>1, <2>2
  <2>3. CASE g \in {page[u].graph, job[u].prior} \/ (u # t /\ g = job[u].next)
    <3>1. g \in Held(x) /\ g.save # job[t].save
      BY <1>2, <2>1, <2>3, HeldIs DEF Sole
    <3> QED
      BY <3>1
  <2> QED
    BY <1>1, <2>1, <2>2, <2>3
<1>6. Goal
  BY <1>3, <1>4, <1>5, HeldIsNext
<1> QED
  BY <1>6

LEMMA CopyJobKeeps ==
    ASSUME IInv, NEW t \in T, Worked(t), JobOK(t)', Sole(t)',
           \A u \in T \ {t} : job[u].step = "persist" =>
              job'[t].prior.save # job[u].save /\ job'[t].next.save # job[u].save,
           \A g \in {job'[t].prior, job'[t].next} : g \in Held(For(t)) \/ NoRows(g, saves'),
           \A x \in Claimants : \A g \in Held(x)' : \A i \in DOMAIN rows' :
              rows'[i].edit = g.save => i \in DOMAIN rows /\ rows[i].edit = g.save
    PROVE  IInv'
<1>1. /\ T' = T /\ product' = product /\ saves \in Nat /\ saves' \in Nat /\ saves <= saves'
      /\ Shaped' /\ OriginOK' /\ \A u \in T : PageOK(u)' /\ JobOK(u)' /\ Sole(u)'
  BY WorkedFacts
<1>2. HeldOK' /\ Apart'
  <2> DEFINE f == [x \in Claimants |-> x]
  <2>1. \A x \in Claimants : f[x] \in Claimants /\ \A y \in Claimants : f[x] = f[y] => x = y
    OBVIOUS
  <2>2. \A x \in Claimants : \A g \in Held(x)' : g \in Held(f[x]) \/ NoRows(g, saves')
    BY WorkedHeld DEF Worked
  <2>3. DOMAIN rows \subseteq DOMAIN rows'
    BY DEF Worked
  <2> HIDE DEF f
  <2> QED
    BY <1>1, <2>1, <2>2, <2>3, Copied
<1> QED
  BY <1>1, <1>2 DEF IInv

\* The parts of a save's requests differ, and the trade comes last.
LEMMA RequestsOnce ==
    ASSUME NEW p \in Pages, NEW keys \in CurveKeys(p), NEW r, r = Requests(p, keys)
    PROVE  /\ keys \in Seq(Keys) /\ r \in Seq(Parts) /\ r # <<>> /\ InOrder(r)
<1> DEFINE L == Leaves(p)
           D == Parts \ (Keys \cup {"trade"})
<1>1. p \in {"swap_ir", "swaption", "bond_fixed", "bond_floating", "cds",
             "equity_option", "swap_inflation"}
  BY PortalAssumption DEF Products
<1>2. keys \in Seq(Keys) /\ Once(keys)
  BY <1>1 DEF CurveKeys, Keys, Once
<1>3. L \in Seq(D) /\ Once(L)
  <2>1. {"set", "credit", "vol", "model", "index"} \subseteq D
    BY DEF Parts, Keys
  <2> HIDE DEF D
  <2>2. L \in {<<"set">>, <<"set", "index">>, <<"set", "vol", "model">>, <<"set", "credit">>,
               <<"vol">>, <<"index">>}
    BY <1>1 DEF Leaves
  <2>3. L \in Seq(D)
    <3>1. <<"set">> \in Seq(D) /\ <<"vol">> \in Seq(D) /\ <<"index">> \in Seq(D)
      BY <2>1
    <3>2. <<"set", "index">> \in Seq(D) /\ <<"set", "credit">> \in Seq(D)
      BY <2>1
    <3>3. <<"set", "vol", "model">> \in Seq(D)
      BY <2>1
    <3> QED
      BY <2>2, <3>1, <3>2, <3>3
  <2>4. Once(L)
    BY <2>2 DEF Once
  <2> QED
    BY <2>3, <2>4
<1> HIDE DEF L
<1>4. D \cap Keys = {} /\ "trade" \notin D \cup Keys /\ D \cup Keys \cup {"trade"} = Parts
  BY DEF Keys, Parts
<1> HIDE DEF D
<1> DEFINE q == keys \o L
<1>5. /\ q \in Seq(D \cup Keys) /\ Len(q) = Len(keys) + Len(L)
      /\ Len(keys) \in Nat /\ Len(L) \in Nat
      /\ \A i \in 1..Len(q) : q[i] = IF i <= Len(keys) THEN keys[i] ELSE L[i - Len(keys)]
  <2>1. keys \in Seq(D \cup Keys) /\ L \in Seq(D \cup Keys)
    BY <1>2, <1>3
  <2> QED
    BY <2>1, ConcatProperties, LenProperties
<1>6. Once(q)
  <2> SUFFICES ASSUME NEW m \in 1..Len(q), NEW n \in 1..Len(q), q[m] = q[n] PROVE m = n
    BY <1>5 DEF Once
  <2>1. \A i \in 1..Len(keys) : keys[i] \in Keys
    BY <1>2
  <2>2. \A i \in 1..Len(L) : L[i] \in D
    BY <1>3
  <2>3. (m <= Len(keys)) <=> (n <= Len(keys))
    BY <1>4, <1>5, <2>1, <2>2
  <2>4. CASE m <= Len(keys)
    BY <1>2, <1>5, <2>3, <2>4 DEF Once
  <2>5. CASE ~(m <= Len(keys))
    <3>1. L[m - Len(keys)] = L[n - Len(keys)]
      BY <1>5, <2>3, <2>5
    <3>2. m - Len(keys) \in 1..Len(L) /\ n - Len(keys) \in 1..Len(L)
      BY <1>5, <2>3, <2>5
    <3>3. m - Len(keys) = n - Len(keys)
      BY <1>3, <3>1, <3>2 DEF Once
    <3> QED
      BY <1>5, <3>3
  <2> QED
    BY <2>4, <2>5
<1> HIDE DEF q
<1>7. r = Append(q, "trade")
  <2>1. r = q \o <<"trade">>
    BY DEF Requests, L, q
  <2> QED
    BY <1>5, <2>1
<1>8. q \in Seq(Parts) /\ \A i \in 1..Len(q) : q[i] # "trade"
  BY <1>4, <1>5
<1>9. /\ r \in Seq(Parts) /\ r # <<>> /\ Len(r) = Len(q) + 1 /\ Len(q) \in Nat
      /\ r[Len(q) + 1] = "trade" /\ \A i \in 1..Len(q) : r[i] = q[i]
  BY <1>4, <1>5, <1>7, <1>8, AppendProperties
<1>10. DOMAIN r = 1..Len(r) /\ DOMAIN q = 1..Len(q)
  BY <1>5, <1>9
<1>11. InOrder(r)
  BY <1>6, <1>8, <1>9, <1>10 DEF Once, InOrder
<1> QED
  BY <1>2, <1>9, <1>11

LEMMA StartSaveKeeps ==
    ASSUME IInv, NEW t \in T, StartSave(t)
    PROVE  IInv'
<1>1. PICK keys \in CurveKeys(product), persist \in {TRUE, ~LocalOnly} :
         job' = [job EXCEPT ![t] =
                   [NoJob EXCEPT !.step = IF persist THEN "persist" ELSE "store",
                                 !.left = IF persist THEN Requests(product, keys) ELSE <<>>,
                                 !.keys = keys, !.save = saves', !.prior = page[t].graph,
                                 !.next = IF persist THEN [Blank EXCEPT !.save = saves']
                                          ELSE page[t].graph]]
  BY DEF StartSave
<1>2. /\ Idle(t) /\ saves < MaxSaves /\ saves' = saves + 1
      /\ UNCHANGED <<product, rows, entries, cache, page, origin>>
  BY DEF StartSave
<1>3. /\ product \in Pages /\ saves \in Nat /\ MaxSaves \in Nat /\ saves' \in 1..MaxSaves
      /\ page[t].graph \in Graph /\ job \in [T -> Job] /\ T' = T
  BY <1>2, PortalAssumption DEF IInv, Shaped, Page, T
<1> DEFINE new == [Blank EXCEPT !.save = saves']
           left == IF persist THEN Requests(product, keys) ELSE <<>>
<1>4. keys \in Seq(Keys) /\ left \in Seq(Parts)
  <2>1. Requests(product, keys) \in Seq(Parts) /\ keys \in Seq(Keys)
    BY <1>3, RequestsOnce
  <2> QED
    BY <2>1
<1>5. new \in Graph /\ RowsOf(new) = {} /\ new.save = saves' /\ \A p \in Parts : new.ids[p] = NoId
  BY <1>3, BlankFacts DEF Blank, Graph, RowsOf
<1>6. persist \in BOOLEAN
  OBVIOUS
<1> HIDE DEF new, left
<1>7. /\ \A u \in T \ {t} : job'[u] = job[u]
      /\ job'[t] = [step |-> IF persist THEN "persist" ELSE "store", left |-> left,
                    keys |-> keys, save |-> saves', prior |-> page[t].graph,
                    next |-> IF persist THEN new ELSE page[t].graph, fine |-> TRUE]
  BY <1>1, <1>3 DEF NoJob, new, left
<1>8. job' \in [T -> Job]
  <2>1. job'[t] \in Job
    BY <1>3, <1>4, <1>5, <1>6, <1>7 DEF Job
  <2> QED
    BY <1>1, <1>3, <2>1
<1>9. Worked(t)
  BY <1>2, <1>3, <1>7, <1>8 DEF Worked, IInv, Shaped
<1>10. NoRows(new, saves')
  BY <1>2, <1>3, <1>5 DEF NoRows, IInv, Shaped
<1>11. JobOK(t)'
  <2>1. persist => left # <<>> /\ InOrder(left)
    BY <1>3, RequestsOnce DEF left
  <2>2. \A n \in DOMAIN left : left[n] \in Parts
    BY <1>4
  <2> QED
    BY <1>2, <1>3, <1>5, <1>7, <2>1, <2>2 DEF JobOK
<1>12. \A x \in Claimants : \A g \in Held(x) : g.save <= saves
  BY DEF IInv, HeldOK, Whole
<1>13. Sole(t)'
  <2>1. \A e \in DOMAIN entries : entries[e].graph.save <= saves
    <3> TAKE e \in DOMAIN entries
    <3>1. Entry(e) \in Claimants
      BY EntryClaims
    <3>2. entries[e].graph \in Held(Entry(e))
      BY HeldIs
    <3> QED
      BY <1>12, <3>1, <3>2
  <2>2. \A u \in T, e \in Entries : cache[u][e] # NoGraph => cache[u][e].save <= saves
    <3> TAKE u \in T, e \in Entries
    <3> HAVE cache[u][e] # NoGraph
    <3>1. Entry(e) \in Claimants
      BY EntryClaims
    <3>2. cache[u][e] \in Held(Entry(e))
      BY HeldIs
    <3> QED
      BY <1>12, <3>1, <3>2
  <2>3. \A u \in T : /\ page[u].graph.save <= saves /\ job[u].prior.save <= saves
                     /\ job[u].next.save <= saves
    BY <1>12, OwnGraphs
  <2>4. \A g : g \in Graph => g.save \in Nat
    BY PortalAssumption DEF Graph
  <2>5. /\ \A e \in DOMAIN entries : entries[e].graph \in Graph
        /\ \A u \in T, e \in Entries : cache[u][e] # NoGraph => cache[u][e] \in Graph
        /\ \A u \in T : page[u].graph \in Graph /\ job[u].prior \in Graph /\ job[u].next \in Graph
    BY EntryRows DEF IInv, Shaped, Page, Job
  <2> QED
    BY <1>2, <1>3, <1>7, <2>1, <2>2, <2>3, <2>4, <2>5 DEF Sole
<1>14. \A u \in T \ {t} : job[u].step = "persist" =>
          job'[t].prior.save # job[u].save /\ job'[t].next.save # job[u].save
  BY <1>2, <1>3, <1>5, <1>7 DEF IInv, Sole, JobOK
<1>15. \A g \in {job'[t].prior, job'[t].next} : g \in Held(For(t)) \/ NoRows(g, saves')
  BY <1>7, <1>10, OwnGraphs
<1> QED
  BY <1>2, <1>9, <1>11, <1>13, <1>14, <1>15, CopyJobKeeps

LEMMA WriteIs ==
    ASSUME IInv, NEW t \in T, job[t].step = "persist", NEW p \in Parts, Write(job[t], p),
           NEW i, i = Target(job[t], p)
    PROVE  /\ RowWritten(i, job[t].save) /\ i \in Ids /\ i # NoId
           /\ i \in RowsOf(job[t].prior) \/ i \notin DOMAIN rows
           /\ RowPut(i, Written(job[t], p))
           /\ i \in DOMAIN rows => i = job[t].prior.ids[p]
<1> DEFINE w == Written(job[t], p)
           k == job[t].prior.ids[p]
<1>1. w.edit = job[t].save /\ "edit" \in DOMAIN w
  BY DEF Written
<1> HIDE DEF w
<1>2. Listed(rows) /\ \A n \in DOMAIN rows : "edit" \in DOMAIN rows[n]
  BY DEF IInv, Shaped
<1>3. CASE k = NoId
  <2>1. i = Len(rows) + 1 /\ i \in Ids /\ rows' = Append(rows, w)
    BY <1>3 DEF Write, Target, Or, w
  <2>2. /\ Listed(rows') /\ DOMAIN rows' = DOMAIN rows \cup {i} /\ i \notin DOMAIN rows
        /\ rows'[i] = w /\ \A n \in DOMAIN rows : rows'[n] = rows[n]
    <3> HIDE DEF k
    <3>1. Grown(rows, w, rows')
      BY <2>1 DEF Grown
    <3>2. /\ Listed(rows') /\ Len(rows) \in Nat
          /\ DOMAIN rows' = 1..(Len(rows) + 1) /\ DOMAIN rows = 1..Len(rows)
          /\ rows'[Len(rows) + 1] = w
          /\ \A n \in 1..Len(rows) : rows'[n] = rows[n]
      BY <1>2, <3>1, Appended
    <3> QED
      BY <2>1, <3>2
  <2>3. RowWritten(i, job[t].save) /\ i # NoId
    BY <1>1, <1>2, <2>1, <2>2, PortalAssumption DEF RowWritten
  <2>4. RowPut(i, w)
    BY <2>2 DEF RowPut
  <2> QED
    BY <2>1, <2>2, <2>3, <2>4 DEF w
<1>4. CASE k # NoId
  <2>1. i = k /\ rows' = [rows EXCEPT ![k] = w]
    BY <1>4 DEF Write, Target, Or, w
  <2>2. job[t].prior \in Graph /\ k \in RowsOf(job[t].prior)
    BY <1>4 DEF RowsOf, IInv, Shaped, Job
  <2>3. k \in DOMAIN rows /\ k \in Ids
    BY <1>4, <2>2, OwnGraphs DEF IInv, HeldOK, Whole, Graph
  <2> HIDE DEF k
  <2>4. /\ Listed(rows') /\ DOMAIN rows' = DOMAIN rows
        /\ \A n \in DOMAIN rows : rows'[n] = IF n = k THEN w ELSE rows[n]
    BY <1>2, <2>1, Replaced
  <2>5. RowWritten(i, job[t].save)
    BY <1>1, <1>2, <2>1, <2>3, <2>4 DEF RowWritten
  <2>6. RowPut(i, w)
    BY <2>1, <2>3, <2>4 DEF RowPut
  <2> QED
    BY <1>4, <2>1, <2>2, <2>3, <2>5, <2>6 DEF k, w
<1> QED
  BY <1>3, <1>4

\* A save's write leaves what other saves wrote, or takes some of it over.
LEMMA WrittenRows ==
    ASSUME IInv, NEW i, NEW s \in 1..saves, RowWritten(i, s)
    PROVE  /\ Listed(rows') /\ DOMAIN rows \subseteq DOMAIN rows'
           /\ \A k \in DOMAIN rows' : rows'[k].edit \in 1..saves /\ "edit" \in DOMAIN rows'[k]
           /\ \A k \in DOMAIN rows' : \/ rows'[k].edit = s
                                      \/ k \in DOMAIN rows /\ rows'[k].edit = rows[k].edit
<1>1. \A k \in DOMAIN rows : rows[k].edit \in 1..saves
  BY DEF IInv, Shaped
<1>2. /\ Listed(rows') /\ DOMAIN rows' = DOMAIN rows \cup {i}
      /\ \A k \in DOMAIN rows' : "edit" \in DOMAIN rows'[k]
      /\ rows'[i].edit = s /\ \A k \in DOMAIN rows \ {i} : rows'[k].edit = rows[k].edit
  BY DEF RowWritten
<1> QED
  BY <1>1, <1>2

LEMMA HeadIsPart ==
    ASSUME IInv, NEW t \in T, job[t].step = "persist"
    PROVE  /\ Head(job[t].left) \in Parts /\ Tail(job[t].left) \in Seq(Parts)
           /\ Head(job[t].left) = job[t].left[1] /\ Len(job[t].left) \in Nat \ {0}
           /\ Len(Tail(job[t].left)) = Len(job[t].left) - 1
           /\ \A n \in 1..Len(Tail(job[t].left)) : Tail(job[t].left)[n] = job[t].left[n + 1]
<1>1. job[t].left \in Seq(Parts) /\ job[t].left # <<>>
  BY DEF IInv, Shaped, Job, JobOK
<1> QED
  BY <1>1, HeadTailProperties

LEMMA PersistFailsKeeps ==
    ASSUME IInv, NEW t \in T, PersistFails(t)
    PROVE  IInv'
<1> DEFINE j == job[t]
           new == [j EXCEPT !.step = "store", !.left = <<>>, !.fine = FALSE, !.next = j.prior]
<1>1. /\ j.step = "persist" /\ UNCHANGED <<product, entries, cache, page, saves, origin>>
      /\ Write(j, Head(j.left)) \/ UNCHANGED rows
  BY DEF PersistFails
<1>2. job \in [T -> Job] /\ j \in Job /\ saves \in Nat /\ saves <= MaxSaves /\ T' = T
  BY <1>1, PortalAssumption DEF IInv, Shaped, T
<1>3. new \in Job
  <2>1. j.prior \in Graph /\ <<>> \in Seq(Parts)
    BY <1>2 DEF Job
  <2> QED
    BY <1>2, <2>1 DEF Job
<1>4. job' = [job EXCEPT ![t] = new]
  BY DEF PersistFails
<1> HIDE DEF new
<1>5. job' \in [T -> Job] /\ job'[t] = new /\ \A u \in T \ {t} : job'[u] = job[u]
  BY <1>2, <1>3, <1>4
<1>6. /\ Listed(rows') /\ DOMAIN rows \subseteq DOMAIN rows'
      /\ \A k \in DOMAIN rows' : rows'[k].edit \in 1..saves /\ "edit" \in DOMAIN rows'[k]
      /\ \A k \in DOMAIN rows' : \/ rows'[k].edit = j.save
                                 \/ k \in DOMAIN rows /\ rows'[k].edit = rows[k].edit
  <2>1. CASE UNCHANGED rows
    BY <2>1 DEF IInv, Shaped
  <2>2. CASE Write(j, Head(j.left))
    <3>1. j.save \in 1..saves
      BY <1>1 DEF IInv, JobOK
    <3>2. PICK i : RowWritten(i, j.save)
      BY <1>1, <2>2, HeadIsPart, WriteIs
    <3> QED
      BY <3>1, <3>2, WrittenRows
  <2> QED
    BY <1>1, <2>1, <2>2
<1>7. Worked(t)
  BY <1>1, <1>2, <1>5, <1>6 DEF Worked
<1>8. JobOK(t)' /\ Sole(t)'
  <2>1. JobOK(t) /\ new.step = "store" /\ new.prior = j.prior /\ new.next = j.prior /\ ~new.fine
    BY <1>2 DEF IInv, new, Job
  <2> QED
    BY <1>1, <1>5, <2>1 DEF JobOK, Sole
<1>9. job'[t].prior = j.prior /\ job'[t].next = j.prior
  BY <1>2, <1>5 DEF new, Job
<1>10. \A u \in T \ {t} : job[u].step = "persist" =>
          job'[t].prior.save # job[u].save /\ job'[t].next.save # job[u].save
  BY <1>9 DEF IInv, Sole
<1>11. \A g \in {job'[t].prior, job'[t].next} : g \in Held(For(t))
  BY <1>9, OwnGraphs
<1>12. \A x \in Claimants : \A g \in Held(x)' : g.save # j.save
  BY <1>1, <1>5, <1>9, WritingHeld DEF IInv, Sole
<1>13. \A x \in Claimants : \A g \in Held(x)' : \A i \in DOMAIN rows' :
          rows'[i].edit = g.save => i \in DOMAIN rows /\ rows[i].edit = g.save
  BY <1>6, <1>12
<1> QED
  BY <1>7, <1>8, <1>10, <1>11, <1>13, CopyJobKeeps

\* The graph a save builds, after it has written part p as row i.
Naming(g, p, i) == [ids |-> [g.ids EXCEPT ![p] = i], save |-> g.save]

LEMMA NamingFacts ==
    ASSUME NEW g \in Graph, NEW p \in Parts, NEW i \in Ids, i # NoId, g.ids[p] = NoId
    PROVE  /\ Naming(g, p, i) \in Graph
           /\ RowsOf(Naming(g, p, i)) = RowsOf(g) \cup {i}
           /\ \A q \in Parts \ {p} : Naming(g, p, i).ids[q] = g.ids[q]
BY DEF Naming, Graph, RowsOf

\* A request that succeeds moves its job on, and nothing but its row.
LEMMA PersistIs ==
    ASSUME IInv, NEW t \in T, Persist(t),
           NEW p, p = Head(job[t].left), NEW i, i = Target(job[t], p)
    PROVE  /\ p \in Parts /\ RowWritten(i, job[t].save) /\ i \in Ids /\ i # NoId
           /\ i \in RowsOf(job[t].prior) \/ i \notin DOMAIN rows
           /\ job[t].next \in Graph /\ job[t].next.ids[p] = NoId
           /\ Worked(t) /\ saves' = saves
           /\ job'[t].next = Naming(job[t].next, p, i)
           /\ job'[t].left = Tail(job[t].left)
           /\ job'[t].step = IF p = "trade" THEN "store" ELSE "persist"
           /\ job'[t].prior = job[t].prior /\ job'[t].save = job[t].save
           /\ job'[t].fine = job[t].fine /\ job'[t].keys = job[t].keys
<1> DEFINE j == job[t]
           step == IF p = "trade" THEN "store" ELSE j.step
           new == [j EXCEPT !.next.ids[p] = i, !.left = Tail(@), !.step = step]
<1>1. /\ j.step = "persist" /\ Write(j, p) /\ saves' = saves
      /\ UNCHANGED <<product, entries, cache, page, origin>>
      /\ job' = [job EXCEPT ![t] = new]
  BY DEF Persist
<1>2. /\ p \in Parts /\ Tail(j.left) \in Seq(Parts) /\ p = j.left[1] /\ 1 \in DOMAIN j.left
      /\ job \in [T -> Job] /\ j \in Job /\ saves \in Nat /\ saves <= MaxSaves
  BY <1>1, HeadIsPart, PortalAssumption DEF IInv, Shaped, Job
<1>3. /\ RowWritten(i, j.save) /\ i \in Ids /\ i # NoId
      /\ i \in RowsOf(j.prior) \/ i \notin DOMAIN rows
  BY <1>1, <1>2, WriteIs
<1>4. j.next \in Graph /\ j.next.ids[p] = NoId /\ j.save \in 1..saves
  BY <1>1, <1>2 DEF IInv, JobOK, Job
<1>5. Naming(j.next, p, i) \in Graph
  BY <1>2, <1>3, <1>4, NamingFacts
<1>6. /\ new.next = Naming(j.next, p, i) /\ new.left = Tail(j.left) /\ new.step = step
      /\ new.prior = j.prior /\ new.save = j.save /\ new.fine = j.fine /\ new.keys = j.keys
      /\ new = [step |-> new.step, left |-> new.left, keys |-> new.keys, save |-> new.save,
                prior |-> new.prior, next |-> new.next, fine |-> new.fine]
  <2> DEFINE a == [j EXCEPT !.next.ids[p] = i]
             b == [a EXCEPT !.left = Tail(@)]
  <2>1. /\ a.left = j.left /\ a.step = j.step /\ a.prior = j.prior /\ a.save = j.save
        /\ a.fine = j.fine /\ a.keys = j.keys
        /\ DOMAIN a = {"step", "left", "keys", "save", "prior", "next", "fine"}
    BY <1>2 DEF Job
  <2>2. a.next = Naming(j.next, p, i)
    <3>1. a.next = [j.next EXCEPT !.ids[p] = i]
      BY <1>2 DEF Job
    <3>2. [j.next EXCEPT !.ids[p] = i] = Naming(j.next, p, i)
      BY <1>4 DEF Graph, Naming
    <3> QED
      BY <3>1, <3>2
  <2> HIDE DEF a
  <2>3. /\ b.next = a.next /\ b.left = Tail(a.left) /\ b.step = a.step /\ b.prior = a.prior
        /\ b.save = a.save /\ b.fine = a.fine /\ b.keys = a.keys
        /\ DOMAIN b = {"step", "left", "keys", "save", "prior", "next", "fine"}
    BY <2>1
  <2>4. new = [b EXCEPT !.step = step]
    BY DEF a
  <2> HIDE DEF b, new
  <2>5. /\ new.next = b.next /\ new.left = b.left /\ new.step = step /\ new.prior = b.prior
        /\ new.save = b.save /\ new.fine = b.fine /\ new.keys = b.keys
    BY <2>3, <2>4
  <2>6. new = [step |-> new.step, left |-> new.left, keys |-> new.keys, save |-> new.save,
               prior |-> new.prior, next |-> new.next, fine |-> new.fine]
    BY <2>3, <2>4
  <2> QED
    BY <2>1, <2>2, <2>3, <2>5, <2>6
<1> HIDE DEF new
<1>7. new \in Job
  BY <1>1, <1>2, <1>5, <1>6 DEF Job
<1>8. job' \in [T -> Job] /\ job'[t] = new /\ \A u \in T \ {t} : job'[u] = job[u]
  BY <1>1, <1>2, <1>7
<1>9. Worked(t)
  BY <1>1, <1>2, <1>3, <1>4, <1>8, WrittenRows DEF Worked
<1> QED
  BY <1>1, <1>2, <1>3, <1>4, <1>6, <1>8, <1>9

LEMMA RestInOrder ==
    ASSUME NEW l, l \in Seq(Parts), l # <<>>, InOrder(l)
    PROVE  /\ InOrder(Tail(l)) /\ (Head(l) # "trade" => Tail(l) # <<>>)
           /\ \A n \in DOMAIN Tail(l) : /\ Tail(l)[n] \in Parts \ {Head(l)}
                                        /\ \E m \in DOMAIN l : Tail(l)[n] = l[m]
<1>1. PICK r : r = Tail(l)
  OBVIOUS
<1>2. PICK k : k = Len(l)
  OBVIOUS
<1>3. /\ k \in Nat \ {0} /\ DOMAIN l = 1..k /\ Head(l) = l[1] /\ \A n \in 1..k : l[n] \in Parts
      /\ r \in Seq(Parts) /\ Len(r) = k - 1 /\ \A n \in 1..Len(r) : r[n] = l[n + 1]
  BY <1>1, <1>2, HeadTailProperties
<1>4. DOMAIN r = 1..(k - 1) /\ \A n \in 1..(k - 1) : r[n] = l[n + 1] /\ n + 1 \in 1..k
  BY <1>3
<1>5. /\ \A m, n \in 1..k : l[m] = l[n] => m = n
      /\ \A n \in 1..k : (l[n] = "trade") <=> (n = k)
  BY <1>2, <1>3 DEF InOrder, Once
<1>6. Once(r)
  BY <1>3, <1>4, <1>5 DEF Once
<1>7. \A n \in DOMAIN r : (r[n] = "trade") <=> (n = Len(r))
  BY <1>3, <1>4, <1>5
<1>8. Head(l) # "trade" => r # <<>>
  <2>1. Head(l) # "trade" => k # 1
    BY <1>3, <1>5
  <2>2. k # 1 => Len(r) # 0
    BY <1>3
  <2> QED
    BY <2>1, <2>2
<1>9. \A n \in DOMAIN r : r[n] # l[1] /\ r[n] \in Parts /\ \E m \in DOMAIN l : r[n] = l[m]
  <2> TAKE n \in DOMAIN r
  <2>1. n + 1 \in 1..k /\ r[n] = l[n + 1] /\ n + 1 # 1 /\ 1 \in 1..k
    BY <1>3, <1>4
  <2>2. r[n] # l[1]
    BY <1>5, <2>1
  <2> QED
    BY <1>3, <2>1, <2>2
<1> QED
  BY <1>1, <1>3, <1>6, <1>7, <1>8, <1>9 DEF InOrder

LEMMA PersistKeeps ==
    ASSUME IInv, NEW t \in T, Persist(t)
    PROVE  IInv'
<1> DEFINE j == job[t]
           s == j.save
           p == Head(j.left)
           i == Target(j, p)
           built == Naming(j.next, p, i)
<1>1. /\ p \in Parts /\ RowWritten(i, s) /\ i \in Ids /\ i # NoId
      /\ i \in RowsOf(j.prior) \/ i \notin DOMAIN rows
      /\ j.next \in Graph /\ j.next.ids[p] = NoId
      /\ Worked(t) /\ saves' = saves
      /\ job'[t].next = built /\ job'[t].left = Tail(j.left)
      /\ job'[t].step = IF p = "trade" THEN "store" ELSE "persist"
      /\ job'[t].prior = j.prior /\ job'[t].save = s
      /\ job'[t].fine = j.fine /\ job'[t].keys = j.keys
  BY PersistIs
<1>2. j.step = "persist" /\ JobOK(t) /\ Sole(t)
  BY DEF Persist, IInv
<1>3. j.next.save = s /\ s \in 1..saves
  BY <1>2 DEF JobOK
<1>4. /\ built \in Graph /\ RowsOf(built) = RowsOf(j.next) \cup {i} /\ built.save = s
      /\ \A q \in Parts \ {p} : built.ids[q] = j.next.ids[q]
  <2> HIDE DEF i, p, s
  <2>1. built.save = s
    BY <1>3 DEF Naming
  <2> QED
    BY <1>1, <2>1, NamingFacts
<1>5. T' = T /\ page' = page /\ entries' = entries /\ cache' = cache
      /\ \A u \in T \ {t} : job'[u] = job[u]
  BY <1>1 DEF Worked, T
<1> HIDE DEF i, p, s, built
<1>6. JobOK(t)'
  <2>1. j.left \in Seq(Parts) /\ j.left # <<>> /\ InOrder(j.left)
        /\ \A m \in DOMAIN j.left : j.next.ids[j.left[m]] = NoId
    BY <1>2 DEF JobOK, IInv, Shaped, Job
  <2> DEFINE rest == Tail(j.left)
  <2>2. /\ InOrder(rest) /\ (p # "trade" => rest # <<>>)
        /\ \A n \in DOMAIN rest : /\ rest[n] \in Parts \ {p}
                                  /\ \E m \in DOMAIN j.left : rest[n] = j.left[m]
    BY <2>1, RestInOrder DEF p
  <2>3. job'[t].left = rest /\ j.fine /\ j.prior = page[t].graph
    BY <1>1, <1>2 DEF JobOK
  <2> HIDE DEF rest
  <2>4. \A n \in DOMAIN rest : built.ids[rest[n]] = NoId
    BY <1>4, <2>1, <2>2
  <2> QED
    BY <1>1, <1>3, <1>4, <1>5, <2>2, <2>3, <2>4 DEF JobOK
<1>7. Sole(t)'
  BY <1>1, <1>2, <1>5 DEF Sole, s
<1>8. \A u \in T \ {t} : job[u].step = "persist" =>
         job'[t].prior.save # job[u].save /\ job'[t].next.save # job[u].save
  BY <1>1, <1>3, <1>4 DEF IInv, Sole
<1>9. /\ T' = T /\ product' = product /\ saves \in Nat /\ saves' \in Nat /\ saves <= saves'
       /\ Shaped' /\ OriginOK' /\ \A u \in T : PageOK(u)' /\ JobOK(u)' /\ Sole(u)'
  BY <1>1, <1>6, <1>7, <1>8, WorkedFacts
<1>10. Claimants' = Claimants
  BY <1>9 DEF Claimants
<1>11. \A x \in Claimants : \A g \in Held(x)' :
          (g \in Held(x) /\ g.save # s) \/ (x = For(t) /\ g = built)
  BY <1>1, <1>2, <1>5, WritingHeld DEF Worked, s
<1>12. DOMAIN rows' = DOMAIN rows \cup {i} /\ rows'[i].edit = s
       /\ \A k \in DOMAIN rows \ {i} : rows'[k].edit = rows[k].edit
  BY <1>1 DEF RowWritten
<1>13. For(t) \in Claimants /\ j.prior \in Held(For(t)) /\ j.next \in Held(For(t))
  BY OwnGraphs
<1>14. HeldOK'
  <2> SUFFICES ASSUME NEW x \in Claimants, NEW g \in Held(x)' PROVE g \in Graph /\ Whole(g)'
    BY <1>10 DEF HeldOK
  <2>1. CASE g \in Held(x) /\ g.save # s
    <3>1. g \in Graph /\ Whole(g)
      BY <2>1 DEF IInv, HeldOK
    <3> QED
      BY <1>1, <1>12, <2>1, <3>1 DEF Whole, RowsOf
  <2>2. CASE g = built
    <3>1. RowsOf(j.next) \subseteq DOMAIN rows
          /\ {k \in DOMAIN rows : rows[k].edit = s} \subseteq RowsOf(j.next)
      BY <1>3, <1>13 DEF IInv, HeldOK, Whole
    <3>2. {k \in DOMAIN rows' : rows'[k].edit = s} \subseteq RowsOf(built)
      BY <1>4, <1>12, <3>1
    <3>3. RowsOf(built) \subseteq DOMAIN rows' /\ built.save <= saves'
      BY <1>1, <1>3, <1>4, <1>12, <3>1
    <3> QED
      BY <1>4, <2>2, <3>2, <3>3 DEF Whole, RowsOf
  <2> QED
    BY <1>11, <2>1, <2>2
<1>15. Apart'
  <2>1. ASSUME NEW y \in Claimants \ {For(t)}, NEW h \in Held(y)'
        PROVE  RowsOf(h) \cap RowsOf(built) = {}
    <3>1. h \in Held(y)
      BY <1>11
    <3>2. RowsOf(h) \cap RowsOf(j.next) = {} /\ RowsOf(h) \cap RowsOf(j.prior) = {}
          /\ RowsOf(h) \subseteq DOMAIN rows
      BY <1>13, <3>1 DEF IInv, Apart, HeldOK, Whole
    <3> QED
      BY <1>1, <1>4, <3>2
  <2>2. ASSUME NEW x \in Claimants, NEW y \in Claimants, x # y,
               NEW g \in Held(x)', NEW h \in Held(y)'
        PROVE  RowsOf(g) \cap RowsOf(h) = {}
    <3>1. CASE g \in Held(x) /\ h \in Held(y)
      BY <2>2, <3>1 DEF IInv, Apart
    <3>2. CASE x = For(t) /\ g = built
      BY <2>1, <2>2, <3>2
    <3>3. CASE y = For(t) /\ h = built
      BY <2>1, <2>2, <3>3
    <3> QED
      BY <1>11, <3>1, <3>2, <3>3
  <2> QED
    BY <1>10, <2>2 DEF Apart, RowsOf
<1> QED
  BY <1>9, <1>14, <1>15 DEF IInv

\* The wrapper is written, on the server at least, with a graph the tab holds.
Stowed(t) ==
    LET e == EntryOf(t)
    IN  /\ job[t].step = "store" /\ UNCHANGED <<product, rows, saves, origin>>
        /\ job' = [job EXCEPT ![t] = NoJob]
        /\ e \in Entries /\ (page[t].entry = 0 => e \notin DOMAIN entries)
        /\ entries' \in Seq(EntryRow) /\ DOMAIN entries' = DOMAIN entries \cup {e}
        /\ entries'[e].graph = Kept(t)
        /\ \A d \in DOMAIN entries \ {e} : entries'[d] = entries[d]
        /\ cache' \in [T -> [Entries -> Graph \cup {NoGraph}]]
        /\ cache'[t][e] \in {cache[t][e], Kept(t)}
        /\ \A d \in Entries \ {e} : cache'[t][d] = cache[t][d]
        /\ page' \in [T -> Page]
        /\ \/ page'[t] = page[t]
           \/ page'[t] = [entry |-> e, graph |-> job[t].next] /\ cache'[t][e] = Kept(t)
        /\ \A u \in T \ {t} : cache'[u] = cache[u] /\ page'[u] = page[u]

LEMMA KeptIs ==
    ASSUME IInv, NEW t \in T, job[t].step = "store"
    PROVE  /\ Kept(t) \in Graph /\ Kept(t) \in Held(For(t))
           /\ \/ Kept(t) = job[t].next
              \/ page[t].entry # 0 /\ Kept(t) = cache[t][page[t].entry]
<1> DEFINE e == page[t].entry
<1>1. job[t].next \in Graph /\ job[t].next \in Held(For(t))
  BY OwnGraphs DEF IInv, Shaped, Job
<1>2. CASE Kept(t) = job[t].next
  BY <1>1, <1>2
<1>3. CASE Kept(t) # job[t].next
  <2>1. e # 0 /\ Kept(t) = cache[t][e]
    BY <1>3 DEF Kept
  <2>2. cache[t][e] # NoGraph /\ e \in Entries /\ cache[t][e] \in Graph
    BY <2>1 DEF IInv, PageOK, Shaped, Page
  <2>3. cache[t][e] \in Held(For(t))
    BY <2>1, <2>2, HeldIs DEF For
  <2> QED
    BY <2>1, <2>2, <2>3
<1> QED
  BY <1>2, <1>3

LEMMA EntryWritten ==
    ASSUME IInv, NEW t \in T, job[t].step = "store", WriteEntry(t)
    PROVE  LET e == EntryOf(t)
           IN  /\ e \in Entries /\ (page[t].entry = 0 => e \notin DOMAIN entries)
               /\ entries' \in Seq(EntryRow) /\ DOMAIN entries' = DOMAIN entries \cup {e}
               /\ entries'[e].graph = Kept(t)
               /\ \A d \in DOMAIN entries \ {e} : entries'[d] = entries[d]
<1> DEFINE e == EntryOf(t)
           r == [live |-> TRUE, graph |-> Kept(t)]
<1>1. r \in EntryRow /\ r.graph = Kept(t)
  BY KeptIs DEF EntryRow
<1>2. entries \in Seq(EntryRow)
  BY DEF IInv, Shaped
<1>3. CASE page[t].entry = 0
  <2>1. e = Len(entries) + 1 /\ e \in Entries /\ entries' = Append(entries, r)
    BY <1>3 DEF WriteEntry, EntryOf
  <2> HIDE DEF e, r
  <2>2. /\ entries' \in Seq(EntryRow) /\ Len(entries') = e /\ Len(entries) \in Nat
        /\ entries'[e] = r /\ \A d \in 1..Len(entries) : entries'[d] = entries[d]
    BY <1>1, <1>2, <2>1, AppendProperties
  <2>3. DOMAIN entries' = 1..e /\ DOMAIN entries = 1..Len(entries)
    BY <1>2, <2>2
  <2> QED
    BY <1>1, <2>1, <2>2, <2>3 DEF e
<1>4. CASE page[t].entry # 0
  <2>1. e = page[t].entry /\ entries' = [entries EXCEPT ![e] = r] /\ e \in Entries
    BY <1>4 DEF WriteEntry, EntryOf, IInv, Shaped, Page
  <2>2. e \in DOMAIN entries
    BY <1>4, <2>1 DEF IInv, PageOK
  <2> HIDE DEF e, r
  <2>3. DOMAIN entries = 1..Len(entries)
    BY <1>2
  <2>4. entries' \in Seq(EntryRow)
    BY <1>1, <1>2, <2>1, <2>2, <2>3, ExceptSeq
  <2>5. DOMAIN entries' = DOMAIN entries /\ entries'[e] = r
        /\ \A d \in DOMAIN entries \ {e} : entries'[d] = entries[d]
    BY <2>1, <2>2
  <2> QED
    BY <1>1, <1>4, <2>1, <2>2, <2>4, <2>5 DEF e
<1> QED
  BY <1>3, <1>4

LEMMA StowIs ==
    ASSUME IInv, NEW t \in T,
           Store(t) \/ (StoreFails(t) /\ WriteEntry(t))
    PROVE  Stowed(t)
<1> DEFINE e == EntryOf(t)
<1>1. /\ job[t].step = "store" /\ UNCHANGED <<product, rows, saves, origin>>
      /\ job' = [job EXCEPT ![t] = NoJob] /\ WriteEntry(t)
  BY DEF Store, StoreFails
<1>2. /\ e \in Entries /\ (page[t].entry = 0 => e \notin DOMAIN entries)
      /\ entries' \in Seq(EntryRow) /\ DOMAIN entries' = DOMAIN entries \cup {e}
      /\ entries'[e].graph = Kept(t)
      /\ \A d \in DOMAIN entries \ {e} : entries'[d] = entries[d]
  BY <1>1, EntryWritten
<1>3. /\ cache \in [T -> [Entries -> Graph \cup {NoGraph}]] /\ page \in [T -> Page]
      /\ Kept(t) \in Graph /\ job[t].next \in Graph
  BY <1>1, KeptIs DEF IInv, Shaped, Job
<1> HIDE DEF e
<1>4. CASE StoreFails(t)
  <2>1. cache' = cache /\ page' = page
    BY <1>4 DEF StoreFails
  <2> QED
    BY <1>1, <1>2, <1>3, <2>1 DEF Stowed, e
<1>5. CASE Store(t)
  <2>1. /\ cache' = [cache EXCEPT ![t][e] = Kept(t)]
        /\ page' = [page EXCEPT ![t] = IF job[t].fine \/ OwnIds
                                       THEN [entry |-> e, graph |-> job[t].next] ELSE @]
    BY <1>5 DEF Store, e
  <2>2. /\ cache' \in [T -> [Entries -> Graph \cup {NoGraph}]]
        /\ cache'[t][e] = Kept(t) /\ \A d \in Entries \ {e} : cache'[t][d] = cache[t][d]
        /\ \A u \in T \ {t} : cache'[u] = cache[u]
    BY <1>2, <1>3, <2>1
  <2>3. [entry |-> e, graph |-> job[t].next] \in Page
    BY <1>2, <1>3 DEF Page
  <2>4. /\ page' \in [T -> Page] /\ \A u \in T \ {t} : page'[u] = page[u]
        /\ page'[t] = page[t] \/ page'[t] = [entry |-> e, graph |-> job[t].next]
    BY <1>3, <2>1, <2>3
  <2> QED
    BY <1>1, <1>2, <2>2, <2>4 DEF Stowed, e
<1> QED
  BY <1>4, <1>5

\* After it the entry has what the tab held, and a tab still without entry nothing.
LEMMA StowedHeld ==
    ASSUME IInv, NEW t \in T, Stowed(t), NEW x, NEW g \in Held(x)'
    PROVE  \/ g = Blank
           \/ x = Entry(EntryOf(t)) /\ g \in Held(For(t))
           \/ x # Entry(EntryOf(t)) /\ x # For(t) /\ g \in Held(x)
<1> DEFINE e == EntryOf(t)
<1>1. /\ T' = T /\ Kept(t) \in Held(For(t)) /\ job[t].next \in Held(For(t))
      /\ page[t].graph \in Held(For(t)) /\ e \in Entries /\ e # 0
      /\ job \in [T -> Job] /\ job' = [job EXCEPT ![t] = NoJob]
  BY KeptIs, OwnGraphs, EntryNumbers DEF Stowed, T, IInv, Shaped
<1>2. \/ page[t].entry = e /\ For(t) = Entry(e)
      \/ page[t].entry = 0 /\ For(t) = Tab(t) /\ page[t].graph = Blank /\ e \notin DOMAIN entries
  BY DEF Stowed, EntryOf, For, IInv, PageOK
<1>3. Entry(e) # Tab(t)
  BY DEF Entry, Root, Tab
<1>4. page[t].entry = 0 => \A d \in DOMAIN entries : Entry(d) # Entry(e)
  BY <1>1, <1>2 DEF Entry, Root, IInv, OriginOK
<1>5. \A d \in Entries : Entry(d) # Tab(t)
  BY DEF Entry, Root, Tab
<1>6. \A u \in T \ {t} : Tab(u) # Tab(t) /\ Tab(u) # Entry(e)
  BY DEF Entry, Root, Tab
<1>7. \A u \in T : /\ page[u].entry \in Entries => cache[u][page[u].entry] # NoGraph
                   /\ \A d \in Entries : cache[u][d] # NoGraph => d \in DOMAIN entries
                   /\ page[u].entry \in Entries \cup {0}
  BY EntryNumbers DEF IInv, PageOK, Shaped, Page
<1>8. DOMAIN entries \subseteq Entries
  BY DEF IInv, Shaped
<1> DEFINE Goal == \/ g = Blank
                   \/ x = Entry(e) /\ g \in Held(For(t))
                   \/ x # Entry(e) /\ x # For(t) /\ g \in Held(x)
<1>9. ASSUME NEW d \in DOMAIN entries, x = Entry(d), g \in Held(x)
      PROVE  Goal
  BY <1>2, <1>4, <1>5, <1>8, <1>9
<1>10. CASE \E d \in DOMAIN entries' : x = Entry(d) /\ g = entries'[d].graph
  <2>1. PICK d \in DOMAIN entries' : x = Entry(d) /\ g = entries'[d].graph
    BY <1>10
  <2>2. CASE d = e
    BY <1>1, <2>1, <2>2 DEF Stowed
  <2>3. CASE d # e
    <3>1. d \in DOMAIN entries /\ g = entries[d].graph
      BY <2>1, <2>3 DEF Stowed
    <3>2. g \in Held(x)
      BY <2>1, <3>1, HeldIs
    <3> QED
      BY <1>9, <2>1, <3>1, <3>2
  <2> QED
    BY <2>2, <2>3
<1>11. CASE \E u \in T', d \in Entries : x = Entry(d) /\ g = cache'[u][d] /\ g # NoGraph
  <2>1. PICK u \in T, d \in Entries : x = Entry(d) /\ g = cache'[u][d] /\ g # NoGraph
    BY <1>1, <1>11
  <2>2. CASE g = cache[u][d]
    <3>1. g \in Held(x) /\ d \in DOMAIN entries
      BY <1>7, <2>1, <2>2, HeldIs
    <3> QED
      BY <1>9, <2>1, <3>1
  <2>3. CASE d = e /\ g = Kept(t)
    BY <1>1, <2>1, <2>3
  <2> QED
    BY <2>1, <2>2, <2>3 DEF Stowed
<1>12. CASE \E u \in T' : x = For(u)' /\ g \in {page'[u].graph, job'[u].prior, job'[u].next}
  <2>1. PICK u \in T : x = For(u)' /\ g \in {page'[u].graph, job'[u].prior, job'[u].next}
    BY <1>1, <1>12
  <2>2. CASE u # t
    <3>1. page'[u] = page[u] /\ job'[u] = job[u]
      BY <1>1, <2>2 DEF Stowed
    <3>2. x = For(u) /\ g \in Held(x)
      BY <2>1, <3>1, HeldIs DEF For, Entry, Stowed
    <3>3. CASE page[u].entry = 0
      BY <1>2, <1>5, <1>6, <2>2, <3>2, <3>3 DEF For
    <3>4. CASE page[u].entry # 0
      BY <1>7, <1>9, <3>2, <3>4 DEF For
    <3> QED
      BY <3>3, <3>4
  <2>3. CASE u = t
    <3>1. job'[t].prior = Blank /\ job'[t].next = Blank
      BY <1>1 DEF NoJob
    <3>2. CASE page'[t] = page[t]
      <4>1. x = For(t) /\ g \in {page[t].graph, Blank}
        BY <2>1, <2>3, <3>1, <3>2 DEF For, Entry, Stowed
      <4> QED
        BY <1>1, <1>2, <4>1
    <3>3. CASE page'[t] = [entry |-> e, graph |-> job[t].next]
      <4>1. x = Entry(e) /\ g \in {job[t].next, Blank}
        BY <1>1, <2>1, <2>3, <3>1, <3>3 DEF For, Entry, Stowed
      <4> QED
        BY <1>1, <4>1
    <3> QED
      BY <3>2, <3>3 DEF Stowed
  <2> QED
    BY <2>2, <2>3
<1>13. Goal
  BY <1>10, <1>11, <1>12, HeldIsNext DEF Stowed
<1> QED
  BY <1>13

LEMMA StowedKeeps ==
    ASSUME IInv, NEW t \in T, Stowed(t)
    PROVE  IInv'
<1> DEFINE e == EntryOf(t)
<1>1. /\ T' = T /\ saves' = saves /\ rows' = rows /\ product' = product
      /\ job' \in [T -> Job] /\ job'[t] = NoJob /\ \A u \in T \ {t} : job'[u] = job[u]
      /\ saves \in Nat /\ e \in Entries /\ e # 0
  <2>1. NoJob \in Job
    BY BlankFacts, PortalAssumption DEF NoJob, Job
  <2> QED
    BY <2>1, EntryNumbers, PortalAssumption DEF Stowed, T, IInv, Shaped
<1>2. /\ Kept(t) \in Graph
      /\ \/ Kept(t) = job[t].next
         \/ page[t].entry # 0 /\ Kept(t) = cache[t][page[t].entry]
  BY KeptIs DEF Stowed
<1>3. Shaped' /\ OriginOK'
  <2>1. Shaped'
    BY <1>1 DEF Stowed, IInv, Shaped
  <2>2. \A d \in DOMAIN entries' : d \in DOMAIN entries \/ origin[d] = d
    BY DEF Stowed, IInv, OriginOK
  <2> QED
    BY <2>1, <2>2, OriginStays DEF Stowed
<1>4. \A u \in T : PageOK(u)'
  <2>1. PageOK(t)'
    <3>1. Kept(t) # NoGraph
      BY <1>2, NoGraphAssumption
    <3>2. \A d \in Entries : cache[t][d] # NoGraph => cache'[t][d] # NoGraph
      BY <3>1 DEF Stowed
    <3>3. \A d \in Entries : cache'[t][d] # NoGraph => d \in DOMAIN entries'
      BY DEF Stowed, IInv, PageOK
    <3>4. PageOK(t) /\ page[t].entry \in Entries \cup {0}
      BY DEF IInv, Shaped, Page
    <3>5. CASE page'[t] = page[t]
      BY <3>2, <3>3, <3>4, <3>5 DEF PageOK
    <3>6. CASE page'[t] = [entry |-> e, graph |-> job[t].next] /\ cache'[t][e] = Kept(t)
      BY <1>1, <3>1, <3>3, <3>6 DEF PageOK
    <3> QED
      BY <3>5, <3>6 DEF Stowed
  <2>2. ASSUME NEW u \in T \ {t} PROVE PageOK(u)'
    <3>1. PageOK(u) /\ page'[u] = page[u] /\ cache'[u] = cache[u] /\ DOMAIN entries \subseteq DOMAIN entries'
      BY DEF Stowed, IInv
    <3> QED
      BY <3>1 DEF PageOK
  <2> QED
    BY <2>1, <2>2
<1>5. \A u \in T : JobOK(u)'
  <2>1. JobOK(t)'
    BY <1>1 DEF JobOK, NoJob
  <2>2. ASSUME NEW u \in T \ {t} PROVE JobOK(u)'
    <3>1. JobOK(u) /\ page'[u] = page[u] /\ job'[u] = job[u]
      BY <1>1 DEF Stowed, IInv
    <3> QED
      BY <1>1, <3>1 DEF JobOK
  <2> QED
    BY <2>1, <2>2
<1>6. \A u \in T : Sole(u)'
  <2> SUFFICES ASSUME NEW u \in T \ {t}, job[u].step = "persist" PROVE Sole(u)'
    BY <1>1 DEF Sole, NoJob
  <2> DEFINE s == job[u].save
  <2>1. /\ \A d \in DOMAIN entries : entries[d].graph.save # s
        /\ \A v \in T, d \in Entries : cache[v][d] # NoGraph => cache[v][d].save # s
        /\ \A v \in T : page[v].graph.save # s /\ job[v].prior.save # s
        /\ \A v \in T \ {u} : job[v].next.save # s
    BY DEF IInv, Sole
  <2>2. s # 0 /\ job'[u] = job[u]
    BY <1>1 DEF IInv, JobOK
  <2>3. Kept(t).save # s
    BY <1>2, <2>1 DEF IInv, PageOK, Shaped, Page
  <2>4. \A d \in DOMAIN entries' : entries'[d].graph.save # s
    BY <2>1, <2>3 DEF Stowed
  <2>5. \A v \in T, d \in Entries : cache'[v][d] # NoGraph => cache'[v][d].save # s
    BY <2>1, <2>3 DEF Stowed
  <2>6. \A v \in T : page'[v].graph.save # s
    BY <2>1 DEF Stowed
  <2>7. /\ \A v \in T : job'[v].prior.save # s
        /\ \A v \in T \ {u} : job'[v].next.save # s
    BY <1>1, <2>1, <2>2, BlankFacts DEF NoJob
  <2> QED
    BY <1>1, <2>2, <2>4, <2>5, <2>6, <2>7 DEF Sole
<1>7. HeldOK' /\ Apart'
  <2> DEFINE f == [x \in Claimants |-> IF x = Entry(e) THEN For(t)
                                       ELSE IF x = For(t) THEN Entry(e) ELSE x]
  <2>1. For(t) \in Claimants /\ Entry(e) \in Claimants
    BY <1>1, OwnGraphs, EntryClaims
  <2>2. \A x \in Claimants : f[x] \in Claimants
    BY <2>1
  <2>3. \A x, y \in Claimants : f[x] = f[y] => x = y
    BY <2>1
  <2>4. NoRows(Blank, saves')
    BY <1>1, BlankNoRows
  <2>5. ASSUME NEW x \in Claimants, NEW g \in Held(x)'
        PROVE  g \in Held(f[x]) \/ NoRows(g, saves')
    BY <2>4, StowedHeld
  <2> HIDE DEF f
  <2> QED
    BY <1>1, <2>2, <2>3, <2>5, Copied
<1> QED
  BY <1>1, <1>3, <1>4, <1>5, <1>6, <1>7 DEF IInv

LEMMA StoreKeeps ==
    ASSUME IInv, NEW t \in T, Store(t) \/ StoreFails(t)
    PROVE  IInv'
<1>1. CASE Store(t) \/ WriteEntry(t)
  BY <1>1, StowIs, StowedKeeps
<1>2. CASE StoreFails(t) /\ UNCHANGED entries
  <2>1. /\ UNCHANGED <<product, entries, cache, page, rows, saves, origin>>
        /\ job' = [job EXCEPT ![t] = NoJob]
    BY <1>2 DEF StoreFails
  <2>2. NoJob \in Job /\ saves \in 0..MaxSaves /\ saves \in Nat /\ job \in [T -> Job] /\ T' = T
    BY <2>1, BlankFacts, PortalAssumption DEF NoJob, Job, IInv, Shaped, T
  <2>3. job' \in [T -> Job] /\ job'[t] = NoJob /\ \A u \in T \ {t} : job'[u] = job[u]
    BY <2>1, <2>2
  <2>4. Worked(t)
    BY <2>1, <2>2, <2>3, PortalAssumption DEF Worked, IInv, Shaped
  <2>5. JobOK(t)' /\ Sole(t)'
    BY <2>2, <2>3 DEF JobOK, Sole, NoJob
  <2>6. \A u \in T \ {t} : job[u].step = "persist" =>
           job'[t].prior.save # job[u].save /\ job'[t].next.save # job[u].save
    BY <2>3, BlankFacts DEF NoJob, IInv, JobOK
  <2>7. \A g \in {job'[t].prior, job'[t].next} : NoRows(g, saves')
    BY <2>1, <2>2, <2>3, BlankNoRows DEF NoJob
  <2> QED
    BY <2>1, <2>4, <2>5, <2>6, <2>7, CopyJobKeeps
<1> QED
  BY <1>1, <1>2 DEF StoreFails
-----------------------------------------------------------------------------
(* The invariant, and what follows from it.                                *)

LEMMA InitIInv == Init => IInv
<1> SUFFICES ASSUME Init PROVE IInv
  OBVIOUS
<1>1. /\ product \in Pages /\ rows = <<>> /\ entries = <<>> /\ saves = 0
      /\ cache = [t \in T |-> [e \in Entries |-> NoGraph]]
      /\ page = [t \in T |-> NewPage] /\ job = [t \in T |-> NoJob]
      /\ origin = [e \in Entries |-> e]
  BY DEF Init, T
<1>2. NoJob \in Job /\ NewPage \in Page /\ MaxSaves \in Nat
  BY BlankFacts, PortalAssumption DEF NoJob, Job, NewPage, Page
<1>3. DOMAIN rows = {} /\ DOMAIN entries = {} /\ rows \in Seq({}) /\ entries \in Seq(EntryRow)
  BY <1>1
<1>4. Shaped /\ OriginOK
  <2>1. {rows[i] : i \in DOMAIN rows} = {}
    BY <1>3
  <2> QED
    BY <1>1, <1>2, <1>3, <2>1 DEF Shaped, Listed, OriginOK
<1>5. \A t \in T : PageOK(t) /\ JobOK(t) /\ Sole(t)
  BY <1>1 DEF PageOK, JobOK, Sole, NoJob, NewPage
<1>6. ASSUME NEW x, NEW g \in Held(x) PROVE g = Blank
  BY <1>1, <1>3, HeldIs DEF NoJob, NewPage
<1>7. Blank \in Graph /\ Whole(Blank)
  BY <1>1, <1>3, BlankFacts DEF Whole
<1> QED
  BY <1>4, <1>5, <1>6, <1>7, BlankFacts DEF IInv, HeldOK, Apart

LEMMA NextIInv == IInv /\ [Next]_vars => IInv'
<1> SUFFICES ASSUME IInv, [Next]_vars PROVE IInv'
  OBVIOUS
<1>1. CASE UNCHANGED vars
  <2>1. UNCHANGED <<product, entries, cache, page, job, saves, rows, origin>>
    BY <1>1 DEF vars
  <2> QED
    BY <2>1, RowsStay, DeleteRowKeeps
<1>2. ASSUME NEW t \in T,
             Reload(t) \/ New(t) \/ \E e \in Entries : Open(t, e) \/ Delete(t, e)
      PROVE  IInv'
  BY <1>2, MovesAre, MovedKeeps
<1>3. ASSUME NEW t \in T, StartSave(t) PROVE IInv'
  BY <1>3, StartSaveKeeps
<1>4. ASSUME NEW t \in T, Persist(t) PROVE IInv'
  BY <1>4, PersistKeeps
<1>5. ASSUME NEW t \in T, PersistFails(t) PROVE IInv'
  BY <1>5, PersistFailsKeeps
<1>6. ASSUME NEW t \in T, Store(t) \/ StoreFails(t) PROVE IInv'
  BY <1>6, StoreKeeps
<1>7. ASSUME NEW i \in Ids, DeleteRow(i) PROVE IInv'
  <2>1. UNCHANGED <<product, entries, cache, page, job, saves, origin>> /\ RowsAlone
    BY <1>7, RowDies DEF DeleteRow
  <2> QED
    BY <2>1, DeleteRowKeeps
<1>8. ASSUME NEW t \in T, NEW e \in Entries, Duplicate(t, e) PROVE IInv'
  BY <1>8, DuplicateKeeps
<1> QED
  BY <1>1, <1>2, <1>3, <1>4, <1>5, <1>6, <1>7, <1>8 DEF Next, T

LEMMA Invariance == Spec => []IInv
BY InitIInv, NextIInv, PTL DEF Spec

LEMMA IInvDisjoint == IInv => GraphsDisjoint
<1> SUFFICES ASSUME IInv, NEW e \in DOMAIN entries, NEW f \in DOMAIN entries,
                    origin[e] # origin[f]
             PROVE  RowsOf(entries[e].graph) \cap RowsOf(entries[f].graph) = {}
  BY DEF GraphsDisjoint
<1>1. Entry(e) \in Claimants /\ Entry(f) \in Claimants /\ Entry(e) # Entry(f)
  BY EntryClaims DEF Entry, Root
<1>2. entries[e].graph \in Held(Entry(e)) /\ entries[f].graph \in Held(Entry(f))
  BY HeldIs
<1> QED
  BY <1>1, <1>2 DEF IInv, Apart

LEMMA IInvWhole == IInv => NothingForgotten
<1> SUFFICES ASSUME IInv, NEW e \in DOMAIN entries
             PROVE  {i \in DOMAIN rows : rows[i].edit = entries[e].graph.save}
                       \subseteq RowsOf(entries[e].graph)
  BY DEF NothingForgotten
<1>1. Entry(e) \in Claimants
  BY EntryClaims
<1>2. entries[e].graph \in Held(Entry(e))
  BY HeldIs
<1> QED
  BY <1>1, <1>2 DEF IInv, HeldOK, Whole

\* Whatever saves, failures, lost acknowledgements, stale caches, duplicates and
\* deletions the tabs run into, two trades the server has name one row in their
\* graphs only if they are copies of one trade: the persist*Graph functions and
\* wrappedStore.save never hand a row to an entry of another.
THEOREM TradesShareNoRow == Spec => []GraphsDisjoint
BY Invariance, IInvDisjoint, PTL

\* The graph a wrapper is stamped with names every row that the save it stands for
\* was the last to write.
THEOREM StampsAreWhole == Spec => []NothingForgotten
BY Invariance, IInvWhole, PTL
-----------------------------------------------------------------------------
(* Pricing by reference, from the rows a save wrote.                       *)

Ran(s) == {s[k] : k \in DOMAIN s}

LEMMA RanJoined ==
    ASSUME NEW R, NEW s \in Seq(R), NEW u \in Seq(R)
    PROVE  Ran(s \o u) = Ran(s) \cup Ran(u)
<1>1. /\ Len(s) \in Nat /\ Len(u) \in Nat /\ DOMAIN s = 1..Len(s) /\ DOMAIN u = 1..Len(u)
      /\ DOMAIN (s \o u) = 1..(Len(s) + Len(u))
      /\ \A i \in 1..(Len(s) + Len(u)) : (s \o u)[i] = IF i <= Len(s) THEN s[i] ELSE u[i - Len(s)]
  BY ConcatProperties, LenProperties
<1> DEFINE w == s \o u
<1>2. ASSUME NEW i \in DOMAIN w PROVE w[i] \in Ran(s) \cup Ran(u)
  <2>1. CASE i <= Len(s)
    BY <1>1, <2>1 DEF Ran
  <2>2. CASE ~(i <= Len(s))
    <3>1. i - Len(s) \in DOMAIN u /\ w[i] = u[i - Len(s)]
      BY <1>1, <2>2
    <3> QED
      BY <3>1 DEF Ran
  <2> QED
    BY <2>1, <2>2
<1>3. ASSUME NEW i \in DOMAIN s PROVE s[i] \in Ran(w)
  <2>1. i \in DOMAIN w /\ w[i] = s[i]
    BY <1>1
  <2> QED
    BY <2>1 DEF Ran
<1>4. ASSUME NEW i \in DOMAIN u PROVE u[i] \in Ran(w)
  <2>1. i + Len(s) \in DOMAIN w /\ w[i + Len(s)] = u[i]
    BY <1>1
  <2> QED
    BY <2>1 DEF Ran
<1> HIDE DEF w
<1>5. Ran(w) = Ran(s) \cup Ran(u)
  BY <1>2, <1>3, <1>4 DEF Ran
<1> QED
  BY <1>5 DEF w

LEMMA RanShort ==
    /\ Ran(<<>>) = {}
    /\ \A x : Ran(<<x>>) = {x}
    /\ \A x, y : Ran(<<x, y>>) = {x, y}
    /\ \A x, y, z : Ran(<<x, y, z>>) = {x, y, z}
BY DEF Ran

LEMMA Glued ==
    ASSUME NEW R, NEW x \in R, NEW y \in R
    PROVE  /\ <<x>> \o <<>> = <<x>> /\ <<x>> \o <<y>> \o <<>> = <<x, y>>
           /\ <<x>> \o <<y>> \o <<>> \o <<>> = <<x, y>>
           /\ <<x>> \in Seq(R) /\ <<x, y>> \in Seq(R)
<1>1. <<x>> \in Seq(R) /\ <<x, y>> \in Seq(R)
  OBVIOUS
<1>2. <<x>> \o <<y>> = <<x, y>>
  <2> DEFINE s == <<x>>
             u == <<y>>
             w == s \o u
  <2>1. s \in Seq(R) /\ u \in Seq(R) /\ Len(s) = 1 /\ Len(u) = 1 /\ s[1] = x /\ u[1] = y
    OBVIOUS
  <2> HIDE DEF s, u
  <2>2. /\ w \in Seq(R) /\ Len(w) = Len(s) + Len(u)
        /\ \A i \in 1..(Len(s) + Len(u)) : w[i] = IF i <= Len(s) THEN s[i] ELSE u[i - Len(s)]
    BY <2>1, ConcatProperties
  <2> HIDE DEF w
  <2>3. Len(w) = 2 /\ w[1] = x /\ w[2] = y
    BY <2>1, <2>2
  <2>4. w = <<x, y>>
    <3> DEFINE v == <<x, y>>
    <3>1. v \in Seq(R) /\ Len(v) = 2 /\ v[1] = x /\ v[2] = y
      BY <1>1
    <3> HIDE DEF v
    <3>2. Len(w) = Len(v) /\ \A i \in 1..Len(w) : w[i] = v[i]
      BY <2>3, <3>1
    <3>3. w = v
      BY <2>2, <3>1, <3>2, SeqEqual
    <3> QED
      BY <3>3 DEF v
  <2> QED
    BY <2>4 DEF w, s, u
<1>3. <<x>> \o <<>> = <<x>> /\ <<x, y>> \o <<>> = <<x, y>>
  BY <1>1, ConcatEmptySeq
<1> QED
  BY <1>1, <1>2, <1>3

\* Pick on the few places that occur here.
LEMMA PickNone ==
    ASSUME NEW R, NEW s \in Seq(R), NEW k \in Nat \ {0}
    PROVE  Pick(s, {}, k) = NoId
<1>1. Len(Picked(s, {})) = Cardinality({}) /\ Cardinality({}) = 0
  BY PickedType, FS_EmptySet
<1> QED
  BY <1>1 DEF Pick

LEMMA PickOne ==
    ASSUME NEW R, NEW s \in Seq(R), NEW i \in 1..Len(s), NEW I, I = {i}
    PROVE  Cardinality(I) = 1 /\ Pick(s, I, 1) = s[i].id
<1> DEFINE w == Picked(s, I)
<1>1. I \in SUBSET (1..Len(s))
  OBVIOUS
<1>2. Cardinality(I) = 1
  BY FS_Singleton
<1>3. Len(w) = 1 /\ \A n \in 1..Len(w) : \E m \in I : w[n] = s[m]
  BY <1>1, <1>2, PickedType, PickedElements
<1> HIDE DEF w
<1>4. w[1] = s[i]
  <2>1. \E m \in I : w[1] = s[m]
    BY <1>3
  <2> QED
    BY <2>1
<1> QED
  BY <1>2, <1>4 DEF Pick, w

LEMMA NthOf ==
    ASSUME NEW R, NEW s \in Seq(R), Len(s) <= 2
    PROVE  /\ Nth(s, 1) = IF Len(s) < 1 THEN NoId ELSE s[1].id
           /\ Nth(s, 2) = IF Len(s) < 2 THEN NoId ELSE s[2].id
<1> DEFINE l == Len(s)
           I == 1..l
           w == Picked(s, I)
<1>1. DOMAIN s = I /\ l \in Nat /\ I \in SUBSET (1..Len(s))
  OBVIOUS
<1>2. Cardinality(I) = l
  <2>1. \A n \in Nat : Cardinality(1..n) = n
    BY FS_Interval
  <2> QED
    BY <1>1, <2>1
<1> HIDE DEF I
<1>3. /\ Len(w) = l
      /\ \A n \in 1..Len(w) : \E i \in I : w[n] = s[i]
      /\ \A m, n \in 1..Len(w) : m < n => \E i, j \in I : i < j /\ w[m] = s[i] /\ w[n] = s[j]
  <2>1. Len(w) = l
    BY <1>1, <1>2, PickedType
  <2>2. /\ \A n \in 1..Len(w) : \E i \in I : w[n] = s[i]
        /\ \A m, n \in 1..Len(w) : m < n => \E i, j \in I : i < j /\ w[m] = s[i] /\ w[n] = s[j]
    BY <1>1, PickedElements
  <2> QED
    BY <2>1, <2>2
<1>4. \A k : Nth(s, k) = IF l < k THEN NoId ELSE w[k].id
  BY <1>1, <1>2 DEF Nth, Pick
<1> HIDE DEF w
<1>5. CASE l = 0
  BY <1>4, <1>5
<1>6. CASE l = 1
  <2>1. w[1] = s[1]
    BY <1>3, <1>6 DEF I
  <2> QED
    BY <1>4, <1>6, <2>1
<1>7. CASE l = 2
  <2>1. 1 \in 1..Len(w) /\ 2 \in 1..Len(w)
    BY <1>3, <1>7
  <2>2. PICK i \in I, j \in I : i < j /\ w[1] = s[i] /\ w[2] = s[j]
    BY <1>3, <2>1
  <2>3. i = 1 /\ j = 2
    BY <1>7, <2>2 DEF I
  <2> QED
    BY <1>4, <1>7, <2>2, <2>3
<1> QED
  BY <1>1, <1>5, <1>6, <1>7

\* What the assembler reads, inline definitions aside, is the curves it chose and
\* what else the product needs.
LEMMA ReadsAre ==
    ASSUME NEW q, q.product # "fx_forward", NEW b, NEW m, NEW R,
           CurveReads(q, b, m) \in Seq(R), OtherReads(q, b) \in Seq(R)
    PROVE  Ran(Reads(q, b, m)) = (Ran(CurveReads(q, b, m)) \cup Ran(OtherReads(q, b))) \ {Literal}
<1> DEFINE c == CurveReads(q, b, m)
           o == OtherReads(q, b)
           plan == c \o o
           I == {k \in DOMAIN plan : plan[k] # Literal}
<1>1. plan \in Seq(R) /\ Ran(plan) = Ran(c) \cup Ran(o)
  BY RanJoined
<1>2. Reads(q, b, m) = Picked(plan, I)
  BY DEF Reads
<1> HIDE DEF plan
<1>3. I \in SUBSET (1..Len(plan)) /\ Ran(plan) \ {Literal} = {plan[k] : k \in I}
  BY <1>1 DEF Ran
<1> DEFINE w == Picked(plan, I)
<1> HIDE DEF I
<1>4. /\ w \in Seq(R) /\ \A n \in 1..Len(w) : \E i \in I : w[n] = plan[i]
      /\ \A i \in I : \E n \in 1..Len(w) : w[n] = plan[i]
  BY <1>1, <1>3, PickedType, PickedElements
<1> HIDE DEF w
<1>5. DOMAIN w = 1..Len(w)
  BY <1>4
<1>6. Ran(w) = {plan[k] : k \in I}
  <2>1. \A k \in I : plan[k] \in Ran(w)
    BY <1>4, <1>5 DEF Ran
  <2>2. \A n \in DOMAIN w : w[n] \in {plan[k] : k \in I}
    BY <1>4, <1>5
  <2> QED
    BY <2>1, <2>2 DEF Ran
<1> QED
  BY <1>1, <1>2, <1>3, <1>6 DEF w

\* A graph that names a row for each request of a save of these curves, and no other.
Full(g, keys) ==
    LET req == Requests(product, keys)
    IN  \A p \in Parts : g.ids[p] # NoId <=> \E n \in DOMAIN req : req[n] = p

\* The places of a save's requests: curves first, the trade last.
LEMMA RequestsAre ==
    ASSUME product \in Pages, NEW keys \in CurveKeys(product), NEW r, r = Requests(product, keys)
    PROVE  /\ keys \in Seq(Keys) /\ Len(keys) \in 1..2 /\ r \in Seq(Parts) /\ InOrder(r)
           /\ Leaves(product) \in Seq(Parts \ (Keys \cup {"trade"}))
           /\ Len(r) > Len(keys) /\ \A k \in 1..Len(keys) : r[k] = keys[k]
           /\ \A n \in 1..Len(r) : r[n] \in Keys => n <= Len(keys)
           /\ Ran(r) = Ran(keys) \cup Ran(Leaves(product)) \cup {"trade"}
<1> DEFINE L == Leaves(product)
           D == Parts \ (Keys \cup {"trade"})
<1>1. product \in {"swap_ir", "swaption", "bond_fixed", "bond_floating", "cds",
                   "equity_option", "swap_inflation"}
  BY PortalAssumption DEF Products
<1>2. keys \in Seq(Keys) /\ r \in Seq(Parts) /\ InOrder(r)
  BY RequestsOnce
<1>3. Len(keys) \in 1..2
  BY <1>1 DEF CurveKeys
<1>4. L \in Seq(D)
  <2>1. {"set", "credit", "vol", "model", "index"} \subseteq D
    BY DEF Parts, Keys
  <2> HIDE DEF D
  <2>2. L \in {<<"set">>, <<"set", "index">>, <<"set", "vol", "model">>, <<"set", "credit">>,
               <<"vol">>, <<"index">>}
    BY <1>1 DEF Leaves
  <2> HIDE DEF L
  <2>3. <<"set">> \in Seq(D) /\ <<"vol">> \in Seq(D) /\ <<"index">> \in Seq(D)
    BY <2>1
  <2>4. <<"set", "index">> \in Seq(D) /\ <<"set", "credit">> \in Seq(D)
    BY <2>1
  <2>5. <<"set", "vol", "model">> \in Seq(D)
    BY <2>1
  <2> QED
    BY <2>2, <2>3, <2>4, <2>5
<1>5. /\ Keys \subseteq Parts /\ D \subseteq Parts /\ "trade" \in Parts \ Keys
      /\ D \cap Keys = {}
  BY DEF Parts, Keys
<1> DEFINE u == L \o <<"trade">>
<1>6. r = keys \o u
  <2>1. keys \in Seq(Parts) /\ L \in Seq(Parts) /\ <<"trade">> \in Seq(Parts)
    BY <1>2, <1>4, <1>5
  <2>2. Requests(product, keys) = (keys \o L) \o <<"trade">>
    BY DEF Requests
  <2> HIDE DEF L
  <2>3. (keys \o L) \o <<"trade">> = keys \o (L \o <<"trade">>)
    BY <2>1, ConcatAssociative
  <2> QED
    BY <2>2, <2>3
<1>7. /\ u \in Seq(D \cup {"trade"}) /\ Len(u) > 0 /\ Ran(u) = Ran(L) \cup {"trade"}
  <2> HIDE DEF D, L
  <2>1. L \in Seq(D \cup {"trade"}) /\ <<"trade">> \in Seq(D \cup {"trade"})
    BY <1>4
  <2>2. Ran(L \o <<"trade">>) = Ran(L) \cup {"trade"}
    <3> DEFINE v == <<"trade">>
    <3>1. L \in Seq(D \cup {"trade"}) /\ v \in Seq(D \cup {"trade"}) /\ Ran(v) = {"trade"}
      BY <2>1, RanShort
    <3> HIDE DEF v
    <3>2. Ran(L \o v) = Ran(L) \cup Ran(v)
      BY <3>1, RanJoined
    <3> QED
      BY <3>1, <3>2 DEF v
  <2>3. u \in Seq(D \cup {"trade"}) /\ Len(u) = Len(L) + Len(<<"trade">>) /\ Len(L) \in Nat
    BY <2>1, ConcatProperties, LenProperties
  <2> QED
    BY <2>2, <2>3
<1> HIDE DEF u, L, D
<1>8. u \in Seq(Parts) /\ keys \in Seq(Parts)
  BY <1>2, <1>5, <1>7
<1>9. /\ Len(keys) \in Nat /\ Len(u) \in Nat /\ Len(r) = Len(keys) + Len(u)
      /\ \A i \in 1..Len(r) : r[i] = IF i <= Len(keys) THEN keys[i] ELSE u[i - Len(keys)]
  BY <1>6, <1>8, ConcatProperties, LenProperties
<1>10. \A n \in 1..Len(r) : r[n] \in Keys => n <= Len(keys)
  <2>1. \A n \in 1..Len(u) : u[n] \notin Keys
    BY <1>5, <1>7
  <2> QED
    BY <1>9, <2>1
<1>11. Ran(r) = Ran(keys) \cup Ran(L) \cup {"trade"}
  BY <1>6, <1>7, <1>8, RanJoined
<1> QED
  BY <1>2, <1>3, <1>4, <1>7, <1>9, <1>10, <1>11 DEF L, D

LEMMA FullParts ==
    ASSUME product \in Pages, NEW keys \in CurveKeys(product), NEW g, Full(g, keys)
    PROVE  \A p \in Parts :
              g.ids[p] # NoId <=> p \in Ran(keys) \cup Ran(Leaves(product)) \cup {"trade"}
<1> DEFINE r == Requests(product, keys)
<1>1. Ran(r) = Ran(keys) \cup Ran(Leaves(product)) \cup {"trade"}
  BY RequestsAre
<1>2. \A p \in Parts : g.ids[p] # NoId <=> \E n \in DOMAIN r : r[n] = p
  BY DEF Full
<1> HIDE DEF r
<1> QED
  BY <1>1, <1>2 DEF Ran

\* The entries of a saved list, in the order of its curves.
LEMMA RefsAre ==
    ASSUME product \in Pages, NEW keys \in CurveKeys(product), NEW g \in Graph,
           \A k \in 1..Len(keys) : g.ids[keys[k]] # NoId, NEW r, r = Refs(keys, g)
    PROVE  /\ r \in Seq(SetRef) /\ r \in Seq(CurveRef) /\ Len(r) = Len(keys)
           /\ \A k \in 1..Len(keys) : r[k].id = g.ids[keys[k]] /\ r[k].role = keys[k]
<1>1. keys \in Seq(Keys) /\ Len(keys) \in Nat /\ DOMAIN keys = 1..Len(keys)
  BY RequestsAre
<1>2. SetRef \subseteq CurveRef
  BY DEF SetRef, CurveRef, Given, Keys, Roles
<1>3. \A k \in 1..Len(keys) : keys[k] \in Keys /\ g.ids[keys[k]] \in Ids
  BY <1>1 DEF Graph, Parts
<1>4. r = [k \in 1..Len(keys) |-> [id |-> g.ids[keys[k]], role |-> keys[k]]]
  BY <1>1 DEF Refs
<1>5. \A k \in 1..Len(keys) : /\ r[k] = [id |-> g.ids[keys[k]], role |-> keys[k]]
                              /\ r[k] \in SetRef
  BY <1>3, <1>4 DEF SetRef
<1>6. r \in Seq(SetRef) /\ Len(r) = Len(keys)
  <2>1. r = [k \in 1..Len(keys) |-> r[k]]
    BY <1>4
  <2>2. \A k \in 1..Len(keys) : r[k] \in SetRef
    BY <1>5
  <2> HIDE DEF SetRef
  <2> QED
    BY <1>1, <2>1, <2>2
<1> HIDE DEF SetRef
<1>7. r \in Seq(CurveRef)
  <2>1. r = [k \in 1..Len(keys) |-> r[k]]
    BY <1>4
  <2>2. \A k \in 1..Len(keys) : r[k] \in CurveRef
    BY <1>2, <1>5
  <2> HIDE DEF CurveRef
  <2> QED
    BY <1>1, <2>1, <2>2
<1>8. \A k \in 1..Len(keys) : r[k].id = g.ids[keys[k]] /\ r[k].role = keys[k]
  BY <1>4
<1> HIDE DEF CurveRef
<1> QED
  BY <1>6, <1>7, <1>8

LEMMA PinsAre ==
    ASSUME NEW keys, NEW g, NEW b, b = Pins(keys, g)
    PROVE  LET listed == product \in {"equity_option", "swap_inflation"}
               pinned == product \in {"bond_fixed", "bond_floating", "cds"}
           IN  b = [present |-> TRUE, same |-> FALSE, set |-> g.ids["set"],
                    discount |-> IF pinned THEN g.ids["discount"] ELSE NoId,
                    forecast |-> IF product = "bond_floating"
                                 THEN Or(g.ids["projection"], g.ids["discount"]) ELSE NoId,
                    curves |-> IF listed THEN Refs(keys, g) ELSE <<>>,
                    credit |-> g.ids["credit"], vol |-> g.ids["vol"], model |-> g.ids["model"],
                    index |-> g.ids["index"],
                    spot |-> IF product = "equity_option" THEN Literal ELSE NoId]
BY DEF Pins, NoBlock

\* A trade of g's rows prices with the curves the page means, reading them and what
\* else g names, its set and itself aside.
Fits(g, keys) ==
    LET b == Pins(keys, g)
        set == IF NeedsSet(ByReference, b) THEN Refs(keys, g) ELSE <<>>
    IN  /\ Curves(ByReference, b, set) = Meant(g)
        /\ Ran(Reads(ByReference, b, set)) = {g.ids[p] : p \in Parts \ {"set", "trade"}} \ {NoId}

\* The ids of a graph that has these parts and no others.
LEMMA IdsOfParts ==
    ASSUME NEW g \in Graph, NEW P, P \subseteq Parts \ {"set", "trade"},
           \A p \in Parts \ {"set", "trade"} : g.ids[p] # NoId <=> p \in P
    PROVE  {g.ids[p] : p \in Parts \ {"set", "trade"}} \ {NoId} = {g.ids[p] : p \in P} \ {Literal}
<1>1. \A p \in Parts : g.ids[p] \in Ids \cup {NoId}
  BY DEF Graph
<1> QED
  BY <1>1, ReferenceAssumption

LEMMA AskFacts ==
    ASSUME NEW q, q = ByReference
    PROVE  /\ q.product = product /\ q.curves = <<>> /\ q.credit = NoId /\ q.vol = NoId
           /\ q.model = NoId /\ q.index = NoId /\ q.spot = NoId /\ q.snap = NoId
BY DEF ByReference

\* A list read whole, both of whose curves are there.
LEMMA ListRead ==
    ASSUME NEW q, NEW b, NEW m, NEW list \in Seq(CurveRef), list = CurveList(q, b, m),
           q.product \in {"swap_ir", "swaption", "equity_option", "swap_inflation"},
           ~Incomplete(Curves(q, b, m))
    PROVE  /\ CurveReads(q, b, m) \in Seq(Reference)
           /\ Ran(CurveReads(q, b, m)) = {list[k].id : k \in 1..Len(list)}
<1>1. CurveReads(q, b, m) = IdsOf(list) \o <<>>
  BY DEF CurveReads
<1> DEFINE i == IdsOf(list)
<1>2. i = [k \in 1..Len(list) |-> list[k].id] /\ Len(list) \in Nat
  BY DEF IdsOf
<1>3. \A k \in 1..Len(list) : list[k].id \in Reference
  <2>1. \A k \in 1..Len(list) : list[k] \in CurveRef
    OBVIOUS
  <2> QED
    BY <2>1 DEF CurveRef, Reference
<1> HIDE DEF i
<1>4. i \in Seq(Reference) /\ Ran(i) = {list[k].id : k \in 1..Len(list)}
  BY <1>2, <1>3 DEF Ran
<1>5. i \o <<>> = i
  BY <1>4, ConcatEmptySeq
<1> QED
  BY <1>1, <1>4, <1>5 DEF i

LEMMA SwapFits ==
    ASSUME product \in Pages, product \in {"swap_ir", "swaption"},
           NEW keys \in CurveKeys(product), NEW g \in Graph, Full(g, keys)
    PROVE  Fits(g, keys)
<1> DEFINE q == ByReference
           b == Pins(keys, g)
           r == Refs(keys, g)
<1>1. /\ q.product = product /\ q.curves = <<>> /\ q.vol = NoId
      /\ q.model = NoId /\ q.index = NoId /\ q.snap = NoId
  BY AskFacts
<1>2. b.set = g.ids["set"] /\ b.vol = g.ids["vol"] /\ b.model = g.ids["model"]
  BY PinsAre
<1>3. keys = <<"discount">> \/ keys = <<"discount", "forward">>
  BY DEF CurveKeys
<1>4. \A p \in Parts : g.ids[p] # NoId <=> p \in Ran(keys) \cup Ran(Leaves(product)) \cup {"trade"}
  BY FullParts
<1>5. \A k \in 1..Len(keys) : g.ids[keys[k]] # NoId
  BY <1>3, <1>4 DEF Ran, Parts, Keys
<1>6. /\ r \in Seq(CurveRef) /\ Len(r) = Len(keys)
      /\ \A k \in 1..Len(keys) : r[k].id = g.ids[keys[k]]
  BY <1>5, RefsAre
<1>7. "set" \in Ran(Leaves(product))
  BY RanShort DEF Leaves
<1>8. NeedsSet(q, b)
  BY <1>1, <1>2, <1>4, <1>7 DEF NeedsSet, Parts
<1> HIDE DEF b, q, r
<1>9. CurveList(q, b, r) = r
  BY <1>1, <1>8 DEF CurveList
<1>10. Len(r) \in 1..2 /\ r[1].id = g.ids["discount"]
       /\ Or(Nth(r, 2), Nth(r, 1)) = Or(g.ids["forward"], g.ids["discount"])
       /\ Nth(r, 1) = g.ids["discount"]
  <2>1. /\ Nth(r, 1) = IF Len(r) < 1 THEN NoId ELSE r[1].id
        /\ Nth(r, 2) = IF Len(r) < 2 THEN NoId ELSE r[2].id
    BY <1>3, <1>6, NthOf
  <2>2. CASE keys = <<"discount">>
    <3>1. "forward" \notin Ran(keys) \cup Ran(Leaves(product)) \cup {"trade"}
      BY <2>2, RanShort DEF Leaves
    <3>2. g.ids["forward"] = NoId
      BY <1>4, <3>1 DEF Parts, Keys
    <3> QED
      BY <1>6, <2>1, <2>2, <3>2 DEF Or
  <2>3. CASE keys = <<"discount", "forward">>
    BY <1>6, <2>1, <2>3 DEF Or
  <2> QED
    BY <1>3, <2>2, <2>3
<1>11. Curves(q, b, r) = Meant(g)
  BY <1>1, <1>9, <1>10 DEF Curves, Meant, ByPlace
<1>12. g.ids["discount"] # NoId
  BY <1>3, <1>5
<1>13. ~Incomplete(Curves(q, b, r))
  BY <1>11, <1>12 DEF Incomplete, Meant, Or
<1>14. CurveReads(q, b, r) \in Seq(Reference)
       /\ Ran(CurveReads(q, b, r)) = {g.ids[p] : p \in Ran(keys)}
  <2>1. /\ CurveReads(q, b, r) \in Seq(Reference)
        /\ Ran(CurveReads(q, b, r)) = {r[k].id : k \in 1..Len(r)}
    BY <1>1, <1>6, <1>9, <1>13, ListRead
  <2>2. DOMAIN keys = 1..Len(keys)
    BY <1>3
  <2>3. {r[k].id : k \in 1..Len(r)} = {g.ids[p] : p \in Ran(keys)}
    BY <1>6, <2>2 DEF Ran
  <2> QED
    BY <2>1, <2>3
<1> DEFINE O == IF product = "swaption" THEN {"vol", "model"} ELSE {}
<1>15. OtherReads(q, b) \in Seq(Reference) /\ Ran(OtherReads(q, b)) = {g.ids[p] : p \in O}
  <2>1. CASE product = "swap_ir"
    <3>1. OtherReads(q, b) = <<>>
      BY <1>1, <2>1 DEF OtherReads, May
    <3> QED
      BY <2>1, <3>1, RanShort
  <2>2. CASE product = "swaption"
    <3>1. g.ids["vol"] # NoId /\ g.ids["model"] # NoId
      BY <1>4, <2>2, RanShort DEF Leaves, Parts
    <3> DEFINE v == g.ids["vol"]
               d == g.ids["model"]
    <3>2. OtherReads(q, b) = <<v>> \o <<d>> \o <<>> \o <<>>
      BY <1>1, <1>2, <2>2, <3>1 DEF OtherReads, May, Need, SurfaceReads, ModelReads, Or
    <3>3. v \in Reference /\ d \in Reference
      BY DEF Graph, Parts, Reference, Given
    <3>4. {g.ids[p] : p \in O} = {v, d}
      BY <2>2
    <3> HIDE DEF v, d
    <3>5. <<v>> \o <<d>> \o <<>> \o <<>> = <<v, d>> /\ <<v, d>> \in Seq(Reference)
      BY <3>3, Glued
    <3>6. OtherReads(q, b) = <<v, d>> /\ Ran(<<v, d>>) = {v, d}
      BY <3>2, <3>5, RanShort
    <3> HIDE DEF O
    <3> QED
      BY <3>4, <3>5, <3>6
  <2> QED
    BY <2>1, <2>2
<1>16. Ran(Reads(q, b, r)) = ({g.ids[p] : p \in Ran(keys)} \cup {g.ids[p] : p \in O}) \ {Literal}
  BY <1>1, <1>14, <1>15, ReadsAre
<1>17. Ran(Reads(q, b, r)) = {g.ids[p] : p \in Parts \ {"set", "trade"}} \ {NoId}
  <2> DEFINE P == Ran(keys) \cup O
  <2>1. P \subseteq Parts \ {"set", "trade"}
    BY <1>3, RanShort DEF Parts, Keys
  <2>2. \A p \in Parts \ {"set", "trade"} : p \in Ran(Leaves(product)) <=> p \in O
    BY RanShort DEF Leaves
  <2> HIDE DEF O
  <2>3. \A p \in Parts \ {"set", "trade"} : g.ids[p] # NoId <=> p \in P
    BY <1>4, <2>2
  <2>4. {g.ids[p] : p \in Ran(keys)} \cup {g.ids[p] : p \in O} = {g.ids[p] : p \in P}
    OBVIOUS
  <2> HIDE DEF P
  <2> QED
    BY <1>16, <2>1, <2>3, <2>4, IdsOfParts
<1> QED
  BY <1>8, <1>11, <1>17 DEF Fits, q, b, r

\* Nothing can be placed from an empty list.
LEMMA EmptyList ==
    ASSUME NEW e, e = <<>>
    PROVE  /\ Nth(e, 1) = NoId
           /\ \A same \in BOOLEAN : Split(e, same) = <<NoId, NoId>>
<1>1. /\ e \in Seq(CurveRef) /\ Len(e) = 0 /\ DOMAIN e = {}
      /\ Len(e) <= 2 /\ Len(e) < 1 /\ 1 \in Nat \ {0}
  OBVIOUS
<1>2. Nth(e, 1) = IF Len(e) < 1 THEN NoId ELSE e[1].id
  BY <1>1, NthOf
<1>3. Unroled(e) = {} /\ \A r : {i \in DOMAIN e : e[i].role = r} = {}
  BY <1>1 DEF Unroled
<1>4. Pick(e, {}, 1) = NoId
  BY <1>1, PickNone
<1>5. ASSUME NEW same \in BOOLEAN PROVE Split(e, same) = <<NoId, NoId>>
  BY <1>3, <1>4 DEF Split, Dealt
<1> QED
  BY <1>1, <1>2, <1>5

LEMMA PinnedFits ==
    ASSUME product \in Pages, product \in {"bond_fixed", "cds"},
           NEW keys \in CurveKeys(product), NEW g \in Graph, Full(g, keys)
    PROVE  Fits(g, keys)
<1> DEFINE q == ByReference
           b == Pins(keys, g)
           O == IF product = "cds" THEN {"credit"} ELSE {}
<1>1. /\ q.product = product /\ q.curves = <<>> /\ q.credit = NoId /\ q.snap = NoId
  BY AskFacts
<1>2. /\ b.set = g.ids["set"] /\ b.discount = g.ids["discount"] /\ b.credit = g.ids["credit"]
      /\ b.curves = <<>>
  BY PinsAre
<1>3. keys = <<"discount">> /\ Ran(keys) = {"discount"}
  BY RanShort DEF CurveKeys
<1>4. \A p \in Parts : g.ids[p] # NoId <=> p \in Ran(keys) \cup Ran(Leaves(product)) \cup {"trade"}
  BY FullParts
<1>5. Ran(Leaves(product)) = {"set"} \cup O
  BY RanShort DEF Leaves
<1>6. \A p \in Parts \ {"set", "trade"} : g.ids[p] # NoId <=> p \in {"discount"} \cup O
  BY <1>3, <1>4, <1>5
<1>7. g.ids["discount"] # NoId
  BY <1>6 DEF Parts, Keys
<1> HIDE DEF b, q
<1>8. ~NeedsSet(q, b)
  BY <1>1, <1>2, <1>7 DEF NeedsSet
<1>9. CurveList(q, b, <<>>) = <<>>
  BY <1>1, <1>2, <1>8 DEF CurveList
<1>10. Curves(q, b, <<>>) = <<g.ids["discount"], g.ids["discount"]>>
  BY <1>1, <1>2, <1>7, <1>9 DEF Curves, OneCurve, Or
<1>11. Curves(q, b, <<>>) = Meant(g)
  BY <1>10 DEF Meant
<1>12. CurveReads(q, b, <<>>) = <<g.ids["discount"]>>
  BY <1>1, <1>10 DEF CurveReads
<1>13. OtherReads(q, b) \in Seq(Reference) /\ Ran(OtherReads(q, b)) = {g.ids[p] : p \in O}
  <2>1. CASE product = "bond_fixed"
    <3>1. OtherReads(q, b) = <<>>
      BY <1>1, <2>1 DEF OtherReads, May
    <3> QED
      BY <2>1, <3>1, RanShort
  <2>2. CASE product = "cds"
    <3>1. g.ids["credit"] # NoId
      BY <1>6, <2>2 DEF Parts
    <3>2. OtherReads(q, b) = <<g.ids["credit"]>> \o <<>>
      BY <1>1, <1>2, <2>2, <3>1 DEF OtherReads, May, Need, CreditReads, Or
    <3>3. <<g.ids["credit"]>> \o <<>> = <<g.ids["credit"]>>
      OBVIOUS
    <3>4. g.ids["credit"] \in Reference
      BY DEF Graph, Parts, Reference, Given
    <3>5. O = {"credit"}
      BY <2>2
    <3> QED
      BY <3>2, <3>3, <3>4, <3>5, RanShort
  <2> QED
    BY <2>1, <2>2
<1>14. g.ids["discount"] \in Reference
  BY DEF Graph, Parts, Keys, Reference, Given
<1>15. Ran(Reads(q, b, <<>>)) = ({g.ids["discount"]} \cup {g.ids[p] : p \in O}) \ {Literal}
  <2>1. <<g.ids["discount"]>> \in Seq(Reference) /\ Ran(<<g.ids["discount"]>>) = {g.ids["discount"]}
    BY <1>14, RanShort
  <2>2. q.product # "fx_forward" /\ CurveReads(q, b, <<>>) \in Seq(Reference)
    BY <1>1, <1>12, <2>1
  <2>3. Ran(Reads(q, b, <<>>)) =
          (Ran(CurveReads(q, b, <<>>)) \cup Ran(OtherReads(q, b))) \ {Literal}
    BY <1>13, <2>2, ReadsAre
  <2> QED
    BY <1>12, <1>13, <2>1, <2>3
<1>16. Ran(Reads(q, b, <<>>)) = {g.ids[p] : p \in Parts \ {"set", "trade"}} \ {NoId}
  <2> DEFINE P == {"discount"} \cup O
  <2>1. P \subseteq Parts \ {"set", "trade"}
    BY DEF Parts, Keys
  <2> HIDE DEF O
  <2>2. {g.ids["discount"]} \cup {g.ids[p] : p \in O} = {g.ids[p] : p \in P}
    OBVIOUS
  <2>3. \A p \in Parts \ {"set", "trade"} : g.ids[p] # NoId <=> p \in P
    BY <1>6
  <2> HIDE DEF P
  <2> QED
    BY <1>15, <2>1, <2>2, <2>3, IdsOfParts
<1> QED
  BY <1>8, <1>11, <1>16 DEF Fits, q, b

LEMMA FloatingFits ==
    ASSUME product \in Pages, product = "bond_floating",
           NEW keys \in CurveKeys(product), NEW g \in Graph, Full(g, keys)
    PROVE  Fits(g, keys)
<1> DEFINE q == ByReference
           b == Pins(keys, g)
           d == g.ids["discount"]
           f == g.ids["projection"]
           i == g.ids["index"]
<1>1. q.product = product /\ q.curves = <<>> /\ q.index = NoId /\ q.snap = NoId
  BY AskFacts
<1>2. /\ b.set = g.ids["set"] /\ b.discount = d /\ b.index = i /\ b.same = FALSE
      /\ b.forecast = Or(f, d) /\ b.curves = <<>> /\ b.present
  BY PinsAre
<1>3. Ran(keys) = {"discount", "projection"}
  BY RanShort DEF CurveKeys
<1>4. \A p \in Parts : g.ids[p] # NoId <=> p \in Ran(keys) \cup Ran(Leaves(product)) \cup {"trade"}
  BY FullParts
<1>5. Ran(Leaves(product)) = {"set", "index"}
  BY RanShort DEF Leaves
<1>6. \A p \in Parts \ {"set", "trade"} : g.ids[p] # NoId <=> p \in {"discount", "projection", "index"}
  BY <1>3, <1>4, <1>5
<1>7. d # NoId /\ f # NoId /\ i # NoId
  BY <1>6 DEF Parts, Keys
<1>8. d \in Reference /\ f \in Reference /\ i \in Reference
  BY DEF Graph, Parts, Keys, Reference, Given
<1> HIDE DEF b, q
<1>9. FloatingPins(q, b) = <<d, f>>
  <2>1. Split(q.curves, b.same) = <<NoId, NoId>>
    BY <1>1, <1>2, EmptyList
  <2>2. FloatingPins(q, b) = Fill(<<NoId, NoId>>, <<d, Or(f, d)>>)
    BY <1>2, <2>1 DEF FloatingPins, Shared
  <2> QED
    BY <1>7, <2>2 DEF Fill, Or
<1>10. ~NeedsSet(q, b)
  BY <1>1, <1>7, <1>9 DEF NeedsSet, Incomplete
<1>11. FloatingCurves(q, b, <<>>) = <<d, f>>
  BY <1>2, <1>7, <1>9, EmptyList DEF FloatingCurves, Fill, Or
<1>12. Curves(q, b, <<>>) = <<d, f>>
  BY <1>1, <1>2, <1>11 DEF Curves, Projected
<1>13. Curves(q, b, <<>>) = Meant(g)
  BY <1>12 DEF Meant
<1> DEFINE c == IF d = f THEN <<d>> ELSE <<d, f>>
<1>14. CurveReads(q, b, <<>>) = c /\ c \in Seq(Reference) /\ Ran(c) = {d, f}
  <2>1. CurveReads(q, b, <<>>) = c
    BY <1>1, <1>7, <1>12 DEF CurveReads, Incomplete
  <2>2. c \in Seq(Reference)
    BY <1>8
  <2> QED
    BY <2>1, <2>2, RanShort
<1>15. OtherReads(q, b) = <<i>>
  <2>1. OtherReads(q, b) = <<i>> \o <<>>
    BY <1>1, <1>2, <1>7 DEF OtherReads, May, Need, FloatingIndex, Or
  <2> QED
    BY <2>1
<1>16. Ran(Reads(q, b, <<>>)) = {d, f, i} \ {Literal}
  <2> HIDE DEF c
  <2>1. <<i>> \in Seq(Reference) /\ Ran(<<i>>) = {i}
    BY <1>8, RanShort
  <2>2. /\ q.product # "fx_forward" /\ CurveReads(q, b, <<>>) \in Seq(Reference)
        /\ OtherReads(q, b) \in Seq(Reference)
    BY <1>1, <1>14, <1>15, <2>1
  <2>3. Ran(Reads(q, b, <<>>)) =
          (Ran(CurveReads(q, b, <<>>)) \cup Ran(OtherReads(q, b))) \ {Literal}
    BY <2>2, ReadsAre
  <2> QED
    BY <1>14, <1>15, <2>1, <2>3
<1>17. Ran(Reads(q, b, <<>>)) = {g.ids[p] : p \in Parts \ {"set", "trade"}} \ {NoId}
  <2> DEFINE P == {"discount", "projection", "index"}
  <2>1. P \subseteq Parts \ {"set", "trade"}
    BY DEF Parts, Keys
  <2>2. {d, f, i} = {g.ids[p] : p \in P}
    OBVIOUS
  <2>3. \A p \in Parts \ {"set", "trade"} : g.ids[p] # NoId <=> p \in P
    BY <1>6
  <2> HIDE DEF P
  <2> QED
    BY <1>16, <2>1, <2>2, <2>3, IdsOfParts
<1> QED
  BY <1>10, <1>13, <1>17 DEF Fits, q, b

\* A saved list gives each curve the role it was saved with.
LEMMA BucketOf ==
    ASSUME NEW s \in Seq(CurveRef), Len(s) \in 1..2, NEW x, NEW y, x # y,
           "none" \notin {x, y}, s[1].role = x, Len(s) = 2 => s[2].role = y
    PROVE  Bucket(s, <<x, y>>) = <<s[1].id, IF Len(s) = 2 THEN s[2].id ELSE NoId>>
<1> DEFINE roles == <<x, y>>
           at(r) == {i \in DOMAIN s : RoleAt(s, i, roles) = r}
           rest == {i \in DOMAIN s : RoleAt(s, i, roles) \notin {roles[1], roles[2]}}
           last(r) == Pick(s, at(r), Cardinality(at(r)))
<1>1. DOMAIN s = 1..Len(s) /\ roles[1] = x /\ roles[2] = y
  OBVIOUS
<1> HIDE DEF roles
<1>2. \A i \in DOMAIN s : RoleAt(s, i, roles) = IF i = 1 THEN x ELSE y
  BY <1>1 DEF RoleAt
<1>3. at(x) = {1} /\ rest = {}
  BY <1>1, <1>2
<1>4. at(y) = IF Len(s) = 2 THEN {2} ELSE {}
  BY <1>1, <1>2
<1>5. last(x) = s[1].id
  <2> DEFINE I == at(x)
  <2>1. I = {1} /\ 1 \in 1..Len(s)
    BY <1>3
  <2> HIDE DEF I
  <2>2. Cardinality(I) = 1 /\ Pick(s, I, 1) = s[1].id
    BY <2>1, PickOne
  <2> QED
    BY <2>2 DEF I
<1>6. Bucket(s, roles) = <<last(x), IF at(y) # {} THEN last(y) ELSE Pick(s, rest, 1)>>
  <2>1. at(x) # {}
    BY <1>3
  <2> HIDE DEF at
  <2>2. Bucket(s, roles) =
          <<IF at(x) # {} THEN last(x) ELSE Pick(s, rest, 1),
            IF at(y) # {} THEN last(y) ELSE Pick(s, rest, IF at(x) = {} THEN 2 ELSE 1)>>
    BY <1>1 DEF Bucket, at
  <2> QED
    BY <2>1, <2>2
<1>7. Len(s) = 2 => last(y) = s[2].id
  <2> SUFFICES ASSUME Len(s) = 2 PROVE last(y) = s[2].id
    OBVIOUS
  <2> DEFINE I == at(y)
  <2>1. I = {2} /\ 2 \in 1..Len(s)
    BY <1>4
  <2> HIDE DEF I
  <2>2. Cardinality(I) = 1 /\ Pick(s, I, 1) = s[2].id
    BY <2>1, PickOne
  <2> QED
    BY <2>2 DEF I
<1>8. Pick(s, rest, 1) = NoId
  <2>1. Pick(s, {}, 1) = NoId
    BY PickNone
  <2> QED
    BY <1>3, <2>1
<1> HIDE DEF at, last, rest
<1> QED
  BY <1>4, <1>5, <1>6, <1>7, <1>8 DEF roles

LEMMA ListedFits ==
    ASSUME product \in Pages, product \in {"equity_option", "swap_inflation"},
           NEW keys \in CurveKeys(product), NEW g \in Graph, Full(g, keys)
    PROVE  Fits(g, keys)
<1> DEFINE q == ByReference
           b == Pins(keys, g)
           r == Refs(keys, g)
           o == IF product = "equity_option" THEN "vol" ELSE "index"
           x == IF product = "equity_option" THEN "discount" ELSE "nominal"
           y == IF product = "equity_option" THEN "dividend" ELSE "inflation"
           c == <<g.ids[x], IF Len(keys) = 2 THEN g.ids[y] ELSE NoId>>
<1>1. /\ q.product = product /\ q.curves = <<>> /\ q.vol = NoId
      /\ q.index = NoId /\ q.spot = NoId /\ q.snap = NoId
  BY AskFacts
<1>2. /\ b.vol = g.ids["vol"] /\ b.index = g.ids["index"] /\ b.curves = r
      /\ b.spot = IF product = "equity_option" THEN Literal ELSE NoId
  BY PinsAre
<1>3. /\ keys = <<x>> \/ keys = <<x, y>>
      /\ product = "swap_inflation" => keys = <<x, y>>
  BY DEF CurveKeys
<1>4. \A p \in Parts : g.ids[p] # NoId <=> p \in Ran(keys) \cup Ran(Leaves(product)) \cup {"trade"}
  BY FullParts
<1>5. Ran(Leaves(product)) = {o}
  BY RanShort DEF Leaves
<1>6. \A p \in Parts \ {"set", "trade"} : g.ids[p] # NoId <=> p \in Ran(keys) \cup {o}
  BY <1>4, <1>5
<1>7. {x, y, o} \subseteq Parts \ {"set", "trade"} /\ x # y /\ "none" \notin {x, y} /\ o \notin {x, y}
  BY DEF Parts, Keys
<1>8. \A k \in 1..Len(keys) : g.ids[keys[k]] # NoId
  <2> HIDE DEF x, y, o
  <2>1. \A k \in 1..Len(keys) : keys[k] \in Ran(keys) /\ keys[k] \in {x, y}
    BY <1>3 DEF Ran
  <2> QED
    BY <1>6, <1>7, <2>1
<1>9. /\ r \in Seq(CurveRef) /\ Len(r) = Len(keys)
      /\ \A k \in 1..Len(keys) : r[k].id = g.ids[keys[k]] /\ r[k].role = keys[k]
  BY <1>8, RefsAre
<1>10. g.ids[x] # NoId /\ g.ids[o] # NoId /\ (g.ids[y] # NoId <=> Len(keys) = 2)
  <2> HIDE DEF x, y, o
  <2>1. x \in Ran(keys) /\ (y \in Ran(keys) <=> Len(keys) = 2)
    <3>1. CASE keys = <<x>>
      BY <1>7, <3>1, RanShort
    <3>2. CASE keys = <<x, y>>
      BY <3>2, RanShort
    <3> QED
      BY <1>3, <3>1, <3>2
  <2> QED
    BY <1>6, <1>7, <2>1
<1>11. ~NeedsSet(q, b)
  BY <1>1 DEF NeedsSet
<1> HIDE DEF q, b
<1>12. CurveList(q, b, <<>>) = r
  BY <1>1, <1>2, <1>11 DEF CurveList
<1> HIDE DEF r
<1>13. Bucket(r, <<x, y>>) = c
  <2> HIDE DEF x, y, o
  <2>1. Len(r) \in 1..2 /\ r[1].role = x /\ r[1].id = g.ids[x]
        /\ (Len(r) = 2 => r[2].role = y /\ r[2].id = g.ids[y])
    BY <1>3, <1>9
  <2>2. /\ r \in Seq(CurveRef) /\ Len(r) \in 1..2 /\ x # y /\ "none" \notin {x, y}
        /\ r[1].role = x /\ (Len(r) = 2 => r[2].role = y)
    BY <1>7, <1>9, <2>1
  <2>3. Bucket(r, <<x, y>>) = <<r[1].id, IF Len(r) = 2 THEN r[2].id ELSE NoId>>
    BY <2>2, BucketOf
  <2> QED
    BY <1>9, <2>1, <2>3
<1>14. Curves(q, b, <<>>) = Meant(g) /\ ~Incomplete(Curves(q, b, <<>>))
  <2>1. CASE product = "equity_option"
    <3>1. Curves(q, b, <<>>) = <<g.ids["discount"], Or(IF Len(keys) = 2 THEN g.ids["dividend"] ELSE NoId, Literal)>>
      BY <1>1, <1>12, <1>13, <2>1 DEF Curves, EquityRoles, WithDividend
    <3>2. (IF Len(keys) = 2 THEN g.ids["dividend"] ELSE NoId) = g.ids["dividend"]
      BY <1>10, <2>1
    <3>3. Curves(q, b, <<>>) = <<g.ids["discount"], Or(g.ids["dividend"], Literal)>>
      BY <3>1, <3>2
    <3> QED
      BY <1>10, <2>1, <3>3, ReferenceAssumption DEF Meant, Incomplete, Or
  <2>2. CASE product = "swap_inflation"
    <3>1. Curves(q, b, <<>>) = <<g.ids["nominal"], g.ids["inflation"]>>
      BY <1>1, <1>3, <1>12, <1>13, <2>2 DEF Curves, InflationRoles
    <3> QED
      BY <1>3, <1>10, <2>2, <3>1 DEF Meant, Incomplete
  <2> QED
    BY <2>1, <2>2
<1>15. CurveReads(q, b, <<>>) \in Seq(Reference)
       /\ Ran(CurveReads(q, b, <<>>)) = {g.ids[p] : p \in Ran(keys)}
  <2>1. /\ CurveReads(q, b, <<>>) \in Seq(Reference)
        /\ Ran(CurveReads(q, b, <<>>)) = {r[k].id : k \in 1..Len(r)}
    BY <1>1, <1>9, <1>12, <1>14, ListRead
  <2>2. DOMAIN keys = 1..Len(keys)
    BY <1>3
  <2>3. {r[k].id : k \in 1..Len(r)} = {g.ids[p] : p \in Ran(keys)}
    BY <1>9, <2>2 DEF Ran
  <2> QED
    BY <2>1, <2>3
<1>16. /\ OtherReads(q, b) \in Seq(Reference)
       /\ Ran(OtherReads(q, b)) \ {Literal} = {g.ids[o]} \ {Literal}
  <2>1. g.ids[o] \in Reference /\ Literal \in Reference /\ Literal # NoId
    BY <1>7, ReferenceAssumption DEF Graph, Reference, Given
  <2>2. CASE product = "equity_option"
    <3> DEFINE v == g.ids[o]
    <3>1. OtherReads(q, b) = <<v>> \o <<Literal>> \o <<>>
      BY <1>1, <1>2, <1>10, <2>1, <2>2 DEF OtherReads, May, Need, SurfaceReads, SpotReads, Or
    <3>2. v \in Reference
      BY <2>1
    <3> HIDE DEF v
    <3>3. <<v>> \o <<Literal>> \o <<>> = <<v, Literal>> /\ <<v, Literal>> \in Seq(Reference)
      BY <2>1, <3>2, Glued
    <3>4. OtherReads(q, b) = <<v, Literal>> /\ Ran(<<v, Literal>>) = {v, Literal}
      BY <3>1, <3>3, RanShort
    <3> QED
      BY <3>3, <3>4 DEF v
  <2>3. CASE product = "swap_inflation"
    <3>1. OtherReads(q, b) = <<g.ids[o]>> \o <<>>
      BY <1>1, <1>2, <1>10, <2>3 DEF OtherReads, May, Need, InflationIndex, Or
    <3>2. OtherReads(q, b) = <<g.ids[o]>>
      BY <3>1
    <3> QED
      BY <2>1, <3>2, RanShort
  <2> QED
    BY <2>2, <2>3
<1>17. Ran(Reads(q, b, <<>>)) = ({g.ids[p] : p \in Ran(keys)} \cup {g.ids[o]}) \ {Literal}
  BY <1>1, <1>15, <1>16, ReadsAre
<1>18. Ran(Reads(q, b, <<>>)) = {g.ids[p] : p \in Parts \ {"set", "trade"}} \ {NoId}
  <2> DEFINE P == Ran(keys) \cup {o}
  <2>1. P \subseteq Parts \ {"set", "trade"}
    <3> HIDE DEF x, y, o
    <3> QED
      BY <1>3, <1>7, RanShort
  <2>2. {g.ids[p] : p \in Ran(keys)} \cup {g.ids[o]} = {g.ids[p] : p \in P}
    OBVIOUS
  <2>3. \A p \in Parts \ {"set", "trade"} : g.ids[p] # NoId <=> p \in P
    BY <1>6
  <2> HIDE DEF P, o
  <2> QED
    BY <1>17, <2>1, <2>2, <2>3, IdsOfParts
<1> QED
  BY <1>11, <1>14, <1>18 DEF Fits, q, b

LEMMA AllFit ==
    ASSUME product \in Pages, NEW keys \in CurveKeys(product), NEW g \in Graph, Full(g, keys)
    PROVE  Fits(g, keys)
<1>1. product \in {"swap_ir", "swaption", "bond_fixed", "bond_floating", "cds",
                   "equity_option", "swap_inflation"}
  BY PortalAssumption DEF Products
<1> QED
  BY <1>1, SwapFits, PinnedFits, FloatingFits, ListedFits
-----------------------------------------------------------------------------
(* What the rows of a graph hold.                                          *)

\* Each row is of the part it is named for.
Sorted(g) == \A p \in Parts : g.ids[p] # NoId => rows[g.ids[p]].part = p

\* The row of a part is there, as the save of the graph wrote it.
Latest(g, p) == g.ids[p] # NoId /\ rows[g.ids[p]].edit = g.save

\* Its set lists the curves, and its trade pins what there is.
Agrees(g, keys) ==
    /\ Latest(g, "set") => rows[g.ids["set"]].refs = Refs(keys, g)
    /\ Latest(g, "trade") => rows[g.ids["trade"]].block = Pins(keys, g)

GraphOK(g) ==
    /\ Sorted(g)
    /\ \E keys \in CurveKeys(product) : Agrees(g, keys) /\ (Stamped(g) => Full(g, keys))

\* The parts a save has written are the first of its requests.
Progress(t) ==
    LET j == job[t]
        req == Requests(product, j.keys)
        done == Len(req) - Len(j.left)
    IN  j.step = "persist" =>
            /\ j.keys \in CurveKeys(product) /\ done \in Nat
            /\ \A m \in 1..Len(j.left) : j.left[m] = req[done + m]
            /\ \A p \in Parts : (j.next.ids[p] # NoId) <=> (\E m \in 1..done : req[m] = p)
            /\ Agrees(j.next, j.keys)

GraphsOK == \A x \in Claimants : \A g \in Held(x) : GraphOK(g)

FInv == /\ rows \in Seq(Row)
        /\ \A t \in T : Progress(t)
        /\ GraphsOK
-----------------------------------------------------------------------------
\* A request that spares a graph: its rows keep their parts, and those that are
\* of its save are as they were.
Spared(g) ==
    \A p \in Parts : g.ids[p] # NoId =>
        LET i == g.ids[p]
        IN  /\ rows'[i].part = rows[i].part
            /\ rows'[i].edit = g.save =>
                  /\ rows[i].edit = g.save
                  /\ rows'[i].refs = rows[i].refs /\ rows'[i].block = rows[i].block

LEMMA SparedAgrees ==
    ASSUME product' = product, NEW g, NEW keys, Spared(g), Agrees(g, keys)
    PROVE  Agrees(g, keys)'
<1>1. {"set", "trade"} \subseteq Parts
  BY DEF Parts
<1>2. Refs(keys, g)' = Refs(keys, g) /\ Pins(keys, g)' = Pins(keys, g)
  BY DEF Refs, Pins
<1>3. \A p \in {"set", "trade"} : Latest(g, p)' =>
         /\ Latest(g, p)
         /\ rows'[g.ids[p]].refs = rows[g.ids[p]].refs
         /\ rows'[g.ids[p]].block = rows[g.ids[p]].block
  BY <1>1 DEF Spared, Latest
<1> QED
  BY <1>2, <1>3 DEF Agrees

LEMMA SparedOK ==
    ASSUME product' = product, NEW g, Spared(g), GraphOK(g)
    PROVE  GraphOK(g)'
<1>1. PICK keys \in CurveKeys(product) : Agrees(g, keys) /\ (Stamped(g) => Full(g, keys))
  BY DEF GraphOK
<1>2. Agrees(g, keys)'
  BY <1>1, SparedAgrees
<1>3. Full(g, keys)' <=> Full(g, keys)
  BY DEF Full
<1>4. Sorted(g)'
  BY DEF GraphOK, Sorted, Spared
<1>5. keys \in CurveKeys(product)'
  BY DEF CurveKeys
<1> QED
  BY <1>1, <1>2, <1>3, <1>4, <1>5 DEF GraphOK, Stamped

\* Rows that at most die.
RowsKept ==
    /\ rows' \in Seq(Row)
    /\ \A i \in DOMAIN rows : /\ rows'[i].part = rows[i].part /\ rows'[i].edit = rows[i].edit
                              /\ rows'[i].refs = rows[i].refs /\ rows'[i].block = rows[i].block

LEMMA KeptSpares ==
    ASSUME RowsKept, NEW g, RowsOf(g) \subseteq DOMAIN rows
    PROVE  Spared(g)
BY DEF RowsKept, Spared, RowsOf

LEMMA PutSpares ==
    ASSUME NEW i, NEW w, RowPut(i, w), NEW g, RowsOf(g) \subseteq DOMAIN rows,
           w.edit # g.save, i \in DOMAIN rows => rows[i].part = w.part
    PROVE  Spared(g)
BY DEF RowPut, Spared, RowsOf

LEMMA KeysThere == ASSUME product \in Pages PROVE CurveKeys(product) # {}
BY PortalAssumption DEF Products, CurveKeys

\* A graph that names nothing.
LEMMA NamelessOK ==
    ASSUME product \in Pages, product' = product, NEW g, \A p \in Parts : g.ids[p] = NoId
    PROVE  GraphOK(g)'
<1>1. PICK keys : keys \in CurveKeys(product)
  BY KeysThere
<1>2. keys \in CurveKeys(product)'
  BY <1>1 DEF CurveKeys
<1>3. {"set", "trade"} \subseteq Parts
  BY DEF Parts
<1>4. Agrees(g, keys)' /\ Sorted(g)' /\ ~Stamped(g)
  BY <1>3 DEF Agrees, Latest, Sorted, Stamped
<1> QED
  BY <1>2, <1>4 DEF GraphOK, Stamped

\* What each step has to show.
LEMMA FInvStep ==
    ASSUME IInv, FInv, product' = product, rows' \in Seq(Row),
           \A x \in Claimants : \A g \in Held(x)' :
              \/ \E y \in Claimants : g \in Held(y) /\ Spared(g)
              \/ GraphOK(g)',
           \A u \in T : Progress(u)' \/ (job'[u] = job[u] /\ Spared(job[u].next))
    PROVE  FInv'
<1>1. T' = T /\ Claimants' = Claimants
  BY DEF T, Claimants
<1>2. GraphsOK'
  <2> SUFFICES ASSUME NEW x \in Claimants, NEW g \in Held(x)' PROVE GraphOK(g)'
    BY <1>1 DEF GraphsOK
  <2>1. ASSUME NEW y \in Claimants, g \in Held(y), Spared(g) PROVE GraphOK(g)'
    <3>1. GraphOK(g)
      BY <2>1 DEF FInv, GraphsOK
    <3> QED
      BY <2>1, <3>1, SparedOK
  <2> QED
    BY <2>1
<1>3. ASSUME NEW u \in T, job'[u] = job[u], Spared(job[u].next) PROVE Progress(u)'
  <2>1. PICK j : j = job[u]
    OBVIOUS
  <2>2. job'[u] = j /\ Progress(u) /\ Spared(j.next)
    BY <1>3, <2>1 DEF FInv
  <2>3. Agrees(j.next, j.keys) => Agrees(j.next, j.keys)'
    BY <2>2, SparedAgrees
  <2> SUFFICES ASSUME j.step = "persist" PROVE Progress(u)'
    BY <2>2 DEF Progress
  <2> DEFINE req == Requests(product, j.keys)
             done == Len(req) - Len(j.left)
  <2>4. /\ j.keys \in CurveKeys(product) /\ done \in Nat
        /\ \A m \in 1..Len(j.left) : j.left[m] = req[done + m]
        /\ \A p \in Parts : (j.next.ids[p] # NoId) <=> (\E m \in 1..done : req[m] = p)
        /\ Agrees(j.next, j.keys)
    BY <2>1, <2>2 DEF Progress
  <2>5. req' = req /\ CurveKeys(product)' = CurveKeys(product)
    BY DEF Requests, CurveKeys, Leaves
  <2> HIDE DEF req
  <2>6. (j.keys \in CurveKeys(product) /\ Agrees(j.next, j.keys))'
    BY <2>3, <2>4, <2>5
  <2>7. (/\ j.keys \in CurveKeys(product) /\ done \in Nat
         /\ \A m \in 1..Len(j.left) : j.left[m] = req[done + m]
         /\ \A p \in Parts : (j.next.ids[p] # NoId) <=> (\E m \in 1..done : req[m] = p)
         /\ Agrees(j.next, j.keys))'
    BY <2>4, <2>5, <2>6
  <2> QED
    BY <2>2, <2>7 DEF Progress, req
<1> QED
  BY <1>1, <1>2, <1>3 DEF FInv

LEMMA HeldRows ==
    ASSUME IInv, NEW x \in Claimants, NEW g \in Held(x)
    PROVE  g \in Graph /\ RowsOf(g) \subseteq DOMAIN rows
BY DEF IInv, HeldOK, Whole

\* The same, when rows at most die.
LEMMA FInvKept ==
    ASSUME IInv, FInv, product' = product, RowsKept,
           \A x \in Claimants : \A g \in Held(x)' :
              \/ \E y \in Claimants : g \in Held(y)
              \/ \A p \in Parts : g.ids[p] = NoId,
           \A u \in T : Progress(u)' \/ job'[u] = job[u]
    PROVE  FInv'
<1>1. product \in Pages
  BY DEF IInv, Shaped
<1>2. \A x \in Claimants : \A g \in Held(x) : Spared(g)
  BY HeldRows, KeptSpares
<1>3. \A x \in Claimants : \A g \in Held(x)' :
         \/ \E y \in Claimants : g \in Held(y) /\ Spared(g)
         \/ GraphOK(g)'
  BY <1>1, <1>2, NamelessOK
<1>4. \A u \in T : Spared(job[u].next)
  BY <1>2, OwnGraphs
<1>5. rows' \in Seq(Row)
  BY DEF RowsKept
<1> QED
  BY <1>3, <1>4, <1>5, FInvStep

LEMMA RowsSame == ASSUME FInv, UNCHANGED rows PROVE RowsKept
BY DEF FInv, RowsKept

LEMMA RowDead ==
    ASSUME FInv, NEW k, rows' = [rows EXCEPT ![k].live = FALSE]
    PROVE  RowsKept
<1> DEFINE w == [rows[k] EXCEPT !.live = FALSE]
<1>1. rows' = [rows EXCEPT ![k] = w]
  OBVIOUS
<1>2. rows \in Seq(Row) /\ DOMAIN rows = 1..Len(rows)
  BY DEF FInv
<1>3. k \in DOMAIN rows => /\ w \in Row /\ w.part = rows[k].part /\ w.edit = rows[k].edit
                           /\ w.refs = rows[k].refs /\ w.block = rows[k].block
  <2>1. k \in DOMAIN rows => rows[k] \in Row
    BY <1>2
  <2> QED
    BY <2>1 DEF Row
<1> HIDE DEF w
<1>4. rows' = [i \in 1..Len(rows) |-> rows'[i]]
      /\ \A i \in 1..Len(rows) : rows'[i] = IF i = k THEN w ELSE rows[i]
  BY <1>1, <1>2
<1>5. \A i \in 1..Len(rows) : rows'[i] \in Row
  <2>1. \A i \in 1..Len(rows) : rows[i] \in Row
    BY <1>2
  <2> HIDE DEF Row
  <2> QED
    BY <1>2, <1>3, <1>4, <2>1
<1>6. rows' \in Seq(Row)
  <2> HIDE DEF Row
  <2>1. PICK r : r = rows'
    OBVIOUS
  <2>2. [i \in 1..Len(rows) |-> r[i]] \in Seq(Row)
    <3>1. Len(rows) \in Nat
      BY <1>2
    <3>2. \A i \in 1..Len(rows) : r[i] \in Row
      BY <1>5, <2>1
    <3> QED
      BY <3>1, <3>2
  <2>3. r = [i \in 1..Len(rows) |-> r[i]]
    BY <1>4, <2>1
  <2> QED
    BY <2>1, <2>2, <2>3
<1> QED
  BY <1>2, <1>3, <1>4, <1>6 DEF RowsKept

LEMMA BlankNameless == \A p \in Parts : Blank.ids[p] = NoId
BY DEF Blank

LEMMA InitFInv == Init => FInv
<1> SUFFICES ASSUME Init PROVE FInv
  OBVIOUS
<1>1. /\ product \in Pages /\ rows = <<>> /\ entries = <<>>
      /\ cache = [t \in T |-> [e \in Entries |-> NoGraph]]
      /\ page = [t \in T |-> NewPage] /\ job = [t \in T |-> NoJob]
  BY DEF Init, T
<1>2. DOMAIN entries = {} /\ rows \in Seq(Row)
  BY <1>1
<1>3. ASSUME NEW x, NEW g \in Held(x) PROVE g = Blank
  BY <1>1, <1>2, HeldIs DEF NoJob, NewPage
<1>4. GraphOK(Blank)
  <2>1. PICK keys : keys \in CurveKeys(product)
    BY <1>1, KeysThere
  <2>2. {"set", "trade"} \subseteq Parts
    BY DEF Parts
  <2>3. Agrees(Blank, keys) /\ Sorted(Blank) /\ ~Stamped(Blank)
    BY <2>2, BlankNameless DEF Agrees, Latest, Sorted, Stamped
  <2> QED
    BY <2>1, <2>3 DEF GraphOK
<1>5. \A t \in T : Progress(t)
  BY <1>1 DEF Progress, NoJob
<1> QED
  BY <1>2, <1>3, <1>4, <1>5 DEF FInv, GraphsOK

LEMMA MovesFit ==
    ASSUME IInv, FInv, NEW t \in T,
           Reload(t) \/ New(t) \/ \E e \in Entries : Open(t, e) \/ Delete(t, e)
    PROVE  FInv'
<1>1. Moved(t)
  BY MovesAre
<1>2. product' = product /\ job' = job
  BY <1>1 DEF Moved
<1>3. RowsKept
  BY RowsSame, RowDead DEF Reload, New, Open, Delete
<1>4. \A x \in Claimants : \A g \in Held(x)' : g \in Held(x) \/ g = Blank
  BY <1>1, MovedHeld
<1> QED
  BY <1>2, <1>3, <1>4, BlankNameless, FInvKept

LEMMA DeleteRowFits ==
    ASSUME IInv, FInv, UNCHANGED <<product, entries, cache, page, job, saves, origin>>, RowsKept
    PROVE  FInv'
<1>1. T' = T
  BY DEF T
<1>2. \A x \in Claimants : Held(x)' = Held(x)
  BY <1>1 DEF Held, Stored, Cached, Shown, For, Entry
<1> QED
  BY <1>2, FInvKept

LEMMA DuplicateFits ==
    ASSUME IInv, FInv, NEW t \in T, NEW e \in Entries, Duplicate(t, e)
    PROVE  FInv'
<1>1. PICK f \in Entries : CopyMade(t, e, f)
  BY CopyIs
<1>2. product' = product /\ job' = job /\ RowsKept
  BY <1>1, RowsSame DEF CopyMade
<1>3. \A x \in Claimants : \A g \in Held(x)' : g \in Held(x) \/ g = Blank
  BY <1>1, CopyHeld
<1> QED
  BY <1>2, <1>3, BlankNameless, FInvKept

LEMMA StartSaveFits ==
    ASSUME IInv, FInv, NEW t \in T, StartSave(t)
    PROVE  FInv'
<1> DEFINE new == [Blank EXCEPT !.save = saves']
<1>1. PICK keys \in CurveKeys(product), persist \in {TRUE, ~LocalOnly} :
         job' = [job EXCEPT ![t] =
                   [NoJob EXCEPT !.step = IF persist THEN "persist" ELSE "store",
                                 !.left = IF persist THEN Requests(product, keys) ELSE <<>>,
                                 !.keys = keys, !.save = saves', !.prior = page[t].graph,
                                 !.next = IF persist THEN new ELSE page[t].graph]]
  BY DEF StartSave
<1>2. UNCHANGED <<product, rows, entries, cache, page, origin>>
  BY DEF StartSave
<1>3. job \in [T -> Job] /\ T' = T /\ product \in Pages
  BY <1>2 DEF IInv, Shaped, T
<1>4. new.save = saves' /\ \A p \in Parts : new.ids[p] = NoId
  BY DEF Blank
<1> HIDE DEF new
<1>5. /\ \A u \in T \ {t} : job'[u] = job[u]
      /\ job'[t].step = IF persist THEN "persist" ELSE "store"
      /\ persist => job'[t].left = Requests(product, keys)
      /\ job'[t].keys = keys /\ job'[t].prior = page[t].graph
      /\ job'[t].next = IF persist THEN new ELSE page[t].graph
  BY <1>1, <1>3 DEF NoJob
<1>6. Progress(t)'
  <2> SUFFICES ASSUME persist PROVE Progress(t)'
    BY <1>5 DEF Progress
  <2> DEFINE req == Requests(product, keys)
  <2>1. Len(req) \in Nat
    <3>1. req \in Seq(Parts)
      BY <1>3, RequestsAre
    <3> HIDE DEF req
    <3> QED
      BY <3>1
  <2>2. req' = req /\ CurveKeys(product)' = CurveKeys(product)
    BY <1>2 DEF Requests, CurveKeys, Leaves
  <2>3. {"set", "trade"} \subseteq Parts
    BY DEF Parts
  <2>4. Agrees(job[t].next, job[t].keys)'
    BY <1>4, <1>5, <2>3 DEF Agrees, Latest
  <2> HIDE DEF req
  <2>5. Len(req) - Len(req) = 0
    BY <2>1
  <2>6. job'[t].left = req /\ job'[t].keys = keys /\ job'[t].next = new
    BY <1>5 DEF req
  <2>7. (Requests(product, job[t].keys))' = req
    BY <2>2, <2>6 DEF req
  <2> QED
    BY <1>4, <2>1, <2>2, <2>4, <2>5, <2>6, <2>7 DEF Progress
<1>7. ASSUME NEW x \in Claimants, NEW g \in Held(x)'
      PROVE  (\E y \in Claimants : g \in Held(y)) \/ (\A p \in Parts : g.ids[p] = NoId)
  <2>1. g \in Held(x) \/ g \in {page[t].graph, new}
    BY <1>2, <1>5, WorkedHeld
  <2> QED
    BY <1>4, <2>1, OwnGraphs
<1> QED
  BY <1>2, <1>5, <1>6, <1>7, RowsSame, FInvKept

LEMMA StoreFits ==
    ASSUME IInv, FInv, NEW t \in T, Store(t) \/ StoreFails(t)
    PROVE  FInv'
<1>1. /\ product' = product /\ rows' = rows /\ job \in [T -> Job]
      /\ job' = [job EXCEPT ![t] = NoJob]
  BY DEF Store, StoreFails, IInv, Shaped
<1>2. job'[t] = NoJob /\ \A u \in T \ {t} : job'[u] = job[u]
  BY <1>1
<1>3. Progress(t)'
  BY <1>2 DEF Progress, NoJob
<1>4. CASE Store(t) \/ WriteEntry(t)
  <2>1. \A x \in Claimants : \A g \in Held(x)' : g = Blank \/ \E y \in Claimants : g \in Held(y)
    BY <1>4, StowIs, StowedHeld, OwnGraphs
  <2> QED
    BY <1>1, <1>2, <1>3, <2>1, BlankNameless, RowsSame, FInvKept
<1>5. CASE StoreFails(t) /\ UNCHANGED entries
  <2>1. UNCHANGED <<product, entries, cache, page, origin>>
    BY <1>5 DEF StoreFails
  <2>2. job'[t].prior = Blank /\ job'[t].next = Blank
    BY <1>2 DEF NoJob
  <2>3. \A x \in Claimants : \A g \in Held(x)' : g = Blank \/ g \in Held(x)
    BY <1>2, <2>1, <2>2, WorkedHeld
  <2> QED
    BY <1>1, <1>2, <1>3, <2>3, BlankNameless, RowsSame, FInvKept
<1> QED
  BY <1>4, <1>5 DEF StoreFails

\* The first d of n requests are done: c curves first, the trade last.
Under(n, c, d, req, keys, ids) ==
    /\ n \in Nat /\ c \in Nat /\ d \in Nat /\ d < n
    /\ \A k \in 1..c : req[k] = keys[k] /\ keys[k] \in Keys
    /\ \A m \in 1..n : req[m] \in Keys => m <= c
    /\ \A m \in 1..n : (req[m] = "trade") <=> (m = n)
    /\ \A q \in Parts : (ids[q] # NoId) <=> (\E m \in 1..d : req[m] = q)

LEMMA Standing ==
    ASSUME NEW n, NEW c, NEW d, NEW req, NEW keys, NEW ids, Under(n, c, d, req, keys, ids)
    PROVE  /\ (req[d + 1] = "trade") <=> (d + 1 = n)
           /\ req[d + 1] \notin Keys => \A k \in 1..c : ids[keys[k]] # NoId
           /\ ids["set"] # NoId => req[d + 1] \notin Keys
           /\ ids["trade"] = NoId
<1> USE DEF Under
<1>1. Keys \subseteq Parts /\ "set" \in Parts \ Keys /\ "trade" \in Parts
  BY DEF Parts, Keys
<1>2. d + 1 \in 1..n
  OBVIOUS
<1>3. ASSUME req[d + 1] \notin Keys, NEW k \in 1..c PROVE ids[keys[k]] # NoId
  <2>1. d >= c
    <3>1. d < c => d + 1 \in 1..c
      OBVIOUS
    <3> QED
      BY <1>3, <3>1
  <2>2. k \in 1..d
    BY <2>1
  <2>3. req[k] = keys[k] /\ keys[k] \in Parts
    BY <1>1
  <2> QED
    BY <2>2, <2>3
<1>4. ASSUME ids["set"] # NoId, req[d + 1] \in Keys PROVE FALSE
  <2>1. PICK m \in 1..d : req[m] = "set"
    BY <1>1, <1>4
  <2>2. d + 1 <= c
    BY <1>2, <1>4
  <2>3. m \in 1..c
    BY <2>2
  <2> QED
    BY <1>1, <2>1, <2>3
<1>5. ASSUME NEW m \in 1..d, req[m] = "trade" PROVE FALSE
  <2>1. m \in 1..n /\ m # n
    OBVIOUS
  <2> QED
    BY <1>5, <2>1
<1> QED
  BY <1>1, <1>2, <1>3, <1>4, <1>5

\* What is left when the first of l requests of n is done.
LEMMA Advance ==
    ASSUME NEW n \in Nat, NEW l \in Nat \ {0}, n - l \in Nat, NEW req, NEW left, NEW rest,
           \A m \in 1..l : left[m] = req[(n - l) + m],
           \A m \in 1..(l - 1) : rest[m] = left[m + 1]
    PROVE  /\ n - l < n /\ left[1] = req[(n - l) + 1] /\ l - 1 = n - ((n - l) + 1)
           /\ \A m \in 1..(l - 1) : rest[m] = req[((n - l) + 1) + m]
<1>1. n - l < n /\ 1 \in 1..l /\ l - 1 = n - ((n - l) + 1)
  OBVIOUS
<1>2. ASSUME NEW m \in 1..(l - 1) PROVE rest[m] = req[((n - l) + 1) + m]
  <2>1. m + 1 \in 1..l /\ (n - l) + (m + 1) = ((n - l) + 1) + m
    OBVIOUS
  <2> QED
    BY <2>1
<1> QED
  BY <1>1, <1>2

\* Where a save stands among its requests.
LEMMA Place ==
    ASSUME IInv, FInv, NEW t \in T, job[t].step = "persist"
    PROVE  LET j == job[t]
               req == Requests(product, j.keys)
               d == Len(req) - Len(j.left)
               p == Head(j.left)
           IN  /\ j.keys \in CurveKeys(product) /\ d \in Nat /\ Len(req) \in Nat
               /\ p \in Parts /\ p = req[d + 1] /\ ((p = "trade") <=> (d + 1 = Len(req)))
               /\ \A q \in Parts : (j.next.ids[q] # NoId) <=> (\E m \in 1..d : req[m] = q)
               /\ Len(Tail(j.left)) = Len(req) - (d + 1)
               /\ \A m \in 1..Len(Tail(j.left)) : Tail(j.left)[m] = req[(d + 1) + m]
               /\ (p \notin Keys => \A k \in 1..Len(j.keys) : j.next.ids[j.keys[k]] # NoId)
               /\ (j.next.ids["set"] # NoId => p \notin Keys)
               /\ j.next.ids["trade"] = NoId
<1> DEFINE keys == job[t].keys
           left == job[t].left
           rest == Tail(left)
           ids == job[t].next.ids
           req == Requests(product, keys)
           n == Len(req)
           l == Len(left)
           c == Len(keys)
           p == Head(left)
<1>1. /\ keys \in CurveKeys(product) /\ n - l \in Nat
      /\ \A m \in 1..l : left[m] = req[(n - l) + m]
      /\ \A q \in Parts : (ids[q] # NoId) <=> (\E m \in 1..(n - l) : req[m] = q)
  BY DEF FInv, Progress
<1>2. product \in Pages
  BY DEF IInv, Shaped
<1>3. /\ p \in Parts /\ p = left[1] /\ l \in Nat \ {0} /\ Len(rest) = l - 1
      /\ \A m \in 1..(l - 1) : rest[m] = left[m + 1]
  BY HeadIsPart
<1>4. /\ keys \in Seq(Keys) /\ req \in Seq(Parts) /\ InOrder(req)
      /\ \A k \in 1..c : req[k] = keys[k]
      /\ \A m \in 1..n : req[m] \in Keys => m <= c
  BY <1>1, <1>2, RequestsAre
<1>5. c \in Nat /\ n \in Nat /\ \A k \in 1..c : keys[k] \in Keys
  <2> HIDE DEF keys, req
  <2> QED
    BY <1>4
<1>6. \A m \in 1..n : (req[m] = "trade") <=> (m = n)
  <2> HIDE DEF req
  <2>1. DOMAIN req = 1..n
    BY <1>4
  <2> QED
    BY <1>4, <2>1 DEF InOrder
<1> HIDE DEF keys, left, rest, ids, req, n, l, c, p
<1>7. /\ n - l < n /\ left[1] = req[(n - l) + 1] /\ l - 1 = n - ((n - l) + 1)
      /\ \A m \in 1..(l - 1) : rest[m] = req[((n - l) + 1) + m]
  BY <1>1, <1>3, <1>5, Advance
<1>8. /\ (req[(n - l) + 1] = "trade") <=> ((n - l) + 1 = n)
      /\ req[(n - l) + 1] \notin Keys => \A k \in 1..c : ids[keys[k]] # NoId
      /\ ids["set"] # NoId => req[(n - l) + 1] \notin Keys
      /\ ids["trade"] = NoId
  <2> DEFINE d == n - l
  <2>1. d \in Nat /\ d < n /\ \A q \in Parts : (ids[q] # NoId) <=> (\E m \in 1..d : req[m] = q)
    BY <1>1, <1>7
  <2> HIDE DEF d
  <2>2. Under(n, c, d, req, keys, ids)
    BY <1>4, <1>5, <1>6, <2>1 DEF Under
  <2>3. /\ (req[d + 1] = "trade") <=> (d + 1 = n)
        /\ req[d + 1] \notin Keys => \A k \in 1..c : ids[keys[k]] # NoId
        /\ ids["set"] # NoId => req[d + 1] \notin Keys
        /\ ids["trade"] = NoId
    BY <2>2, Standing
  <2> QED
    BY <2>3 DEF d
<1>9. p = req[(n - l) + 1] /\ Len(rest) = n - ((n - l) + 1)
      /\ \A m \in 1..Len(rest) : rest[m] = req[((n - l) + 1) + m]
  BY <1>3, <1>7
<1> QED
  BY <1>1, <1>3, <1>5, <1>8, <1>9 DEF keys, left, rest, ids, req, n, l, c, p

LEMMA WrittenIs ==
    ASSUME IInv, FInv, NEW t \in T, job[t].step = "persist",
           NEW p, p = Head(job[t].left), NEW w, w = Written(job[t], p)
    PROVE  /\ w \in Row /\ w.part = p /\ w.edit = job[t].save
           /\ p = "set" => w.refs = Refs(job[t].keys, job[t].next)
           /\ p = "trade" => w.block = Pins(job[t].keys, job[t].next)
<1> DEFINE j == job[t]
           g == j.next
           r == Refs(j.keys, g)
           b == Pins(j.keys, g)
<1>1. /\ j.keys \in CurveKeys(product) /\ p \in Parts
      /\ p \notin Keys => \A k \in 1..Len(j.keys) : g.ids[j.keys[k]] # NoId
  BY Place
<1>2. /\ w.part = p /\ w.edit = j.save
      /\ w = [part |-> p, edit |-> j.save, live |-> TRUE,
              refs |-> IF p = "set" THEN r ELSE <<>>,
              block |-> IF p = "trade" THEN b ELSE NoBlock]
  BY DEF Written
<1>3. product \in Pages /\ g \in Graph /\ j.save \in 1..MaxSaves
  BY PortalAssumption DEF IInv, Shaped, JobOK, Job
<1>4. {"set", "trade"} \cap Keys = {}
  BY DEF Keys
<1>5. p \in {"set", "trade"} => r \in Seq(SetRef) /\ r \in Seq(CurveRef)
  <2> SUFFICES ASSUME p \in {"set", "trade"} PROVE r \in Seq(SetRef) /\ r \in Seq(CurveRef)
    OBVIOUS
  <2>1. \A k \in 1..Len(j.keys) : g.ids[j.keys[k]] # NoId
    BY <1>1, <1>4
  <2> QED
    BY <1>1, <1>3, <2>1, RefsAre
<1>6. <<>> \in Seq(SetRef) /\ <<>> \in Seq(CurveRef)
  OBVIOUS
<1> HIDE DEF r
<1>7. p = "trade" => b \in Block
  <2> SUFFICES ASSUME p = "trade" PROVE b \in Block
    OBVIOUS
  <2>1. \A q \in Parts : g.ids[q] \in Ids \cup {NoId}
    BY <1>3 DEF Graph
  <2>2. {"set", "discount", "projection", "credit", "vol", "model", "index"} \subseteq Parts
    BY DEF Parts, Keys
  <2> DEFINE c == IF product \in {"equity_option", "swap_inflation"} THEN r ELSE <<>>
             d == IF product \in {"bond_fixed", "bond_floating", "cds"} THEN g.ids["discount"] ELSE NoId
             f == IF product = "bond_floating"
                  THEN Or(g.ids["projection"], g.ids["discount"]) ELSE NoId
             v == IF product = "equity_option" THEN Literal ELSE NoId
  <2>3. c \in Seq(CurveRef)
    BY <1>5, <1>6
  <2>4. d \in Ids \cup {NoId} /\ f \in Ids \cup {NoId} /\ v \in Reference
    BY <2>1, <2>2 DEF Or, Reference, Given
  <2>5. /\ g.ids["set"] \in Ids \cup {NoId}
        /\ g.ids["credit"] \in Reference /\ g.ids["vol"] \in Reference
        /\ g.ids["model"] \in Reference /\ g.ids["index"] \in Reference
    BY <2>1, <2>2 DEF Reference, Given
  <2>6. b = [present |-> TRUE, same |-> FALSE, set |-> g.ids["set"], discount |-> d, forecast |-> f,
             curves |-> c, credit |-> g.ids["credit"], vol |-> g.ids["vol"],
             model |-> g.ids["model"], index |-> g.ids["index"], spot |-> v]
    BY PinsAre DEF r
  <2> HIDE DEF b, c, d, f, v, g
  <2> DEFINE cs == Seq(CurveRef)
  <2>7. c \in cs
    BY <2>3
  <2>8. Block = [present : BOOLEAN, same : BOOLEAN, set : Ids \cup {NoId}, discount : Ids \cup {NoId},
                 forecast : Ids \cup {NoId}, curves : cs, credit : Reference,
                 vol : Reference, model : Reference, index : Reference, spot : Reference]
    BY DEF Block
  <2> HIDE DEF cs
  <2> QED
    BY <2>4, <2>5, <2>6, <2>7, <2>8
<1>8. NoBlock \in Block
  <2> DEFINE cs == Seq(CurveRef)
  <2>1. Block = [present : BOOLEAN, same : BOOLEAN, set : Ids \cup {NoId}, discount : Ids \cup {NoId},
                 forecast : Ids \cup {NoId}, curves : cs, credit : Reference,
                 vol : Reference, model : Reference, index : Reference, spot : Reference]
    BY DEF Block
  <2>2. <<>> \in cs /\ NoId \in Reference
    BY <1>6 DEF Reference
  <2> HIDE DEF cs
  <2> QED
    BY <2>1, <2>2 DEF NoBlock
<1>9. w \in Row
  <2> DEFINE rs == Seq(SetRef)
             x == IF p = "set" THEN r ELSE <<>>
             y == IF p = "trade" THEN b ELSE NoBlock
             e == j.save
  <2>1. x \in rs /\ y \in Block /\ p \in Parts /\ e \in 1..MaxSaves
    BY <1>1, <1>3, <1>5, <1>6, <1>7, <1>8
  <2>2. Row = [part : Parts, edit : 1..MaxSaves, live : BOOLEAN, refs : rs, block : Block]
    BY DEF Row
  <2>3. w = [part |-> p, edit |-> e, live |-> TRUE, refs |-> x, block |-> y]
    BY <1>2
  <2> HIDE DEF rs, x, y, e
  <2>4. [part |-> p, edit |-> e, live |-> TRUE, refs |-> x, block |-> y]
           \in [part : Parts, edit : 1..MaxSaves, live : BOOLEAN, refs : rs, block : Block]
    BY <2>1
  <2> QED
    BY <2>2, <2>3, <2>4, Zenon
<1> QED
  BY <1>2, <1>9 DEF r

LEMMA RowsTyped ==
    ASSUME NEW r, Listed(r), NEW S, \A i \in DOMAIN r : r[i] \in S
    PROVE  r \in Seq(S)
<1> DEFINE R == {r[i] : i \in DOMAIN r}
<1>1. r \in Seq(R)
  BY DEF Listed
<1> HIDE DEF R
<1>2. Len(r) \in Nat /\ DOMAIN r = 1..Len(r) /\ r = [i \in 1..Len(r) |-> r[i]]
  BY <1>1
<1>3. [i \in 1..Len(r) |-> r[i]] \in Seq(S)
  BY <1>2
<1> QED
  BY <1>2, <1>3

\* A save's write keeps the rows of their part, and spares what other saves made.
LEMMA PutIs ==
    ASSUME IInv, FInv, NEW t \in T, job[t].step = "persist",
           NEW p, p = Head(job[t].left), Write(job[t], p), NEW i, i = Target(job[t], p)
    PROVE  /\ rows' \in Seq(Row) /\ RowPut(i, Written(job[t], p))
           /\ i # NoId
           /\ i \in DOMAIN rows => rows[i].part = p
           /\ \A x \in Claimants : \A g \in Held(x) : g.save # job[t].save => Spared(g)
<1> DEFINE w == Written(job[t], p)
<1>1. /\ RowWritten(i, job[t].save) /\ i # NoId /\ RowPut(i, w)
      /\ i \in DOMAIN rows => i = job[t].prior.ids[p]
      /\ p \in Parts
  BY HeadIsPart, WriteIs
<1>2. w \in Row /\ w.part = p /\ w.edit = job[t].save
  BY WrittenIs
<1>3. i \in DOMAIN rows => rows[i].part = p
  <2>1. Sorted(job[t].prior)
    BY OwnGraphs DEF FInv, GraphsOK, GraphOK
  <2> QED
    BY <1>1, <2>1 DEF Sorted
<1>4. rows' \in Seq(Row)
  <2>1. rows \in Seq(Row) /\ Listed(rows')
    BY <1>1 DEF FInv, RowWritten
  <2>2. \A k \in DOMAIN rows : rows[k] \in Row
    BY <2>1, ElementOfSeq
  <2> HIDE DEF w
  <2>3. \A k \in DOMAIN rows' : rows'[k] \in Row
    BY <1>1, <1>2, <2>2 DEF RowPut
  <2> QED
    BY <2>1, <2>3, RowsTyped
<1> HIDE DEF w
<1>5. ASSUME NEW x \in Claimants, NEW g \in Held(x), g.save # job[t].save PROVE Spared(g)
  <2>1. RowsOf(g) \subseteq DOMAIN rows
    BY HeldRows
  <2>2. w.edit # g.save /\ (i \in DOMAIN rows => rows[i].part = w.part)
    BY <1>2, <1>3, <1>5
  <2> QED
    BY <1>1, <2>1, <2>2, PutSpares
<1> QED
  BY <1>1, <1>3, <1>4, <1>5 DEF w

LEMMA PersistFailsFits ==
    ASSUME IInv, FInv, NEW t \in T, PersistFails(t)
    PROVE  FInv'
<1> DEFINE j == job[t]
           new == [j EXCEPT !.step = "store", !.left = <<>>, !.fine = FALSE, !.next = j.prior]
<1>1. /\ j.step = "persist" /\ UNCHANGED <<product, entries, cache, page, origin>>
      /\ Write(j, Head(j.left)) \/ UNCHANGED rows
      /\ job' = [job EXCEPT ![t] = new]
  BY DEF PersistFails
<1>2. job \in [T -> Job] /\ j \in Job
  BY DEF IInv, Shaped
<1>3. new.step = "store" /\ new.prior = j.prior /\ new.next = j.prior
  BY <1>2 DEF Job
<1> HIDE DEF new
<1>4. job'[t] = new /\ \A u \in T \ {t} : job'[u] = job[u]
  BY <1>1, <1>2
<1>5. Progress(t)'
  BY <1>3, <1>4 DEF Progress
<1>6. For(t) \in Claimants /\ j.prior \in Held(For(t)) /\ j.prior.save # j.save
  BY <1>1, OwnGraphs DEF IInv, Sole
<1>7. \A x \in Claimants : \A g \in Held(x)' :
         g.save # j.save /\ \E y \in Claimants : g \in Held(y)
  <2>1. \A x \in Claimants : \A g \in Held(x)' :
           (g \in Held(x) /\ g.save # j.save) \/ g = j.prior
    BY <1>1, <1>3, <1>4, WritingHeld
  <2> QED
    BY <1>6, <2>1
<1>8. CASE UNCHANGED rows
  BY <1>1, <1>4, <1>5, <1>7, <1>8, RowsSame, FInvKept
<1>9. CASE Write(j, Head(j.left))
  <2>1. rows' \in Seq(Row)
        /\ \A x \in Claimants : \A g \in Held(x) : g.save # j.save => Spared(g)
    BY <1>1, <1>9, PutIs
  <2>2. \A u \in T \ {t} : Spared(job[u].next)
    BY <1>1, <2>1, OwnGraphs DEF IInv, Sole
  <2> QED
    BY <1>1, <1>4, <1>5, <1>7, <2>1, <2>2, FInvStep
<1> QED
  BY <1>1, <1>8, <1>9

\* Naming a part changes neither the curves a set lists nor what a trade pins, when
\* the part is not among the former, or is the trade.
LEMMA RefsStay ==
    ASSUME product \in Pages, NEW keys \in CurveKeys(product), NEW g, NEW h, NEW p,
           \A q \in Parts \ {p} : h.ids[q] = g.ids[q], p \notin Keys
    PROVE  Refs(keys, h) = Refs(keys, g)
<1>1. keys \in Seq(Keys)
  BY RequestsAre
<1>2. \A k \in DOMAIN keys : keys[k] \in Keys
  BY <1>1
<1>3. Keys \subseteq Parts
  BY DEF Parts
<1>4. \A k \in DOMAIN keys : h.ids[keys[k]] = g.ids[keys[k]]
  BY <1>2, <1>3
<1> QED
  BY <1>4 DEF Refs

LEMMA PinsStay ==
    ASSUME product \in Pages, NEW keys \in CurveKeys(product), NEW g, NEW h,
           \A q \in Parts \ {"trade"} : h.ids[q] = g.ids[q]
    PROVE  Pins(keys, h) = Pins(keys, g)
<1>1. Refs(keys, h) = Refs(keys, g)
  <2>1. "trade" \notin Keys
    BY DEF Keys
  <2> QED
    BY <2>1, RefsStay
<1>2. \A q \in {"set", "discount", "projection", "credit", "vol", "model", "index"} : h.ids[q] = g.ids[q]
  BY DEF Parts, Keys
<1>3. Pins(keys, h) = Pins(keys, g)
  BY <1>1, <1>2, Zenon DEF Pins
<1> QED
  BY <1>3

\* A request of a save that succeeds: the graph built agrees with the rows.
\* The request of job j for part p answers with row i and makes its graph h.
Answered(t, j, p, i, h) ==
    j = job[t] /\ p = Head(j.left) /\ i = Target(j, p) /\ h = Naming(j.next, p, i)

LEMMA BuiltFits ==
    ASSUME IInv, FInv, NEW t \in T, Persist(t),
           NEW j, NEW p, NEW i, NEW h, Answered(t, j, p, i, h)
    PROVE  /\ Sorted(h)' /\ Agrees(h, j.keys)'
           /\ LET req == Requests(product, j.keys)
                  d == Len(req) - Len(j.left)
              IN  \A q \in Parts : (h.ids[q] # NoId) <=> (\E m \in 1..(d + 1) : req[m] = q)
           /\ Stamped(h) => Full(h, j.keys)
<1> DEFINE g == job[t].next
           keys == job[t].keys
           req == Requests(product, keys)
           d == Len(req) - Len(job[t].left)
           w == Written(job[t], p)
<1>1. /\ job[t].step = "persist" /\ Write(job[t], p) /\ p = Head(job[t].left)
      /\ i = Target(job[t], p) /\ product' = product
      /\ j = job[t] /\ h = Naming(g, p, i)
  BY DEF Persist, Answered
<1>2. /\ rows' \in Seq(Row) /\ RowPut(i, w) /\ i # NoId
      /\ i \in DOMAIN rows => rows[i].part = p
  BY <1>1, PutIs
<1>3. /\ w.part = p /\ w.edit = job[t].save
      /\ p = "set" => w.refs = Refs(keys, g)
      /\ p = "trade" => w.block = Pins(keys, g)
  BY <1>1, WrittenIs
<1>4. /\ keys \in CurveKeys(product) /\ d \in Nat /\ p \in Parts /\ p = req[d + 1]
      /\ (p = "trade") <=> (d + 1 = Len(req))
      /\ \A q \in Parts : (g.ids[q] # NoId) <=> (\E m \in 1..d : req[m] = q)
      /\ g.ids["set"] # NoId => p \notin Keys
      /\ g.ids["trade"] = NoId
  BY <1>1, Place
<1>5. /\ product \in Pages /\ g \in Graph /\ g.save = job[t].save /\ RowsOf(g) \subseteq DOMAIN rows
  BY <1>1, OwnGraphs, HeldRows DEF IInv, Shaped, JobOK
<1>6. Sorted(g) /\ Agrees(g, keys)
  BY <1>1, OwnGraphs DEF FInv, Progress, GraphsOK, GraphOK
<1>7. h.save = g.save /\ h.ids[p] = i /\ \A q \in Parts \ {p} : h.ids[q] = g.ids[q]
  BY <1>1, <1>4, <1>5 DEF Naming, Graph
<1> HIDE DEF w, g, keys
<1>8. rows'[i] = w
  BY <1>2 DEF RowPut
<1>9. ASSUME NEW q \in Parts \ {p}, g.ids[q] # NoId
      PROVE  rows'[h.ids[q]] = rows[g.ids[q]] /\ rows[g.ids[q]].part = q
  <2>1. g.ids[q] \in DOMAIN rows /\ rows[g.ids[q]].part = q
    BY <1>5, <1>6, <1>9 DEF RowsOf, Sorted
  <2>2. g.ids[q] # i
    BY <1>2, <2>1
  <2> QED
    BY <1>2, <1>7, <2>1, <2>2 DEF RowPut
<1>10. Sorted(h)'
  <2>1. \A q \in Parts : h.ids[q] # NoId => rows'[h.ids[q]].part = q
    BY <1>3, <1>7, <1>8, <1>9
  <2> QED
    BY <2>1 DEF Sorted
<1>11. "set" \in Parts \ (Keys \cup {"trade"}) /\ "trade" \in Parts \ Keys
  BY DEF Parts, Keys
<1>12. ASSUME h.ids["set"] # NoId, rows'[h.ids["set"]].edit = h.save
       PROVE  rows'[h.ids["set"]].refs = Refs(keys, h)
  <2>1. p \notin Keys
    BY <1>4, <1>7, <1>11, <1>12
  <2>2. Refs(keys, h) = Refs(keys, g)
    <3>1. product \in Pages /\ keys \in CurveKeys(product)
      BY <1>4, <1>5
    <3>2. (\A q \in Parts \ {p} : h.ids[q] = g.ids[q]) /\ p \notin Keys
      BY <1>7, <2>1
    <3> QED
      BY <3>1, <3>2, RefsStay, ZenonT(30)
  <2>3. CASE p = "set"
    BY <1>3, <1>7, <1>8, <2>2, <2>3
  <2>4. CASE p # "set"
    <3>1. "set" \in Parts \ {p} /\ h.ids["set"] = g.ids["set"]
      BY <1>7, <1>11, <2>4
    <3>2. rows'[h.ids["set"]] = rows[g.ids["set"]] /\ g.ids["set"] # NoId
      BY <1>9, <1>12, <3>1
    <3>3. Latest(g, "set")
      BY <1>7, <1>12, <3>2 DEF Latest
    <3> QED
      BY <1>6, <2>2, <3>2, <3>3 DEF Agrees
  <2> QED
    BY <2>3, <2>4
<1>13. h.ids["trade"] # NoId => p = "trade"
  BY <1>4, <1>7, <1>11
<1>14. ASSUME h.ids["trade"] # NoId
       PROVE  rows'[h.ids["trade"]].block = Pins(keys, h)
  <2>1. p = "trade"
    BY <1>13, <1>14
  <2>2. Pins(keys, h) = Pins(keys, g)
    BY <1>4, <1>5, <1>7, <2>1, PinsStay
  <2> QED
    BY <1>3, <1>7, <1>8, <2>1, <2>2
<1>15. Agrees(h, j.keys)'
  <2>1. PICK k : k = keys /\ k = j.keys
    BY <1>1 DEF keys
  <2>2. Refs(k, h)' = Refs(k, h) /\ Pins(k, h)' = Pins(k, h)
    BY <1>1 DEF Refs, Pins
  <2>3. Agrees(h, k)'
    BY <1>12, <1>14, <2>1, <2>2 DEF Agrees, Latest
  <2> QED
    BY <2>1, <2>3
<1>16. \A q \in Parts : (h.ids[q] # NoId) <=> (\E m \in 1..(d + 1) : req[m] = q)
  <2> HIDE DEF d, req
  <2>1. \A m \in 1..(d + 1) : m = d + 1 \/ m \in 1..d
    BY <1>4
  <2>2. d + 1 \in 1..(d + 1) /\ \A m \in 1..d : m \in 1..(d + 1)
    BY <1>4
  <2> QED
    BY <1>2, <1>4, <1>7, <2>1, <2>2
<1>17. Stamped(h) => Full(h, keys)
  <2> SUFFICES ASSUME Stamped(h) PROVE Full(h, keys)
    OBVIOUS
  <2>1. d + 1 = Len(req)
    BY <1>4, <1>13 DEF Stamped
  <2>2. DOMAIN req = 1..Len(req)
    <3>1. req \in Seq(Parts)
      BY <1>4, <1>5, RequestsAre
    <3> HIDE DEF req
    <3> QED
      BY <3>1
  <2> HIDE DEF d
  <2>3. \A q \in Parts : (h.ids[q] # NoId) <=> (\E m \in DOMAIN req : req[m] = q)
    BY <1>16, <2>1, <2>2
  <2> QED
    BY <2>3 DEF Full
<1> QED
  BY <1>1, <1>10, <1>15, <1>16, <1>17 DEF g, keys

LEMMA PersistFits ==
    ASSUME IInv, FInv, NEW t \in T, Persist(t)
    PROVE  FInv'
<1>0. PICK j, p, i, h : Answered(t, j, p, i, h)
  BY DEF Answered
<1>2. /\ Sorted(h)' /\ Agrees(h, j.keys)'
      /\ LET req == Requests(product, j.keys)
             d == Len(req) - Len(j.left)
         IN  \A q \in Parts : (h.ids[q] # NoId) <=> (\E m \in 1..(d + 1) : req[m] = q)
      /\ Stamped(h) => Full(h, j.keys)
  BY <1>0, BuiltFits
<1>1. j = job[t] /\ p = Head(j.left) /\ i = Target(j, p) /\ h = Naming(j.next, p, i)
  BY <1>0 DEF Answered
<1>3. /\ Worked(t) /\ job'[t].next = h /\ job'[t].left = Tail(j.left)
      /\ job'[t].step = IF p = "trade" THEN "store" ELSE "persist"
      /\ job'[t].prior = j.prior /\ job'[t].keys = j.keys
  BY <1>1, PersistIs
<1>4. j.step = "persist" /\ Write(j, p)
  BY <1>1 DEF Persist
<1>5. /\ UNCHANGED <<product, entries, cache, page, origin>>
      /\ \A u \in T \ {t} : job'[u] = job[u]
  BY <1>3 DEF Worked
<1>6. /\ rows' \in Seq(Row)
      /\ \A x \in Claimants : \A g \in Held(x) : g.save # j.save => Spared(g)
  BY <1>1, <1>4, PutIs
<1>7. GraphOK(h)'
  <2>1. j.keys \in CurveKeys(product)
    BY <1>1, <1>4, Place
  <2>2. j.keys \in CurveKeys(product)' /\ Full(h, j.keys)' = Full(h, j.keys)
    BY <1>5, <2>1 DEF CurveKeys, Full, Requests, Leaves
  <2> QED
    BY <1>2, <2>2 DEF GraphOK, Stamped
<1>8. \A x \in Claimants : \A g \in Held(x)' :
         (\E y \in Claimants : g \in Held(y) /\ Spared(g)) \/ GraphOK(g)'
  <2>1. \A x \in Claimants : \A g \in Held(x)' : (g \in Held(x) /\ g.save # j.save) \/ g = h
    BY <1>1, <1>3, <1>4, <1>5, WritingHeld
  <2> QED
    BY <1>6, <1>7, <2>1
<1>9. \A u \in T \ {t} : Spared(job[u].next)
  BY <1>1, <1>4, <1>6, OwnGraphs DEF IInv, Sole
<1>10. Progress(t)'
  <2> DEFINE req == Requests(product, j.keys)
             d == Len(req) - Len(j.left)
             rest == Tail(j.left)
  <2>1. /\ j.keys \in CurveKeys(product) /\ d \in Nat /\ Len(req) \in Nat
        /\ Len(rest) = Len(req) - (d + 1)
        /\ \A m \in 1..Len(rest) : rest[m] = req[(d + 1) + m]
    BY <1>1, <1>4, Place
  <2>2. req' = req /\ CurveKeys(product)' = CurveKeys(product)
    BY <1>5 DEF Requests, CurveKeys, Leaves
  <2>3. \A q \in Parts : (h.ids[q] # NoId) <=> (\E m \in 1..(d + 1) : req[m] = q)
    BY <1>2
  <2> HIDE DEF d, rest
  <2>4. Len(req) - Len(rest) = d + 1 /\ d + 1 \in Nat
    BY <2>1
  <2>5. (j.keys \in CurveKeys(product) /\ Agrees(h, j.keys))'
    BY <1>2, <2>1, <2>2
  <2>6. (/\ j.keys \in CurveKeys(product) /\ Len(req) - Len(rest) \in Nat
         /\ \A m \in 1..Len(rest) : rest[m] = req[(Len(req) - Len(rest)) + m]
         /\ \A q \in Parts : (h.ids[q] # NoId) <=> (\E m \in 1..(Len(req) - Len(rest)) : req[m] = q)
         /\ Agrees(h, j.keys))'
    BY <2>1, <2>2, <2>3, <2>4, <2>5
  <2>7. job'[t].left = rest /\ job'[t].next = h /\ job'[t].keys = j.keys
    BY <1>3 DEF rest
  <2> HIDE DEF rest
  <2> QED
    BY <2>6, <2>7 DEF Progress
<1> QED
  BY <1>5, <1>6, <1>8, <1>9, <1>10, FInvStep

LEMMA NextFInv == IInv /\ FInv /\ [Next]_vars => FInv'
<1> SUFFICES ASSUME IInv, FInv, [Next]_vars PROVE FInv'
  OBVIOUS
<1>1. CASE UNCHANGED vars
  <2>1. UNCHANGED <<product, entries, cache, page, job, saves, rows, origin>>
    BY <1>1 DEF vars
  <2> QED
    BY <2>1, RowsSame, DeleteRowFits
<1>2. ASSUME NEW t \in T,
             Reload(t) \/ New(t) \/ \E e \in Entries : Open(t, e) \/ Delete(t, e)
      PROVE  FInv'
  BY <1>2, MovesFit
<1>3. ASSUME NEW t \in T, StartSave(t) PROVE FInv'
  BY <1>3, StartSaveFits
<1>4. ASSUME NEW t \in T, Persist(t) PROVE FInv'
  BY <1>4, PersistFits
<1>5. ASSUME NEW t \in T, PersistFails(t) PROVE FInv'
  BY <1>5, PersistFailsFits
<1>6. ASSUME NEW t \in T, Store(t) \/ StoreFails(t) PROVE FInv'
  BY <1>6, StoreFits
<1>7. ASSUME NEW i \in Ids, DeleteRow(i) PROVE FInv'
  <2>1. UNCHANGED <<product, entries, cache, page, job, saves, origin>> /\ RowsKept
    BY <1>7, RowDead DEF DeleteRow
  <2> QED
    BY <2>1, DeleteRowFits
<1>8. ASSUME NEW t \in T, NEW e \in Entries, Duplicate(t, e) PROVE FInv'
  BY <1>8, DuplicateFits
<1> QED
  BY <1>1, <1>2, <1>3, <1>4, <1>5, <1>6, <1>7, <1>8 DEF Next, T

LEMMA FInvariance == Spec => [](IInv /\ FInv)
<1>1. Init => IInv /\ FInv
  BY InitIInv, InitFInv
<1>2. IInv /\ FInv /\ [Next]_vars => (IInv /\ FInv)'
  BY NextIInv, NextFInv
<1> QED
  BY <1>1, <1>2, PTL DEF Spec

\* The rows a sorted graph names for its parts differ.
LEMMA RowsByPart ==
    ASSUME NEW g, Sorted(g)
    PROVE  RowsOf(g) \ {g.ids["trade"], g.ids["set"]}
              = {g.ids[p] : p \in Parts \ {"set", "trade"}} \ {NoId}
<1>1. \A p, q \in Parts : g.ids[p] # NoId /\ g.ids[p] = g.ids[q] => p = q
  BY DEF Sorted
<1>2. {"set", "trade"} \subseteq Parts
  BY DEF Parts
<1>3. ASSUME NEW p \in Parts, g.ids[p] # NoId
      PROVE  g.ids[p] \in {g.ids["trade"], g.ids["set"]} <=> p \in {"set", "trade"}
  BY <1>1, <1>2, <1>3
<1> QED
  BY <1>3 DEF RowsOf

LEMMA SavedPrices == IInv /\ FInv => PricesAsSaved
<1> SUFFICES ASSUME IInv, FInv, NEW e \in DOMAIN entries, Stamped(entries[e].graph),
                    \A i \in RowsOf(entries[e].graph) : rows[i].edit = entries[e].graph.save
             PROVE  LET g == entries[e].graph
                        b == rows[g.ids["trade"]].block
                        set == IF NeedsSet(ByReference, b) THEN rows[b.set].refs ELSE <<>>
                        plan == Reads(ByReference, b, set)
                    IN  /\ Curves(ByReference, b, set) = Meant(g)
                        /\ {plan[k] : k \in DOMAIN plan} = RowsOf(g) \ {g.ids["trade"], g.ids["set"]}
  BY DEF PricesAsSaved
<1> DEFINE g == entries[e].graph
           b == rows[g.ids["trade"]].block
           set == IF NeedsSet(ByReference, b) THEN rows[b.set].refs ELSE <<>>
<1>1. Stamped(g) /\ \A i \in RowsOf(g) : rows[i].edit = g.save
  OBVIOUS
<1>2. product \in Pages /\ Entry(e) \in Claimants /\ g \in Held(Entry(e))
  BY HeldIs, EntryClaims DEF IInv, Shaped
<1>3. GraphOK(g) /\ g \in Graph
  BY <1>2, HeldRows DEF FInv, GraphsOK
<1>4. PICK keys \in CurveKeys(product) : Agrees(g, keys) /\ Full(g, keys)
  BY <1>1, <1>3 DEF GraphOK
<1>5. \A p \in {"set", "trade"} : g.ids[p] # NoId => Latest(g, p)
  BY <1>1 DEF Latest, RowsOf, Parts
<1>6. b = Pins(keys, g)
  BY <1>1, <1>4, <1>5 DEF Agrees, Stamped
<1>7. b.set = g.ids["set"]
  BY <1>6, PinsAre
<1>8. NeedsSet(ByReference, b) => g.ids["set"] # NoId
  <2>1. product \notin {"equity_option", "swap_inflation"} => "set" \in Ran(Leaves(product))
    <3>1. product \in {"swap_ir", "swaption", "bond_fixed", "bond_floating", "cds",
                       "equity_option", "swap_inflation"}
      BY <1>2, PortalAssumption DEF Products
    <3> QED
      BY <3>1, RanShort DEF Leaves
  <2>2. "set" \in Ran(Leaves(product)) => g.ids["set"] # NoId
    BY <1>2, <1>4, FullParts DEF Parts
  <2>3. product \in {"equity_option", "swap_inflation"} => ~NeedsSet(ByReference, b)
    BY AskFacts DEF NeedsSet
  <2> QED
    BY <2>1, <2>2, <2>3
<1>9. set = IF NeedsSet(ByReference, b) THEN Refs(keys, g) ELSE <<>>
  BY <1>4, <1>5, <1>7, <1>8 DEF Agrees
<1>10. Fits(g, keys)
  BY <1>2, <1>3, <1>4, AllFit
<1>11. /\ Curves(ByReference, b, set) = Meant(g)
       /\ Ran(Reads(ByReference, b, set)) = {g.ids[p] : p \in Parts \ {"set", "trade"}} \ {NoId}
  BY <1>6, <1>9, <1>10 DEF Fits
<1>12. RowsOf(g) \ {g.ids["trade"], g.ids["set"]} = {g.ids[p] : p \in Parts \ {"set", "trade"}} \ {NoId}
  BY <1>3, RowsByPart DEF GraphOK
<1> HIDE DEF g, b, set
<1>13. /\ Curves(ByReference, b, set) = Meant(g)
       /\ Ran(Reads(ByReference, b, set)) = RowsOf(g) \ {g.ids["trade"], g.ids["set"]}
  BY <1>11, <1>12
<1> QED
  BY <1>13 DEF g, b, set, Ran

\* The state has its type, for any number of tabs, entries, rows and saves; a row's
\* list and block hold references only, none of a curve that was never created.
THEOREM TypeCorrect == Spec => []TypeOK
<1>1. IInv /\ FInv => TypeOK
  BY DEF IInv, Shaped, FInv, TypeOK, T
<1> QED
  BY <1>1, FInvariance, PTL

\* On every page, a saved trade whose rows nobody touched since prices by reference
\* from exactly the rows its save wrote, each curve in the role the page gave it:
\* what persist*Graph writes part by part is what the assemblers read back.
THEOREM PricesByReference == Spec => []PricesAsSaved
BY FInvariance, SavedPrices, PTL
=============================================================================
