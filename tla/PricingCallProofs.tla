-------------------------- MODULE PricingCallProofs --------------------------
(***************************************************************************)
(* What PricingCall's runs show on one call and four rows, for any number  *)
(* of calls, rows and products: a call prices rows that were current while *)
(* it ran, and its audit row agrees with what its client was told.  The    *)
(* argument is one inductive invariant in four parts: the ledger's, and    *)
(* per call that of its reads, of its answer and of its trade's version.   *)
(***************************************************************************)
EXTENDS PricingCall, SubsequencesProofs

Changes == {"create", "amend", "delete", "restore"}
Entries == [change : Changes, row : Rows]

\* A row is the last entry of its trail.
LedgerOK ==
    /\ rows \in [Ids -> Rows \cup {NoRow}]
    /\ trail \in [Ids -> Seq(Entries)]
    /\ \A i \in Ids : rows[i] # NoRow =>
          /\ Len(trail[i]) > 0
          /\ trail[i][Len(trail[i])].row = rows[i]

\* What the rest of the argument needs to know of a store step.
Extends ==
    \A i \in Ids :
        /\ Len(trail[i]) <= Len(trail'[i])
        /\ \A n \in 1..Len(trail[i]) : trail'[i][n] = trail[i][n]
        /\ rows[i] # NoRow => rows'[i] # NoRow /\ rows'[i].owner = rows[i].owner

LEMMA RowFacts == NoRow \notin Rows /\ Saved \in [Ids -> Rows \cup {NoRow}]
BY PricingAssumption

LEMMA Flipped ==
    ASSUME NEW r \in Rows, NEW l \in BOOLEAN
    PROVE  [r EXCEPT !.live = l] \in Rows /\ [r EXCEPT !.live = l].owner = r.owner
BY PricingAssumption

LEMMA InitStore ==
    ASSUME Init
    PROVE  /\ rows = Saved
           /\ trail = [i \in Ids |-> IF Saved[i] = NoRow THEN <<>>
                                      ELSE <<Store!Entry("create", Saved[i])>>]
BY DEF Init, Store!Init

LEMMA InitLedger == Init => LedgerOK
<1> SUFFICES ASSUME Init PROVE LedgerOK
  OBVIOUS
<1>1. rows \in [Ids -> Rows \cup {NoRow}]
  BY RowFacts, InitStore
<1>2. ASSUME NEW i \in Ids, Saved[i] # NoRow
      PROVE  /\ trail[i] \in Seq(Entries)
             /\ Len(trail[i]) = 1 /\ trail[i][1].row = rows[i]
  <2>1. rows[i] = Saved[i] /\ trail[i] = <<Store!Entry("create", Saved[i])>>
    BY <1>2, InitStore
  <2>2. Saved[i] \in Rows
    BY <1>1, <1>2, <2>1
  <2>3. Store!Entry("create", Saved[i]) = [change |-> "create", row |-> Saved[i]]
    BY Zenon DEF Store!Entry
  <2>4. Store!Entry("create", Saved[i]) \in Entries /\ Store!Entry("create", Saved[i]).row = Saved[i]
    BY <2>2, <2>3 DEF Changes, Entries
  <2> DEFINE first == Store!Entry("create", Saved[i])
  <2>5. first \in Entries /\ first.row = rows[i] /\ trail[i] = <<first>>
    BY <2>1, <2>4
  <2> HIDE DEF first
  <2> QED
    BY <2>5
<1>3. ASSUME NEW i \in Ids, Saved[i] = NoRow
      PROVE  trail[i] \in Seq(Entries) /\ rows[i] = NoRow
  <2>1. rows[i] = Saved[i] /\ trail[i] = <<>>
    BY <1>3, InitStore
  <2> QED
    BY <1>3, <2>1
<1>4. trail \in [Ids -> Seq(Entries)]
  <2>1. trail = [i \in Ids |-> trail[i]]
    BY InitStore
  <2>2. \A i \in Ids : trail[i] \in Seq(Entries)
    BY <1>2, <1>3
  <2> QED
    BY <2>1, <2>2
<1> QED
  BY <1>1, <1>2, <1>3, <1>4, InitStore DEF LedgerOK

\* One more entry in the trail of every row of S, the other rows left alone.
LEMMA Recorded ==
    ASSUME LedgerOK, NEW S, NEW r \in [Ids -> Rows], NEW change \in Changes,
           \A i \in Ids \cap S : rows[i] # NoRow => r[i].owner = rows[i].owner,
           rows' = [i \in Ids |-> IF i \in S THEN r[i] ELSE rows[i]],
           trail' = [i \in Ids |-> IF i \in S THEN Append(trail[i], Store!Entry(change, r[i]))
                                   ELSE trail[i]]
    PROVE  LedgerOK' /\ Extends
<1>1. ASSUME NEW i \in Ids
      PROVE  /\ trail[i] \in Seq(Entries)
             /\ Store!Entry(change, r[i]) \in Entries
             /\ Store!Entry(change, r[i]).row = r[i]
             /\ r[i] \in Rows /\ r[i] # NoRow
  BY RowFacts DEF LedgerOK, Store!Entry, Entries
<1>2. ASSUME NEW i \in Ids
      PROVE  /\ trail'[i] \in Seq(Entries)
             /\ Len(trail[i]) <= Len(trail'[i])
             /\ \A n \in 1..Len(trail[i]) : trail'[i][n] = trail[i][n]
  BY <1>1
<1>3. rows' \in [Ids -> Rows \cup {NoRow}]
  BY <1>1 DEF LedgerOK
<1>4. ASSUME NEW i \in Ids, rows'[i] # NoRow
      PROVE  Len(trail'[i]) > 0 /\ trail'[i][Len(trail'[i])].row = rows'[i]
  <2>1. CASE i \in S
    BY <1>1, <2>1
  <2>2. CASE i \notin S
    BY <1>4, <2>2 DEF LedgerOK
  <2> QED
    BY <2>1, <2>2
<1>5. ASSUME NEW i \in Ids, rows[i] # NoRow
      PROVE  rows'[i] # NoRow /\ rows'[i].owner = rows[i].owner
  BY <1>1, <1>5
<1>6. trail' \in [Ids -> Seq(Entries)]
  <2>1. trail' = [i \in Ids |-> trail'[i]]
    OBVIOUS
  <2> QED
    BY <1>2, <2>1
<1> QED
  BY <1>2, <1>3, <1>4, <1>5, <1>6 DEF LedgerOK, Extends

LEMMA StoreStepExtends == LedgerOK /\ StoreStep => LedgerOK' /\ Extends
<1> SUFFICES ASSUME LedgerOK, Store!Next PROVE LedgerOK' /\ Extends
  BY DEF StoreStep
<1>0. ASSUME NEW i \in Ids, NEW r \in Rows, NEW change \in Changes, Store!Record(i, change, r),
             rows[i] # NoRow => r.owner = rows[i].owner
      PROVE  LedgerOK' /\ Extends
  <2> DEFINE s == [j \in Ids |-> r]
  <2>1. rows' = [j \in Ids |-> IF j \in {i} THEN s[j] ELSE rows[j]]
    BY <1>0 DEF LedgerOK, Store!Record
  <2>2. trail' = [j \in Ids |-> IF j \in {i} THEN Append(trail[j], Store!Entry(change, s[j]))
                                ELSE trail[j]]
    BY <1>0 DEF LedgerOK, Store!Record
  <2>3. s \in [Ids -> Rows] /\ \A j \in Ids \cap {i} : rows[j] # NoRow => s[j].owner = rows[j].owner
    BY <1>0
  <2> HIDE DEF s
  <2> QED
    BY <2>1, <2>2, <2>3, Recorded
<1>1. ASSUME NEW i \in Ids, NEW r \in Rows, Store!Create(i, r) PROVE LedgerOK' /\ Extends
  BY <1>0, <1>1 DEF Store!Create, Changes
<1>2. ASSUME NEW i \in Ids, NEW r \in Rows, Store!Amend(i, r) PROVE LedgerOK' /\ Extends
  BY <1>0, <1>2 DEF Store!Amend, Changes
<1>3. ASSUME NEW i \in Ids, Store!Restore(i) PROVE LedgerOK' /\ Extends
  <2>1. rows[i] \in Rows
    BY <1>3 DEF Store!Restore, LedgerOK
  <2>2. [rows[i] EXCEPT !.live = TRUE] \in Rows /\ [rows[i] EXCEPT !.live = TRUE].owner = rows[i].owner
    BY <2>1, Flipped
  <2> QED
    BY <1>0, <1>3, <2>2 DEF Store!Restore, Changes
<1>4. ASSUME NEW i \in Ids, NEW S, Store!Delete(i, S) PROVE LedgerOK' /\ Extends
  <2> DEFINE gone(j) == [rows[j] EXCEPT !.live = FALSE]
             T == Ids \cap S
             r == [j \in Ids |-> IF j \in S THEN gone(j) ELSE CHOOSE x \in Rows : TRUE]
  <2>1. ASSUME NEW j \in T PROVE gone(j) \in Rows /\ gone(j).owner = rows[j].owner
    <3>1. rows[j] \in Rows
      BY <1>4 DEF Store!Delete, LedgerOK
    <3> QED
      BY <3>1, Flipped
  <2>2. CASE T = {}
    <3>1. rows' = rows /\ trail' = trail
      BY <1>4, <2>2 DEF Store!Delete, LedgerOK
    <3>2. \A i1 \in Ids : Len(trail[i1]) \in Nat
      BY DEF LedgerOK
    <3> QED
      BY <3>1, <3>2 DEF LedgerOK, Extends
  <2>3. CASE T # {}
    <3>1. r \in [Ids -> Rows]
      BY <2>1, <2>3
    <3>2. rows' = [j \in Ids |-> IF j \in S THEN r[j] ELSE rows[j]]
      BY <1>4 DEF Store!Delete
    <3>3. trail' = [j \in Ids |-> IF j \in S THEN Append(trail[j], Store!Entry("delete", r[j]))
                                  ELSE trail[j]]
      BY <1>4 DEF Store!Delete
    <3>4. \A j \in Ids \cap S : rows[j] # NoRow => r[j].owner = rows[j].owner
      BY <2>1
    <3> HIDE DEF r
    <3>5. "delete" \in Changes
      BY DEF Changes
    <3> QED
      BY <3>1, <3>2, <3>3, <3>4, <3>5, Recorded
  <2> QED
    BY <2>2, <2>3
<1> QED
  BY <1>1, <1>2, <1>3, <1>4 DEF Store!Next

-----------------------------------------------------------------------------
(* The invariant.                                                          *)

\* The sorts of what the argument asks of a call.
CallTypes ==
    /\ stage \in [Calls -> Stages]
    /\ ask \in [Calls -> Requests \cup {NoRequest}]
    /\ used \in [Calls -> [Ids -> Rows \cup {NoRow}]]
    /\ result \in [Calls -> Outcomes]
    /\ answer \in [Calls -> Answers]
    /\ begun \in [Calls -> [Ids -> Nat]]
    /\ loaded \in [Calls -> Nat]

\* A row that was read is an entry of its trail no older than the call.
ReadsOK(c) ==
    /\ stage[c] = "new" => \A i \in Ids : used[c][i] = NoRow
    /\ \A i \in Ids :
          /\ begun[c][i] <= Len(trail[i])
          /\ used[c][i] # NoRow =>
                /\ used[c][i].live
                /\ \E n \in begun[c][i]..Len(trail[i]) : n > 0 /\ trail[i][n].row = used[c][i]

\* Nothing is said or written before the record step, and then only once.
AnswersOK(c) ==
    /\ stage[c] # "done" => answer[c] = Says("none", FALSE)
    /\ stage[c] \notin {"record", "done"} => result[c] = "http_error"
    /\ stage[c] = "done" /\ result[c] = "priced" => answer[c].outcome \in {"priced", "lost"}
    /\ answer[c].id => \E h \in history : h.call = c /\ h.outcome = "priced"

\* The trade was the caller's when it was read, and still is.
Priceable(c) == \/ stage[c] \in {"set", "refs", "quotes", "engine"}
                \/ stage[c] = "record" /\ result[c] = "priced"
TradeOK(c) ==
    /\ stage[c] = "trade" => ask[c].trade # NoId
    /\ Priceable(c) /\ ask[c].trade # NoId =>
          LET i == ask[c].trade
          IN  /\ rows[i] # NoRow /\ rows[i].owner = Uid[c]
              /\ begun[c][i] <= loaded[c] /\ loaded[c] <= Len(trail[i])

HistoryOK ==
    /\ \A h \in history :
          /\ h.call \in Calls /\ stage[h.call] = "done"
          /\ answer[h.call].outcome \in {h.outcome, "lost"}
          /\ h.outcome = "priced" /\ h.trade # NoId =>
                /\ h.trade \in Ids /\ h.version \in Nat
                /\ begun[h.call][h.trade] <= loaded[h.call]
                /\ loaded[h.call] <= h.version /\ h.version <= Len(trail[h.trade])
    /\ \A g, h \in history : g.call = h.call => g = h

IInv ==
    /\ LedgerOK /\ CallTypes /\ HistoryOK
    /\ \A c \in Calls : ReadsOK(c) /\ AnswersOK(c) /\ TradeOK(c)

LEMMA TradeIsId ==
    ASSUME CallTypes, NEW c \in Calls
    PROVE  ask[c].trade \in Ids \cup {NoId}
<1>1. NoRequest.trade = NoId
  BY DEF NoRequest
<1>2. ASSUME NEW q \in Requests PROVE q.trade \in Ids \cup {NoId}
  BY TableAssumption
<1> QED
  BY <1>1, <1>2 DEF CallTypes

LEMMA InitIInv == Init => IInv
<1> SUFFICES ASSUME Init PROVE IInv
  OBVIOUS
<1>1. LedgerOK
  BY InitLedger
<1>2. CallTypes
  BY DEF Init, CallTypes, Stages, Outcomes, Answers, Says
<1>3. HistoryOK
  BY DEF Init, HistoryOK
<1>4. \A c \in Calls : ReadsOK(c)
  BY <1>1 DEF Init, ReadsOK, LedgerOK
<1>5. \A c \in Calls : AnswersOK(c)
  BY DEF Init, AnswersOK, Says
<1>6. \A c \in Calls : TradeOK(c)
  BY DEF Init, TradeOK, Priceable
<1> QED
  BY <1>1, <1>2, <1>3, <1>4, <1>5, <1>6 DEF IInv

-----------------------------------------------------------------------------
(* Steps of the store.                                                     *)

LEMMA StoreStepIInv == IInv /\ StoreStep => IInv'
<1> SUFFICES ASSUME IInv, StoreStep PROVE IInv'
  OBVIOUS
<1>1. LedgerOK' /\ Extends
  BY StoreStepExtends DEF IInv
<1>2. UNCHANGED <<call, history>>
  BY DEF StoreStep
<1>3. \A i \in Ids : Len(trail[i]) \in Nat /\ Len(trail'[i]) \in Nat
  BY <1>1 DEF IInv, LedgerOK
<1>4. CallTypes'
  BY <1>2 DEF IInv, CallTypes, call
<1>5. HistoryOK'
  <2>1. ASSUME NEW h \in history, h.outcome = "priced", h.trade # NoId
        PROVE  h.version <= Len(trail'[h.trade])
    BY <1>1, <1>3, <2>1 DEF IInv, HistoryOK, Extends
  <2> QED
    BY <1>2, <2>1 DEF IInv, HistoryOK, call
<1>6. ASSUME NEW c \in Calls PROVE ReadsOK(c)'
  <2>1. ASSUME NEW i \in Ids PROVE begun[c][i] \in Nat /\ begun[c][i] <= Len(trail'[i])
    <3>1. begun[c][i] \in Nat
      BY DEF IInv, CallTypes
    <3>2. begun[c][i] <= Len(trail[i])
      BY DEF IInv, ReadsOK
    <3> QED
      BY <1>1, <1>3, <3>1, <3>2 DEF Extends
  <2>2. ASSUME NEW i \in Ids, used[c][i] # NoRow
        PROVE  \E n \in begun[c][i]..Len(trail'[i]) : n > 0 /\ trail'[i][n].row = used[c][i]
    <3>1. PICK n \in begun[c][i]..Len(trail[i]) : n > 0 /\ trail[i][n].row = used[c][i]
      BY <2>2 DEF IInv, ReadsOK
    <3>2. n \in begun[c][i]..Len(trail'[i]) /\ n \in 1..Len(trail[i])
      BY <1>1, <1>3, <2>1, <3>1 DEF Extends
    <3> QED
      BY <1>1, <3>1, <3>2 DEF Extends
  <2> QED
    BY <1>2, <2>1, <2>2 DEF IInv, ReadsOK, call
<1>7. ASSUME NEW c \in Calls PROVE AnswersOK(c)'
  BY <1>2 DEF IInv, AnswersOK, call
<1>8. ASSUME NEW c \in Calls PROVE TradeOK(c)'
  <2>1. ask[c].trade # NoId => ask[c].trade \in Ids
    BY TradeIsId DEF IInv
  <2>2. loaded[c] \in Nat
    BY DEF IInv, CallTypes
  <2> QED
    BY <1>1, <1>2, <1>3, <2>1, <2>2 DEF IInv, TradeOK, Priceable, Extends, call
<1> QED
  BY <1>1, <1>4, <1>5, <1>6, <1>7, <1>8 DEF IInv

-----------------------------------------------------------------------------
(* Steps of a call.                                                        *)

\* The row a statement returns is the newest entry of its trail.
LEMMA VisibleIsCurrent ==
    ASSUME IInv, NEW c \in Calls, NEW i \in Ids, Visible(c, i)
    PROVE  /\ rows[i] # NoRow /\ rows[i].owner = Uid[c] /\ rows[i].live
           /\ Len(trail[i]) \in Nat /\ Len(trail[i]) > 0
           /\ trail[i][Len(trail[i])].row = rows[i]
           /\ begun[c][i] \in Nat /\ begun[c][i] <= Len(trail[i])
<1>1. Len(trail[i]) \in Nat
  BY DEF IInv, LedgerOK
<1>2. begun[c][i] \in Nat /\ begun[c][i] <= Len(trail[i])
  BY DEF IInv, CallTypes, ReadsOK
<1>3. rows[i] # NoRow /\ rows[i].owner = Uid[c] /\ rows[i].live
  BY DEF Visible
<1> QED
  BY <1>1, <1>2, <1>3 DEF IInv, LedgerOK

\* A call that neither reads nor begins keeps its reads.
LEMMA ReadsKept ==
    ASSUME IInv, UNCHANGED <<store, used, begun>>,
           \A d \in Calls : stage'[d] = "new" => stage[d] = "new"
    PROVE  \A d \in Calls : ReadsOK(d)'
BY DEF IInv, ReadsOK, store

LEMMA ReadsGrow ==
    ASSUME IInv, NEW c \in Calls, NEW i, Visible(c, i), Use(c, i),
           UNCHANGED <<store, begun>>, stage'[c] # "new",
           \A d \in Calls \ {c} : stage'[d] = stage[d]
    PROVE  /\ used' \in [Calls -> [Ids -> Rows \cup {NoRow}]]
           /\ \A d \in Calls : ReadsOK(d)'
<1>1. ASSUME NEW d \in Calls, NEW j \in Ids
      PROVE  used'[d][j] = IF d = c /\ j = i THEN rows[i] ELSE used[d][j]
  BY DEF Use, IInv, CallTypes
<1>2. used' \in [Calls -> [Ids -> Rows \cup {NoRow}]]
  <2>1. used' = [used EXCEPT ![c] = [used[c] EXCEPT ![i] = rows[i]]]
    BY DEF Use
  <2>2. used[c] \in [Ids -> Rows \cup {NoRow}]
    BY DEF IInv, CallTypes
  <2>3. [used[c] EXCEPT ![i] = rows[i]] \in [Ids -> Rows \cup {NoRow}]
    BY <2>2 DEF IInv, LedgerOK
  <2> QED
    BY <2>1, <2>3 DEF IInv, CallTypes
<1>3. ASSUME NEW d \in Calls PROVE ReadsOK(d)'
  <2>1. stage'[d] = "new" => \A j \in Ids : used'[d][j] = NoRow
    BY <1>1 DEF IInv, ReadsOK
  <2>2. ASSUME NEW j \in Ids
        PROVE  /\ begun[d][j] <= Len(trail[j])
               /\ used'[d][j] # NoRow =>
                     /\ used'[d][j].live
                     /\ \E n \in begun[d][j]..Len(trail[j]) :
                           n > 0 /\ trail[j][n].row = used'[d][j]
    <3>1. CASE d = c /\ j = i
      BY <1>1, <3>1, VisibleIsCurrent
    <3>2. CASE ~(d = c /\ j = i)
      BY <1>1, <3>2 DEF IInv, ReadsOK
    <3> QED
      BY <3>1, <3>2
  <2> QED
    BY <2>1, <2>2 DEF ReadsOK, store
<1> QED
  BY <1>2, <1>3

\* A step of one call that ends nothing leaves the history as it is.
LEMMA HistoryKept ==
    ASSUME IInv, UNCHANGED <<store, history, answer, begun>>,
           \A d \in Calls : stage[d] = "done" => stage'[d] = "done" /\ loaded'[d] = loaded[d]
    PROVE  HistoryOK'
BY DEF IInv, HistoryOK, store

LEMMA ArriveIInv == ASSUME IInv, NEW c \in Calls, Arrive(c) PROVE IInv'
<1> USE DEF Goto
<1>1. PICK q \in Requests :
          /\ ask' = [ask EXCEPT ![c] = q]
          /\ IF q.trade = NoId THEN Plan(c, q.with, q.inline) ELSE Goto(c, "trade") /\ UNCHANGED todo
  BY DEF Arrive
<1>2. /\ stage[c] = "new"
      /\ begun' = [begun EXCEPT ![c] = [i \in Ids |-> Len(trail[i])]]
      /\ UNCHANGED <<store, used, result, history, answer, loaded>>
  BY DEF Arrive
<1>3. PICK s \in {"trade", "set", "refs"} :
          stage' = [stage EXCEPT ![c] = s] /\ (s = "trade" <=> q.trade # NoId)
  BY <1>1 DEF Plan
<1>4. \A i \in Ids : Len(trail[i]) \in Nat
  BY DEF IInv, LedgerOK
<1>5. CallTypes'
  BY <1>1, <1>2, <1>3, <1>4 DEF IInv, CallTypes, Stages
<1>6. HistoryOK'
  BY <1>2, <1>3 DEF IInv, HistoryOK, CallTypes, store
<1>7. ASSUME NEW d \in Calls PROVE ReadsOK(d)'
  <2>1. CASE d = c
    BY <1>2, <1>3, <1>4, <2>1 DEF IInv, ReadsOK, CallTypes, store
  <2>2. CASE d # c
    BY <1>2, <1>3, <2>2 DEF IInv, ReadsOK, CallTypes, store
  <2> QED
    BY <2>1, <2>2
<1>8. ASSUME NEW d \in Calls PROVE AnswersOK(d)'
  BY <1>2, <1>3 DEF IInv, AnswersOK, CallTypes
<1>9. ASSUME NEW d \in Calls PROVE TradeOK(d)'
  <2>1. CASE d = c
    BY <1>1, <1>3, <2>1 DEF IInv, TradeOK, Priceable, CallTypes
  <2>2. CASE d # c
    BY <1>1, <1>2, <1>3, <2>2 DEF IInv, TradeOK, Priceable, CallTypes, store
  <2> QED
    BY <2>1, <2>2
<1>10. LedgerOK'
  BY <1>2 DEF IInv, LedgerOK, store
<1> QED
  BY <1>5, <1>6, <1>7, <1>8, <1>9, <1>10 DEF IInv

\* A structured error while reading, resolving quotes or pricing.
LEMMA RaiseIInv ==
    ASSUME IInv, NEW c \in Calls, stage[c] \notin {"new", "record", "done"}, Raise(c),
           UNCHANGED <<store, ask, used, history, answer, begun, loaded>>
    PROVE  IInv'
<1>1. stage' = [stage EXCEPT ![c] = "record"] /\ result' = [result EXCEPT ![c] = "http_error"]
  BY DEF Raise, Goto
<1>2. CallTypes'
  BY <1>1 DEF IInv, CallTypes, Stages, Outcomes
<1>3. HistoryOK'
  BY <1>1, HistoryKept DEF IInv, CallTypes
<1>4. \A d \in Calls : ReadsOK(d)'
  BY <1>1, ReadsKept DEF IInv, CallTypes
<1>5. \A d \in Calls : AnswersOK(d)'
  BY <1>1 DEF IInv, AnswersOK, CallTypes
<1>6. \A d \in Calls : TradeOK(d)'
  BY <1>1 DEF IInv, TradeOK, Priceable, CallTypes, store
<1>7. LedgerOK'
  BY DEF IInv, LedgerOK, store
<1> QED
  BY <1>2, <1>3, <1>4, <1>5, <1>6, <1>7 DEF IInv

LEMMA LoadTradeIInv == ASSUME IInv, NEW c \in Calls, LoadTrade(c) PROVE IInv'
<1> DEFINE i == ask[c].trade
<1>1. stage[c] = "trade" /\ UNCHANGED <<store, ask, history, answer, begun>>
  BY DEF LoadTrade
<1>2. CASE Raise(c) /\ UNCHANGED <<todo, used, loaded>>
  BY <1>1, <1>2, RaiseIInv
<1>3. CASE /\ Visible(c, i) /\ Use(c, i) /\ loaded' = [loaded EXCEPT ![c] = Len(trail[i])]
           /\ Plan(c, ask[c].with, Blocks[rows[i].body]) /\ UNCHANGED result
  <2>1. PICK s \in {"set", "refs"} : stage' = [stage EXCEPT ![c] = s]
    BY <1>3 DEF Plan, Goto
  <2>2. i \in Ids
    BY <1>1, TradeIsId DEF IInv, TradeOK
  <2>3. /\ used' \in [Calls -> [Ids -> Rows \cup {NoRow}]]
        /\ \A d \in Calls : ReadsOK(d)'
    BY <1>1, <1>3, <2>1, ReadsGrow DEF IInv, CallTypes
  <2>4. Len(trail[i]) \in Nat
    BY <2>2 DEF IInv, LedgerOK
  <2>5. CallTypes'
    BY <1>1, <1>3, <2>1, <2>3, <2>4 DEF IInv, CallTypes, Stages
  <2>6. HistoryOK'
    BY <1>1, <1>3, <2>1, HistoryKept DEF IInv, CallTypes
  <2>7. \A d \in Calls : AnswersOK(d)'
    BY <1>1, <1>3, <2>1 DEF IInv, AnswersOK, CallTypes
  <2>8. ASSUME NEW d \in Calls PROVE TradeOK(d)'
    <3>1. CASE d = c
      <4>1. /\ rows[i] # NoRow /\ rows[i].owner = Uid[c]
            /\ begun[c][i] <= Len(trail[i])
        BY <1>3, <2>2, VisibleIsCurrent
      <4>2. loaded'[c] = Len(trail[i]) /\ stage'[c] # "trade"
        BY <1>3, <2>1 DEF IInv, CallTypes
      <4> QED
        BY <1>1, <2>4, <3>1, <4>1, <4>2 DEF TradeOK, Priceable, store
    <3>2. CASE d # c
      BY <1>1, <1>3, <2>1, <3>2 DEF IInv, TradeOK, Priceable, CallTypes, store
    <3> QED
      BY <3>1, <3>2
  <2>9. LedgerOK'
    BY <1>1 DEF IInv, LedgerOK, store
  <2> QED
    BY <2>3, <2>5, <2>6, <2>7, <2>8, <2>9 DEF IInv
<1> QED
  BY <1>1, <1>2, <1>3 DEF LoadTrade

\* A row read on the way: the call stays among the stages before the engine.
LEMMA ReadIInv ==
    ASSUME IInv, NEW c \in Calls, NEW i, Visible(c, i), Use(c, i),
           NEW s \in {"set", "refs"}, stage[c] \in {"set", "refs"},
           stage' = [stage EXCEPT ![c] = s],
           UNCHANGED <<store, ask, result, history, answer, begun, loaded>>
    PROVE  IInv'
<1>1. /\ used' \in [Calls -> [Ids -> Rows \cup {NoRow}]]
      /\ \A d \in Calls : ReadsOK(d)'
  BY ReadsGrow DEF IInv, CallTypes
<1>2. CallTypes'
  BY <1>1 DEF IInv, CallTypes, Stages
<1>3. HistoryOK'
  BY HistoryKept DEF IInv, CallTypes
<1>4. \A d \in Calls : AnswersOK(d)'
  BY DEF IInv, AnswersOK, CallTypes
<1>5. \A d \in Calls : TradeOK(d)'
  BY DEF IInv, TradeOK, Priceable, CallTypes, store
<1>6. LedgerOK'
  BY DEF IInv, LedgerOK, store
<1> QED
  BY <1>1, <1>2, <1>3, <1>4, <1>5, <1>6 DEF IInv

LEMMA LoadSetIInv == ASSUME IInv, NEW c \in Calls, LoadSet(c) PROVE IInv'
<1> DEFINE i == BlockOf(c).set
<1>1. stage[c] = "set" /\ UNCHANGED <<store, ask, history, answer, begun, loaded>>
  BY DEF LoadSet
<1>2. CASE Raise(c) /\ UNCHANGED <<todo, used>>
  BY <1>1, <1>2, RaiseIInv
<1>3. CASE Visible(c, i) /\ Use(c, i) /\ Goto(c, "refs") /\ UNCHANGED result
  BY <1>1, <1>3, ReadIInv DEF Goto
<1> QED
  BY <1>2, <1>3 DEF LoadSet

LEMMA LoadNextIInv == ASSUME IInv, NEW c \in Calls, LoadNext(c) PROVE IInv'
<1> DEFINE i == Head(todo[c])
<1>1. stage[c] = "refs" /\ UNCHANGED <<store, ask, history, answer, begun, loaded>>
  BY DEF LoadNext
<1>2. CASE Raise(c) /\ UNCHANGED <<todo, used>>
  BY <1>1, <1>2, RaiseIInv
<1>3. CASE Visible(c, i) /\ Use(c, i) /\ UNCHANGED <<stage, result>>
  <2>1. stage' = [stage EXCEPT ![c] = "refs"]
    BY <1>1, <1>3 DEF IInv, CallTypes
  <2> QED
    BY <1>1, <1>3, <2>1, ReadIInv
<1> QED
  BY <1>2, <1>3 DEF LoadNext

\* A step within or into the stages up to "record" that reads nothing.
LEMMA AdvanceIInv ==
    ASSUME IInv, NEW c \in Calls, NEW s \in {"quotes", "engine", "record"},
           stage[c] \in {"refs", "quotes", "engine"},
           stage' = [stage EXCEPT ![c] = s],
           \/ result' = result
           \/ s = "record" /\ result' = [result EXCEPT ![c] = "priced"],
           UNCHANGED <<store, ask, used, history, answer, begun, loaded>>
    PROVE  IInv'
<1>1. CallTypes'
  BY DEF IInv, CallTypes, Stages, Outcomes
<1>2. HistoryOK'
  BY HistoryKept DEF IInv, CallTypes
<1>3. \A d \in Calls : ReadsOK(d)'
  BY ReadsKept DEF IInv, CallTypes
<1>4. ASSUME NEW d \in Calls PROVE AnswersOK(d)'
  <2>1. CASE d = c
    BY <2>1 DEF IInv, AnswersOK, CallTypes
  <2>2. stage'[d] = stage[d] /\ result'[d] = result[d] /\ AnswersOK(d) => AnswersOK(d)'
    BY DEF AnswersOK
  <2>3. CASE d # c
    BY <2>2, <2>3 DEF IInv, CallTypes
  <2> QED
    BY <2>1, <2>3
<1>5. \A d \in Calls : TradeOK(d)'
  BY DEF IInv, TradeOK, Priceable, CallTypes, store
<1>6. LedgerOK'
  BY DEF IInv, LedgerOK, store
<1> QED
  BY <1>1, <1>2, <1>3, <1>4, <1>5, <1>6 DEF IInv

LEMMA ResolveQuotesIInv == ASSUME IInv, NEW c \in Calls, ResolveQuotes(c) PROVE IInv'
<1>1. UNCHANGED <<store, ask, todo, used, history, answer, begun, loaded>>
  BY DEF ResolveQuotes
<1>2. CASE stage[c] = "refs" /\ Goto(c, "quotes") /\ UNCHANGED result
  BY <1>1, <1>2, AdvanceIInv DEF Goto
<1>3. CASE stage[c] = "quotes" /\ Goto(c, "engine") /\ UNCHANGED result
  BY <1>1, <1>3, AdvanceIInv DEF Goto
<1>4. CASE stage[c] = "quotes" /\ Raise(c)
  BY <1>1, <1>4, RaiseIInv
<1> QED
  BY <1>2, <1>3, <1>4 DEF ResolveQuotes

LEMMA CallEngineIInv == ASSUME IInv, NEW c \in Calls, CallEngine(c) PROVE IInv'
<1>1. stage[c] = "engine" /\ UNCHANGED <<store, ask, todo, used, history, answer, begun, loaded>>
  BY DEF CallEngine
<1>2. CASE Raise(c)
  BY <1>1, <1>2, RaiseIInv
<1>3. CASE Goto(c, "record") /\ result' = [result EXCEPT ![c] = "priced"]
  BY <1>1, <1>3, AdvanceIInv DEF Goto
<1> QED
  BY <1>2, <1>3 DEF CallEngine

\* The row a call writes when it was priced names a version of its trade no
\* older than the one it read.
LEMMA RowFits ==
    ASSUME IInv, NEW c \in Calls, stage[c] = "record"
    PROVE  /\ Row(c).call = c /\ Row(c).outcome = result[c] /\ Row(c).trade = ask[c].trade
           /\ result[c] = "priced" /\ ask[c].trade # NoId =>
                 /\ ask[c].trade \in Ids /\ Row(c).version \in Nat
                 /\ begun[c][ask[c].trade] <= loaded[c]
                 /\ loaded[c] <= Row(c).version
                 /\ Row(c).version <= Len(trail[ask[c].trade])
<1> DEFINE i == ask[c].trade
<1>1. Row(c).call = c /\ Row(c).outcome = result[c] /\ Row(c).trade = i
  BY DEF Row
<1>2. CASE result[c] = "priced" /\ i # NoId
  <2>1. i \in Ids
    BY <1>2, TradeIsId DEF IInv
  <2>2. /\ rows[i] # NoRow /\ rows[i].owner = Uid[c]
        /\ begun[c][i] <= loaded[c] /\ loaded[c] <= Len(trail[i])
    BY <1>2 DEF IInv, TradeOK, Priceable
  <2>3. Row(c).version = Len(trail[i])
    BY <1>2, <2>2 DEF Row, HeadVersion
  <2>4. Len(trail[i]) \in Nat
    BY <2>1 DEF IInv, LedgerOK
  <2> QED
    BY <1>1, <2>1, <2>2, <2>3, <2>4
<1> QED
  BY <1>1, <1>2

\* A call ends once, with at most one row; what it says is the row's outcome,
\* unless the process died.
LEMMA EndIInv ==
    ASSUME IInv, NEW c \in Calls, stage[c] \notin {"new", "done"},
           stage' = [stage EXCEPT ![c] = "done"],
           NEW o \in {"priced", "http_error", "internal_error", "lost"}, NEW id \in BOOLEAN,
           answer' = [answer EXCEPT ![c] = Says(o, id)],
           NEW new \in SUBSET {Row(c)}, history' = history \cup new,
           new # {} => stage[c] = "record" /\ o \in {result[c], "lost"},
           result[c] = "priced" => o \in {"priced", "lost"},
           id => new # {} /\ result[c] = "priced",
           UNCHANGED <<store, ask, used, result, begun, loaded>>
    PROVE  IInv'
<1>1. CallTypes'
  BY DEF IInv, CallTypes, Stages, Outcomes, Answers, Says
<1>2. answer'[c].outcome = o /\ answer'[c].id = id /\ stage'[c] = "done"
  BY DEF IInv, CallTypes, Says
<1>3. \A d \in Calls \ {c} : answer'[d] = answer[d] /\ stage'[d] = stage[d]
  BY DEF IInv, CallTypes
<1>4. \A h \in history : h.call \in Calls \ {c}
  BY DEF IInv, HistoryOK
<1>5. HistoryOK'
  <2>1. ASSUME NEW h \in history'
        PROVE  /\ h.call \in Calls /\ stage'[h.call] = "done"
               /\ answer'[h.call].outcome \in {h.outcome, "lost"}
               /\ h.outcome = "priced" /\ h.trade # NoId =>
                     /\ h.trade \in Ids /\ h.version \in Nat
                     /\ begun[h.call][h.trade] <= loaded[h.call]
                     /\ loaded[h.call] <= h.version /\ h.version <= Len(trail[h.trade])
    <3>1. CASE h \in history
      BY <1>3, <1>4, <3>1 DEF IInv, HistoryOK
    <3>2. CASE h \in new
      <4>1. h = Row(c) /\ stage[c] = "record" /\ o \in {result[c], "lost"}
        BY <3>2
      <4> QED
        BY <1>2, <4>1, RowFits
    <3> QED
      BY <3>1, <3>2
  <2>2. ASSUME NEW g \in history', NEW h \in history', g.call = h.call PROVE g = h
    <3>1. CASE g \in history /\ h \in history
      BY <2>2, <3>1 DEF IInv, HistoryOK
    <3>2. ASSUME NEW r \in new PROVE r = Row(c) /\ r.call = c
      BY <3>2 DEF Row
    <3> QED
      BY <1>4, <2>2, <3>1, <3>2
  <2> QED
    BY <2>1, <2>2 DEF HistoryOK, store
<1>6. \A d \in Calls : ReadsOK(d)'
  BY ReadsKept DEF IInv, CallTypes
<1>7. ASSUME NEW d \in Calls PROVE AnswersOK(d)'
  <2>1. CASE d = c
    <3>1. id => \E h \in history' : h.call = c /\ h.outcome = "priced"
      <4>1. ASSUME id PROVE Row(c) \in history' /\ Row(c).call = c /\ Row(c).outcome = "priced"
        BY <4>1 DEF Row
      <4> QED
        BY <4>1
    <3>2. result'[c] = "priced" => o \in {"priced", "lost"}
      OBVIOUS
    <3>3. answer'[c].id => \E h \in history' : h.call = c /\ h.outcome = "priced"
      BY <1>2, <3>1, Zenon
    <3>4. /\ stage'[c] = "done"
          /\ result'[c] = "priced" => answer'[c].outcome \in {"priced", "lost"}
      BY <1>2, <3>2
    <3>5. stage'[c] \in {"record", "done"}
      BY <3>4
    <3>6. AnswersOK(c)'
      BY <3>3, <3>4, <3>5, Zenon DEF AnswersOK
    <3> QED
      BY <2>1, <3>6
  <2>2. CASE d # c
    <3>1. answer'[d] = answer[d] /\ stage'[d] = stage[d] /\ AnswersOK(d)
      BY <1>3, <2>2 DEF IInv
    <3>2. answer'[d].id => \E h \in history' : h.call = d /\ h.outcome = "priced"
      <4>1. answer[d].id => \E h \in history : h.call = d /\ h.outcome = "priced"
        BY <3>1, Zenon DEF AnswersOK
      <4>2. history \subseteq history'
        OBVIOUS
      <4> QED
        BY <3>1, <4>1, <4>2, Zenon
    <3> QED
      BY <3>1, <3>2, Zenon DEF AnswersOK
  <2> QED
    BY <2>1, <2>2
<1>8. ASSUME NEW d \in Calls PROVE TradeOK(d)'
  <2>1. CASE d = c
    BY <1>2, <2>1 DEF TradeOK, Priceable
  <2>2. CASE d # c
    BY <1>3, <2>2 DEF IInv, TradeOK, Priceable, store
  <2> QED
    BY <2>1, <2>2
<1>9. LedgerOK'
  BY DEF IInv, LedgerOK, store
<1> QED
  BY <1>1, <1>5, <1>6, <1>7, <1>8, <1>9 DEF IInv

LEMMA RecordIInv == ASSUME IInv, NEW c \in Calls, Record(c) PROVE IInv'
<1>1. /\ stage[c] = "record" /\ stage' = [stage EXCEPT ![c] = "done"]
      /\ UNCHANGED <<store, ask, used, result, begun, loaded>>
      /\ result[c] \in {"priced", "http_error"}
  BY DEF Record, Goto, IInv, CallTypes, Outcomes
<1>2. CASE /\ history' = history \cup {Row(c)}
           /\ \E id \in {result[c] = "priced", FALSE} :
                 answer' = [answer EXCEPT ![c] = Says(result[c], id)]
  <2>1. PICK id \in {result[c] = "priced", FALSE} :
            answer' = [answer EXCEPT ![c] = Says(result[c], id)]
    BY <1>2
  <2>2. id \in BOOLEAN /\ (id => result[c] = "priced")
    BY <2>1
  <2>3. {Row(c)} \in SUBSET {Row(c)} /\ {Row(c)} # {}
    OBVIOUS
  <2> QED
    BY <1>1, <1>2, <2>1, <2>2, <2>3, EndIInv
<1>3. CASE UNCHANGED history /\ answer' = [answer EXCEPT ![c] = Says(result[c], FALSE)]
  <2>1. history' = history \cup {} /\ {} \in SUBSET {Row(c)} /\ FALSE \in BOOLEAN
    BY <1>3
  <2> QED
    BY <1>1, <1>3, <2>1, EndIInv
<1> QED
  BY <1>2, <1>3 DEF Record

LEMMA UnexpectedIInv == ASSUME IInv, NEW c \in Calls, Unexpected(c) PROVE IInv'
<1>1. /\ stage[c] \in {"trade", "set", "refs", "quotes"} /\ stage' = [stage EXCEPT ![c] = "done"]
      /\ answer' = [answer EXCEPT ![c] = Says("internal_error", FALSE)]
      /\ UNCHANGED <<store, ask, used, result, begun, loaded>>
      /\ history' = history \cup {} /\ {} \in SUBSET {Row(c)} /\ FALSE \in BOOLEAN
  BY DEF Unexpected, Reading, Goto
<1>2. result[c] = "http_error"
  BY <1>1 DEF IInv, AnswersOK
<1> QED
  BY <1>1, <1>2, EndIInv

LEMMA CrashIInv == ASSUME IInv, NEW c \in Calls, Crash(c) PROVE IInv'
<1>1. /\ stage[c] \notin {"new", "done"} /\ stage' = [stage EXCEPT ![c] = "done"]
      /\ answer' = [answer EXCEPT ![c] = Says("lost", FALSE)]
      /\ UNCHANGED <<store, ask, used, result, begun, loaded>>
  BY DEF Crash, Goto
<1>2. PICK new \in SUBSET {Row(c)} :
          history' = history \cup new /\ (new # {} => stage[c] = "record")
  <2>1. CASE UNCHANGED history
    BY <2>1
  <2>2. CASE stage[c] = "record" /\ history' = history \cup {Row(c)}
    BY <2>2
  <2> QED
    BY <2>1, <2>2 DEF Crash
<1>3. FALSE \in BOOLEAN
  OBVIOUS
<1> QED
  BY <1>1, <1>2, <1>3, EndIInv

LEMMA NextIInv == IInv /\ [Next]_vars => IInv'
<1> SUFFICES ASSUME IInv, [Next]_vars PROVE IInv'
  OBVIOUS
<1>1. CASE StoreStep
  BY <1>1, StoreStepIInv
<1>2. ASSUME NEW c \in Calls, Arrive(c) \/ Step(c) \/ Unexpected(c) \/ Crash(c) PROVE IInv'
  <2>1. CASE Arrive(c)
    BY <2>1, ArriveIInv
  <2>2. CASE LoadTrade(c) \/ LoadSet(c) \/ LoadNext(c)
    BY <2>2, LoadTradeIInv, LoadSetIInv, LoadNextIInv
  <2>3. CASE ResolveQuotes(c) \/ CallEngine(c) \/ Record(c)
    BY <2>3, ResolveQuotesIInv, CallEngineIInv, RecordIInv
  <2>4. CASE Unexpected(c) \/ Crash(c)
    BY <2>4, UnexpectedIInv, CrashIInv
  <2> QED
    BY <1>2, <2>1, <2>2, <2>3, <2>4 DEF Step
<1>3. CASE UNCHANGED vars
  <2>1. UNCHANGED <<store, stage, ask, used, result, answer, begun, loaded, history>>
    BY <1>3 DEF vars, call
  <2>2. LedgerOK' /\ CallTypes' /\ HistoryOK'
    BY <2>1 DEF IInv, LedgerOK, CallTypes, HistoryOK, store
  <2>3. \A c \in Calls : ReadsOK(c)' /\ AnswersOK(c)' /\ TradeOK(c)'
    <3> SUFFICES ASSUME NEW c \in Calls PROVE ReadsOK(c)' /\ AnswersOK(c)' /\ TradeOK(c)'
      OBVIOUS
    <3>1. ReadsOK(c)'
      BY <2>1 DEF IInv, ReadsOK, store
    <3>2. AnswersOK(c)'
      BY <2>1 DEF IInv, AnswersOK
    <3>3. TradeOK(c)'
      BY <2>1 DEF IInv, TradeOK, Priceable, store
    <3> QED
      BY <3>1, <3>2, <3>3
  <2> QED
    BY <2>2, <2>3 DEF IInv
<1> QED
  BY <1>1, <1>2, <1>3 DEF Next, AllEnded

LEMMA Inductive == Spec => []IInv
BY InitIInv, NextIInv, PTL DEF Spec

-----------------------------------------------------------------------------
(* What the assemblers choose and read.                                    *)

LEMMA PickFrom ==
    ASSUME NEW s \in Seq(CurveRef), NEW I \in SUBSET (1..Len(s)), NEW k \in Nat \ {0}
    PROVE  Pick(s, I, k) \in Named(s) \cup {NoId}
<1> DEFINE p == Picked(s, I)
<1>1. Len(p) \in Nat /\ \A n \in 1..Len(p) : \E i \in I : p[n] = s[i]
  BY PickedType, PickedElements
<1>2. Pick(s, I, k) = IF Len(p) < k THEN NoId ELSE p[k].id
  BY PickedType DEF Pick
<1> HIDE DEF p
<1>3. CASE Len(p) < k
  BY <1>2, <1>3
<1>4. CASE ~(Len(p) < k)
  <2>1. PICK i \in I : p[k] = s[i]
    BY <1>1, <1>4
  <2> QED
    BY <1>2, <1>4, <2>1 DEF Named
<1> QED
  BY <1>3, <1>4

LEMMA NthFrom ==
    ASSUME NEW s \in Seq(CurveRef), NEW k \in Nat \ {0}
    PROVE  Nth(s, k) \in Named(s) \cup {NoId}
BY PickFrom DEF Nth

\* Both roles of a floating bond come out of the list, or are left open.
LEMMA SplitFrom ==
    ASSUME NEW s \in Seq(CurveRef), NEW same \in BOOLEAN
    PROVE  /\ Split(s, same) = <<Split(s, same)[1], Split(s, same)[2]>>
           /\ \A k \in 1..2 : Split(s, same)[k] \in Named(s) \cup {NoId}
<1> DEFINE U == Unroled(s)
           d == Pick(s, {i \in DOMAIN s : s[i].role = "discount"}, 1)
           p == Pick(s, {i \in DOMAIN s : s[i].role = "projection"}, 1)
           two == IF Cardinality(U) = 1 THEN 1 ELSE 2
           u1 == Pick(s, U, 1)
           u2 == Pick(s, U, two)
<1>1. {d, p, u1, u2} \subseteq Named(s) \cup {NoId}
  <2>1. U \in SUBSET (1..Len(s)) /\ two \in Nat \ {0}
    BY DEF Unroled
  <2> HIDE DEF U, two
  <2>2. \A r : {i \in DOMAIN s : s[i].role = r} \in SUBSET (1..Len(s))
    OBVIOUS
  <2> QED
    BY <2>1, <2>2, PickFrom
<1>2. \/ Split(s, same) = <<d, p>>
      \/ Split(s, same) = <<Or(d, u1), Or(p, u2)>>
  BY DEF Split, Dealt
<1> HIDE DEF d, p, u1, u2
<1> QED
  BY <1>1, <1>2 DEF Or

LEMMA BucketFrom ==
    ASSUME NEW s \in Seq(CurveRef), NEW roles
    PROVE  /\ Bucket(s, roles) = <<Bucket(s, roles)[1], Bucket(s, roles)[2]>>
           /\ \A k \in 1..2 : Bucket(s, roles)[k] \in Named(s) \cup {NoId}
<1> DEFINE at(r) == {i \in DOMAIN s : RoleAt(s, i, roles) = r}
           rest == {i \in DOMAIN s : RoleAt(s, i, roles) \notin {roles[1], roles[2]}}
           last(r) == Pick(s, at(r), Cardinality(at(r)))
           second == IF at(roles[1]) = {} THEN 2 ELSE 1
<1>1. ASSUME NEW r, at(r) # {} PROVE last(r) \in Named(s) \cup {NoId}
  <2>1. at(r) \in SUBSET (1..Len(s)) /\ IsFiniteSet(at(r))
    BY FS_Interval, FS_Subset
  <2>2. Cardinality(at(r)) \in Nat \ {0}
    BY <1>1, <2>1, FS_CardinalityType, FS_EmptySet
  <2> HIDE DEF at
  <2> QED
    BY <2>1, <2>2, PickFrom
<1>2. rest \in SUBSET (1..Len(s)) /\ second \in Nat \ {0}
  OBVIOUS
<1> HIDE DEF rest, second
<1>3. {Pick(s, rest, 1), Pick(s, rest, second)} \subseteq Named(s) \cup {NoId}
  BY <1>2, PickFrom
<1>4. Bucket(s, roles) =
        <<IF at(roles[1]) # {} THEN last(roles[1]) ELSE Pick(s, rest, 1),
          IF at(roles[2]) # {} THEN last(roles[2]) ELSE Pick(s, rest, second)>>
  BY DEF Bucket, rest, second
<1> HIDE DEF at, last
<1> QED
  BY <1>1, <1>3, <1>4

\* All a call's blocks, overrides and curve set refer to.
Referred(q, b, m) == OfOverride(q) \cup OfBlock(b) \cup Named(m) \cup {NoId, Literal}

LEMMA ListFrom ==
    ASSUME NEW q \in Override, NEW b \in Block, NEW m \in Seq(CurveRef)
    PROVE  /\ CurveList(q, b, m) \in Seq(CurveRef)
           /\ Named(CurveList(q, b, m)) \subseteq Referred(q, b, m)
<1>1. q.curves \in Seq(CurveRef) /\ b.curves \in Seq(CurveRef)
  BY DEF Override, Block
<1>2. CurveList(q, b, m) \in {q.curves, b.curves, m}
  BY DEF CurveList
<1> QED
  BY <1>1, <1>2 DEF Referred, OfOverride, OfBlock

LEMMA FloatingFrom ==
    ASSUME NEW q \in Override, NEW b \in Block, NEW m \in Seq(CurveRef)
    PROVE  LET c == Projected(b, FloatingCurves(q, b, m))
           IN  c = <<c[1], c[2]>> /\ \A k \in 1..2 : c[k] \in Referred(q, b, m)
<1> DEFINE F == Referred(q, b, m)
           Pair(x) == x = <<x[1], x[2]>> /\ x[1] \in F /\ x[2] \in F
<1>1. /\ q.curves \in Seq(CurveRef) /\ b.curves \in Seq(CurveRef) /\ b.same \in BOOLEAN
      /\ Named(q.curves) \subseteq F /\ Named(b.curves) \subseteq F /\ Named(m) \subseteq F
      /\ {b.discount, b.forecast, NoId} \subseteq F
  BY DEF Override, Block, Referred, OfOverride, OfBlock
<1> HIDE DEF F
<1>2. Pair(Split(q.curves, b.same)) /\ Pair(Split(b.curves, b.same)) /\ Pair(Split(m, b.same))
  BY <1>1, SplitFrom
<1>3. \A x, y : x[1] \in F /\ x[2] \in F /\ y[1] \in F /\ y[2] \in F => Pair(Fill(x, y))
  BY DEF Fill, Or
<1>4. Pair(FloatingPins(q, b))
  BY <1>1, <1>2, <1>3 DEF FloatingPins, Shared
<1>5. Pair(FloatingCurves(q, b, m))
  BY <1>2, <1>3, <1>4 DEF FloatingCurves
<1>6. \A x : Pair(x) => Pair(Projected(b, x))
  BY DEF Projected
<1>7. Pair(Projected(b, FloatingCurves(q, b, m)))
  BY <1>5, <1>6
<1> QED
  BY <1>7 DEF F

\* The roles are filled from what is referred to.
LEMMA CurvesFrom ==
    ASSUME NEW q \in Override, NEW b \in Block, NEW m \in Seq(CurveRef)
    PROVE  LET c == Curves(q, b, m)
           IN  c = <<c[1], c[2]>> /\ \A k \in 1..2 : c[k] \in Referred(q, b, m)
<1> DEFINE list == CurveList(q, b, m)
           F == Referred(q, b, m)
           Pair(x) == x = <<x[1], x[2]>> /\ x[1] \in F /\ x[2] \in F
<1>1. list \in Seq(CurveRef) /\ Named(list) \subseteq F
  BY ListFrom
<1>2. {NoId, Literal, b.discount} \subseteq F
  BY DEF Referred, OfBlock
<1>3. Pair(Projected(b, FloatingCurves(q, b, m)))
  BY FloatingFrom
<1> HIDE DEF F
<1>4. Nth(list, 1) \in F /\ Nth(list, 2) \in F
  BY <1>1, <1>2, NthFrom
<1>5. \A roles : Pair(Bucket(list, roles))
  BY <1>1, <1>2, BucketFrom
<1>6. Pair(ByPlace(list)) /\ Pair(OneCurve(q, b, list))
  BY <1>2, <1>4 DEF ByPlace, OneCurve, Or
<1>7. \A x : Pair(x) => Pair(WithDividend(x))
  BY <1>2 DEF WithDividend, Or
<1>8. Curves(q, b, m) \in {ByPlace(list), OneCurve(q, b, list), WithDividend(Bucket(list, EquityRoles)),
                           Bucket(list, InflationRoles), Projected(b, FloatingCurves(q, b, m))}
  <2>1. q.product \in Products
    BY DEF Override
  <2> HIDE DEF list
  <2> QED
    BY <2>1 DEF Curves, Products, list
<1> HIDE DEF list
<1>9. Pair(Curves(q, b, m))
  BY <1>3, <1>5, <1>6, <1>7, <1>8
<1> QED
  BY <1>9 DEF F

\* The plan before inline definitions are left out of it.
PlanOf(q, b, m) == CurveReads(q, b, m) \o OtherReads(q, b)

\* Of a product's curves, what is missing makes the reading list raise, and what is
\* stored is on it.
LEMMA CurveReadsFrom ==
    ASSUME NEW q \in Override, NEW b \in Block, NEW m \in Seq(CurveRef)
    PROVE  LET r == CurveReads(q, b, m)
               c == Curves(q, b, m)
           IN  /\ r \in Seq(Referred(q, b, m))
               /\ \A k \in 1..2 : \/ c[k] = Literal
                                  \/ \E n \in 1..Len(r) : r[n] = c[k] \/ r[n] = NoId
<1> DEFINE F == Referred(q, b, m)
           c == Curves(q, b, m)
           list == CurveList(q, b, m)
           r == CurveReads(q, b, m)
<1>1. c = <<c[1], c[2]>> /\ c[1] \in F /\ c[2] \in F
  BY CurvesFrom
<1>2. list \in Seq(CurveRef) /\ Named(list) \subseteq F
  BY ListFrom
<1>3. NoId \in F
  BY DEF Referred
<1>4. /\ q.product = "bond_floating" =>
            r = IF Incomplete(c) THEN <<NoId>> ELSE IF c[1] = c[2] THEN <<c[1]>> ELSE c
      /\ q.product \in {"bond_fixed", "cds"} => r = <<c[1]>>
      /\ q.product \notin {"bond_floating", "bond_fixed", "cds"} =>
            r = IdsOf(list) \o (IF Incomplete(c) THEN <<NoId>> ELSE <<>>)
  BY DEF CurveReads
<1>5. q.product \in {"bond_fixed", "cds"} => c[1] = c[2]
  BY DEF Curves, OneCurve
<1>6. q.product \in {"swap_ir", "swaption", "fx_forward", "equity_option", "swap_inflation"} =>
        \A k \in 1..2 : c[k] \in Named(list) \cup {NoId, Literal}
  <2>1. ByPlace(list)[1] \in Named(list) \cup {NoId} /\ ByPlace(list)[2] \in Named(list) \cup {NoId}
    BY <1>2, NthFrom DEF ByPlace, Or
  <2>2. \A roles : \A k \in 1..2 : Bucket(list, roles)[k] \in Named(list) \cup {NoId}
    BY <1>2, BucketFrom
  <2>3. \A k \in 1..2 : WithDividend(Bucket(list, EquityRoles))[k] \in Named(list) \cup {NoId, Literal}
    BY <2>2 DEF WithDividend, Or
  <2>4. /\ q.product \in {"swap_ir", "swaption", "fx_forward"} => c = ByPlace(list)
        /\ q.product = "equity_option" => c = WithDividend(Bucket(list, EquityRoles))
        /\ q.product = "swap_inflation" => c = Bucket(list, InflationRoles)
    BY DEF Curves
  <2> HIDE DEF c, list
  <2> QED
    BY <2>1, <2>2, <2>3, <2>4
<1>7. /\ IdsOf(list) \in Seq(F) /\ Len(IdsOf(list)) = Len(list)
      /\ \A x \in Named(list) : \E n \in 1..Len(list) : IdsOf(list)[n] = x
  BY <1>2 DEF IdsOf, Named
<1> HIDE DEF F, c, list, r
<1>8. CASE q.product = "bond_floating"
  <2>1. CASE Incomplete(c)
    <3>1. r = <<NoId>>
      BY <1>4, <1>8, <2>1
    <3> QED
      BY <1>3, <3>1 DEF F, c, r
  <2>2. CASE ~Incomplete(c)
    <3>1. r = IF c[1] = c[2] THEN <<c[1]>> ELSE <<c[1], c[2]>>
      BY <1>1, <1>4, <1>8, <2>2
    <3>2. r \in Seq(F) /\ \A k \in 1..2 : \E n \in 1..Len(r) : r[n] = c[k]
      <4>1. CASE c[1] = c[2]
        BY <1>1, <3>1, <4>1
      <4>2. CASE c[1] # c[2]
        <5>1. r = <<c[1], c[2]>> /\ Len(r) = 2 /\ r[1] = c[1] /\ r[2] = c[2] /\ r \in Seq(F)
          BY <1>1, <3>1, <4>2
        <5> QED
          BY <5>1
      <4> QED
        BY <4>1, <4>2
    <3> QED
      BY <3>2 DEF F, c, r
  <2> QED
    BY <2>1, <2>2
<1>9. CASE q.product \in {"bond_fixed", "cds"}
  <2>1. r = <<c[1]>> /\ c[1] = c[2]
    BY <1>4, <1>5, <1>9
  <2>2. \A x \in F : <<x>> \in Seq(F) /\ Len(<<x>>) = 1 /\ <<x>>[1] = x
    OBVIOUS
  <2>3. r \in Seq(F) /\ 1 \in 1..Len(r) /\ \A k \in 1..2 : r[1] = c[k]
    <3>1. \A k \in 1..2 : k = 1 \/ k = 2
      OBVIOUS
    <3> QED
      BY <1>1, <2>1, <2>2, <3>1
  <2>4. r \in Seq(F) /\ \A k \in 1..2 : \E n \in 1..Len(r) : r[n] = c[k]
    BY <2>3
  <2> QED
    BY <2>4 DEF F, c, r
<1>10. CASE q.product \in {"swap_ir", "swaption", "fx_forward", "equity_option", "swap_inflation"}
  <2> DEFINE ids == IdsOf(list)
             tail == IF Incomplete(c) THEN <<NoId>> ELSE <<>>
  <2>1. r = ids \o tail /\ ids \in Seq(F) /\ tail \in Seq(F)
    BY <1>3, <1>4, <1>7, <1>10
  <2>2. Incomplete(c) => Len(tail) = 1 /\ tail[1] = NoId
    OBVIOUS
  <2>3. \A x \in Named(list) : \E n \in 1..Len(ids) : ids[n] = x
    BY <1>7
  <2>4. \A k \in 1..2 : c[k] \in Named(list) \cup {NoId, Literal}
    BY <1>6, <1>10
  <2>5. \A k \in 1..2 : c[k] = NoId => Incomplete(c)
    BY DEF Incomplete
  <2> HIDE DEF ids, tail
  <2>6. /\ r \in Seq(F)
        /\ \A n \in 1..Len(ids) : n \in 1..Len(r) /\ r[n] = ids[n]
        /\ Len(tail) = 1 => Len(ids) + 1 \in 1..Len(r) /\ r[Len(ids) + 1] = tail[1]
    BY <2>1
  <2>7. \A k \in 1..2 : c[k] = Literal \/ \E n \in 1..Len(r) : r[n] = c[k] \/ r[n] = NoId
    BY <2>2, <2>3, <2>4, <2>5, <2>6
  <2> QED
    BY <2>6, <2>7 DEF F, c, r
<1>11. q.product \in Products
  BY DEF Override
<1> QED
  BY <1>8, <1>9, <1>10, <1>11 DEF Products

LEMMA OtherReadsFrom ==
    ASSUME NEW q \in Override, NEW b \in Block, NEW m \in Seq(CurveRef)
    PROVE  OtherReads(q, b) \in Seq(Referred(q, b, m))
<1> DEFINE F == Referred(q, b, m)
<1>1. {NoId, q.vol, b.vol, q.model, b.model, q.credit, b.credit, q.index, b.index,
       q.spot, b.spot, q.snap} \subseteq F
  BY DEF Referred, OfOverride, OfBlock
<1> HIDE DEF F
<1>2. \A x \in F, y \in F : /\ Need(Or(x, y)) \in Seq(F)
                            /\ May(x) \in Seq(F) /\ May(Or(x, y)) \in Seq(F)
  BY <1>1 DEF Need, May, Or
<1>3. /\ SurfaceReads(q, b) \in Seq(F) /\ ModelReads(q, b) \in Seq(F)
      /\ CreditReads(q, b) \in Seq(F) /\ FloatingIndex(q, b) \in Seq(F)
      /\ InflationIndex(q, b) \in Seq(F) /\ SpotReads(q, b) \in Seq(F)
      /\ May(q.snap) \in Seq(F) /\ May(q.index) \in Seq(F) /\ May(Or(q.index, b.index)) \in Seq(F)
  BY <1>1, <1>2 DEF SurfaceReads, ModelReads, CreditReads, FloatingIndex, InflationIndex, SpotReads
<1>4. \A s, t \in Seq(F) : s \o t \in Seq(F)
  OBVIOUS
<1>5. OtherReads(q, b) \in Seq(F)
  BY <1>3, <1>4 DEF OtherReads
<1> QED
  BY <1>5 DEF F

\* A call reads only what is referred to, and no inline definition.
LEMMA ReadsFrom ==
    ASSUME NEW q \in Override, NEW b \in Block, NEW m \in Seq(CurveRef)
    PROVE  Reads(q, b, m) \in Seq(Referred(q, b, m) \ {Literal})
<1> DEFINE F == Referred(q, b, m)
           plan == PlanOf(q, b, m)
           kept == {k \in DOMAIN plan : plan[k] # Literal}
           stored == Picked(plan, kept)
<1>1. plan \in Seq(F)
  BY CurveReadsFrom, OtherReadsFrom DEF PlanOf
<1>2. NoId \in F \ {Literal}
  BY ReferenceAssumption DEF Referred
<1> HIDE DEF F, plan
<1>3. kept \in SUBSET (1..Len(plan)) /\ \A i \in kept : plan[i] # Literal
  BY <1>1
<1>4. Reads(q, b, m) = <<NoId>> \/ Reads(q, b, m) = stored
  BY DEF Reads, plan, PlanOf
<1> HIDE DEF kept
<1>5. stored \in Seq(F) /\ \A n \in 1..Len(stored) : stored[n] # Literal
  BY <1>1, <1>3, PickedType, PickedElements
<1> HIDE DEF stored
<1>6. stored \in Seq(F \ {Literal}) /\ <<NoId>> \in Seq(F \ {Literal})
  BY <1>2, <1>5
<1>7. Reads(q, b, m) \in Seq(F \ {Literal})
  BY <1>4, <1>6
<1> QED
  BY <1>7 DEF F

\* Once a call's reading list is read to its end, its roles are filled by what it
\* has read, or inline.
LEMMA RolesCovered ==
    ASSUME NEW q \in Override, NEW b \in Block, NEW m \in Seq(CurveRef), NEW k \in 1..2,
           \A n \in 1..Len(Reads(q, b, m)) : Reads(q, b, m)[n] # NoId
    PROVE  LET x == Curves(q, b, m)[k]
           IN  x = Literal \/ \E n \in 1..Len(Reads(q, b, m)) : Reads(q, b, m)[n] = x
<1> DEFINE F == Referred(q, b, m)
           r == CurveReads(q, b, m)
           plan == PlanOf(q, b, m)
           kept == {j \in DOMAIN plan : plan[j] # Literal}
           stored == Picked(plan, kept)
           x == Curves(q, b, m)[k]
<1>1. r \in Seq(F) /\ OtherReads(q, b) \in Seq(F)
  BY CurveReadsFrom, OtherReadsFrom
<1>2. x = Literal \/ \E n \in 1..Len(r) : r[n] = x \/ r[n] = NoId
  BY CurveReadsFrom
<1>3. plan = r \o OtherReads(q, b)
  BY DEF PlanOf
<1> HIDE DEF F, plan, r, x
<1>4. plan \in Seq(F) /\ \A n \in 1..Len(r) : n \in 1..Len(plan) /\ plan[n] = r[n]
  BY <1>1, <1>3
<1>5. kept \in SUBSET (1..Len(plan)) /\ \A j \in 1..Len(plan) : plan[j] # Literal => j \in kept
  BY <1>4
<1>6. Reads(q, b, m) = <<NoId>> \/ Reads(q, b, m) = stored
  BY DEF Reads, plan, PlanOf
<1>7. Reads(q, b, m) = stored
  <2>1. 1 \in 1..Len(<<NoId>>) /\ <<NoId>>[1] = NoId
    OBVIOUS
  <2>2. Reads(q, b, m) # <<NoId>>
    BY <2>1
  <2> QED
    BY <1>6, <2>2
<1> HIDE DEF kept
<1>8. \A j \in kept : \E n \in 1..Len(stored) : stored[n] = plan[j]
  BY <1>4, <1>5, PickedElements
<1> HIDE DEF stored
<1>9. \A n \in 1..Len(stored) : stored[n] # NoId
  BY <1>7
<1>10. ASSUME NEW n \in 1..Len(r), r[n] = NoId PROVE FALSE
  <2>1. plan[n] = NoId /\ n \in 1..Len(plan) /\ NoId # Literal
    BY <1>4, <1>10, ReferenceAssumption
  <2> QED
    BY <1>5, <1>8, <1>9, <2>1
<1>11. ASSUME NEW n \in 1..Len(r), r[n] = x, x # Literal
       PROVE  \E j \in 1..Len(stored) : stored[j] = x
  <2>1. plan[n] = x /\ n \in 1..Len(plan)
    BY <1>4, <1>11
  <2> QED
    BY <1>5, <1>8, <1>11, <2>1
<1>12. x = Literal \/ \E j \in 1..Len(stored) : stored[j] = x
  BY <1>2, <1>10, <1>11
<1> QED
  BY <1>7, <1>12 DEF x

-----------------------------------------------------------------------------
(* The reading list of a call.                                             *)

Inputs == Ids \ (Trades \cup Sets)
KnownBlocks == {Blocks[x] : x \in Bodies} \cup {r.inline : r \in Requests}
KnownSets == {Members[x] : x \in Bodies} \cup {<<>>}

Planned(c) == Reads(ask[c].with, BlockOf(c), MembersOf(c))
Has(c, x) == x \in Ids /\ used[c][x] # NoRow

\* Whatever is on the list has been read or is still to be read; the trade and the
\* curve set it was made from stay the ones that were read, since no other reference
\* leads to their tables.
RolesOK(c) ==
    /\ stage[c] # "new" => ask[c] \in Requests
    /\ stage[c] \in {"set", "refs", "quotes", "engine"} /\ ask[c].trade # NoId => Has(c, ask[c].trade)
    /\ stage[c] = "set" => NeedsSet(ask[c].with, BlockOf(c))
    /\ stage[c] = "refs" => todo[c] \in Seq(Inputs \cup {NoId})
    /\ stage[c] \in {"quotes", "engine"} => todo[c] = <<>>
    /\ stage[c] \in {"refs", "quotes", "engine"} =>
          /\ NeedsSet(ask[c].with, BlockOf(c)) => Has(c, BlockOf(c).set)
          /\ \A n \in 1..Len(Planned(c)) :
                \/ Has(c, Planned(c)[n])
                \/ \E k \in 1..Len(todo[c]) : todo[c][k] = Planned(c)[n]

\* The store's bound, and what the calls' variables are besides CallTypes.
Sorts ==
    /\ todo \in [Calls -> Seq(Ids \cup {NoId})]
    /\ history \subseteq Entry
    /\ \A i \in Ids : Len(trail[i]) <= MaxEntries
    /\ \A c \in Calls : loaded[c] <= MaxEntries /\ \A i \in Ids : begun[c][i] <= MaxEntries

RInv == Sorts /\ \A c \in Calls : RolesOK(c)

LEMMA ReferencesApart ==
    ASSUME NEW r \in Requests, NEW b \in KnownBlocks, NEW m \in KnownSets
    PROVE  /\ r.with \in Override /\ b \in Block /\ m \in Seq(CurveRef)
           /\ b.set \in Sets \cup {NoId} /\ r.trade \in Trades \cup {NoId}
           /\ Reads(r.with, b, m) \in Seq(Inputs \cup {NoId})
<1> DEFINE others == Trades \cup Sets
<1>1. r \in Request /\ r.with \in Override
  BY PricingAssumption DEF Request
<1>2. b \in Block /\ b.set \in Sets \cup {NoId} /\ OfBlock(b) \cap others = {}
  BY PricingAssumption, TableAssumption DEF KnownBlocks, Request
<1>3. m \in Seq(CurveRef) /\ Named(m) \cap others = {} /\ Named(m) \subseteq Ids
  <2>1. CASE m = <<>>
    BY <2>1 DEF Named
  <2>2. ASSUME NEW x \in Bodies
        PROVE  Members[x] \in Seq([id : Ids, role : Roles]) /\ Named(Members[x]) \cap others = {}
    BY PricingAssumption, TableAssumption
  <2>3. ASSUME NEW s \in Seq([id : Ids, role : Roles])
        PROVE  s \in Seq(CurveRef) /\ Named(s) \subseteq Ids
    <3> DEFINE T == [id : Ids, role : Roles]
    <3>1. s \in Seq(T) /\ \A e \in T : e \in CurveRef /\ e.id \in Ids
      BY DEF CurveRef, Given
    <3> HIDE DEF T
    <3>2. DOMAIN s = 1..Len(s) /\ \A k \in 1..Len(s) : s[k] \in T
      BY <3>1
    <3>3. s \in Seq(CurveRef)
      BY <3>1, <3>2
    <3> QED
      BY <3>1, <3>2, <3>3 DEF Named
  <2>4. ASSUME NEW x \in Bodies, m = Members[x]
        PROVE  m \in Seq(CurveRef) /\ Named(m) \cap others = {} /\ Named(m) \subseteq Ids
    <3>1. /\ Members[x] \in Seq(CurveRef) /\ Named(Members[x]) \cap others = {}
          /\ Named(Members[x]) \subseteq Ids
      BY <2>2, <2>3
    <3> QED
      BY <2>4, <3>1, Zenon
  <2> QED
    BY <2>1, <2>4 DEF KnownSets
<1>4. OfOverride(r.with) \cap others = {} /\ r.trade \in Trades \cup {NoId}
  BY TableAssumption
<1>5. OfOverride(r.with) \subseteq Reference /\ OfBlock(b) \subseteq Reference
  <2>1. \A s \in Seq(CurveRef) : Named(s) \subseteq Reference
    <3>1. \A s \in Seq(CurveRef) : \A k \in DOMAIN s : s[k] \in CurveRef
      OBVIOUS
    <3>2. \A e \in CurveRef : e.id \in Reference
      BY DEF CurveRef, Reference
    <3> QED
      BY <3>1, <3>2 DEF Named
  <2> QED
    BY <1>1, <1>2, <2>1 DEF OfOverride, OfBlock, Override, Block, Reference, Given
<1>6. others \cap {NoId, Literal} = {}
  BY TableAssumption, ReferenceAssumption
<1>7. Referred(r.with, b, m) \ {Literal} \subseteq Inputs \cup {NoId}
  BY <1>2, <1>3, <1>4, <1>5, <1>6 DEF Referred, Reference, Given, Inputs
<1>8. Reads(r.with, b, m) \in Seq(Referred(r.with, b, m) \ {Literal})
  BY <1>1, <1>2, <1>3, ReadsFrom
<1> QED
  BY <1>1, <1>2, <1>3, <1>4, <1>7, <1>8

\* What a call works with, once it has read its trade and its curve set.
LEMMA WorksWith ==
    ASSUME IInv, NEW c \in Calls, ask[c] \in Requests,
           ask[c].trade # NoId => Has(c, ask[c].trade)
    PROVE  /\ BlockOf(c) \in KnownBlocks
           /\ (NeedsSet(ask[c].with, BlockOf(c)) => Has(c, BlockOf(c).set)) => MembersOf(c) \in KnownSets
<1>1. \A i \in Ids : used[c][i] # NoRow => used[c][i].body \in Bodies
  BY PricingAssumption DEF IInv, CallTypes
<1>2. BlockOf(c) \in KnownBlocks
  BY <1>1 DEF BlockOf, KnownBlocks, Has
<1> QED
  BY <1>1, <1>2 DEF MembersOf, KnownSets, Has

LEMMA RolesKept ==
    ASSUME NEW d \in Calls, RolesOK(d), ask'[d] = ask[d], used'[d] = used[d],
           stage'[d] = stage[d], todo'[d] = todo[d]
    PROVE  RolesOK(d)'
<1>1. BlockOf(d)' = BlockOf(d)
  BY DEF BlockOf
<1>2. MembersOf(d)' = MembersOf(d)
  BY <1>1 DEF MembersOf
<1>3. Planned(d)' = Planned(d) /\ \A x : Has(d, x)' = Has(d, x)
  BY <1>1, <1>2 DEF Planned, Has
<1> QED
  BY <1>1, <1>3 DEF RolesOK

\* Over, or about to be: nothing is asked of the list any more.
LEMMA RolesOver ==
    ASSUME NEW d \in Calls, RolesOK(d), ask'[d] = ask[d], stage[d] # "new",
           stage'[d] \in {"record", "done"}
    PROVE  RolesOK(d)'
BY DEF RolesOK

\* The list is made, or the curve set read first.
LEMMA PlanRoles ==
    ASSUME IInv, todo \in [Calls -> Seq(Ids \cup {NoId})], IInv', NEW c \in Calls,
           ask'[c] \in Requests, ask'[c].trade # NoId => Has(c, ask[c].trade)',
           NEW b \in KnownBlocks, BlockOf(c)' = b, Plan(c, ask'[c].with, b)
    PROVE  /\ RolesOK(c)' /\ todo' \in [Calls -> Seq(Ids \cup {NoId})]
           /\ \A d \in Calls \ {c} : stage'[d] = stage[d] /\ todo'[d] = todo[d]
<1> DEFINE q == ask'[c].with
<1>1. CASE NeedsSet(q, b)
  <2>1. stage' = [stage EXCEPT ![c] = "set"] /\ todo' = todo
    BY <1>1 DEF Plan, Goto
  <2>2. stage'[c] = "set" /\ \A d \in Calls \ {c} : stage'[d] = stage[d]
    BY <2>1 DEF IInv, CallTypes
  <2>3. NeedsSet(ask[c].with, BlockOf(c))'
    BY <1>1
  <2>4. RolesOK(c)'
    BY <2>2, <2>3 DEF RolesOK
  <2> QED
    BY <2>1, <2>2, <2>4
<1>2. CASE ~NeedsSet(q, b)
  <2>1. stage' = [stage EXCEPT ![c] = "refs"] /\ todo' = [todo EXCEPT ![c] = Reads(q, b, <<>>)]
    BY <1>2 DEF Plan, Goto
  <2>2. Reads(q, b, <<>>) \in Seq(Inputs \cup {NoId})
    BY ReferencesApart DEF KnownSets
  <2>3. Reads(q, b, <<>>) \in Seq(Ids \cup {NoId})
    BY <2>2 DEF Inputs
  <2>4. MembersOf(c)' = <<>>
    BY <1>2 DEF MembersOf
  <2>5. Planned(c)' = Reads(q, b, <<>>)
    BY <2>4 DEF Planned
  <2>6. stage'[c] = "refs" /\ todo'[c] = Reads(q, b, <<>>)
    BY <2>1 DEF IInv, CallTypes
  <2>7. RolesOK(c)'
    BY <1>2, <2>2, <2>5, <2>6 DEF RolesOK
  <2> QED
    BY <2>1, <2>3, <2>7 DEF IInv, CallTypes
<1> QED
  BY <1>1, <1>2

LEMMA ArriveRoles ==
    ASSUME IInv, RInv, IInv', NEW c \in Calls, Arrive(c)
    PROVE  (\A d \in Calls : RolesOK(d)') /\ todo' \in [Calls -> Seq(Ids \cup {NoId})]
<1>1. PICK q \in Requests :
          /\ ask' = [ask EXCEPT ![c] = q]
          /\ IF q.trade = NoId THEN Plan(c, q.with, q.inline) ELSE Goto(c, "trade") /\ UNCHANGED todo
  BY DEF Arrive
<1>2. /\ ask'[c] = q /\ used' = used /\ stage[c] = "new"
      /\ \A d \in Calls \ {c} : ask'[d] = ask[d]
  BY <1>1 DEF Arrive, IInv, CallTypes
<1>3. todo \in [Calls -> Seq(Ids \cup {NoId})]
  BY DEF RInv, Sorts
<1>4. /\ RolesOK(c)' /\ todo' \in [Calls -> Seq(Ids \cup {NoId})]
      /\ \A d \in Calls \ {c} : stage'[d] = stage[d] /\ todo'[d] = todo[d]
  <2>1. CASE q.trade = NoId
    <3>1. BlockOf(c)' = q.inline /\ q.inline \in KnownBlocks /\ Plan(c, q.with, q.inline)
      BY <1>1, <1>2, <2>1 DEF BlockOf, KnownBlocks
    <3> QED
      BY <1>2, <1>3, <2>1, <3>1, PlanRoles
  <2>2. CASE q.trade # NoId
    <3>1. stage' = [stage EXCEPT ![c] = "trade"] /\ todo' = todo
      BY <1>1, <2>2 DEF Goto
    <3> QED
      BY <1>2, <1>3, <3>1 DEF RolesOK, IInv, CallTypes
  <2> QED
    BY <2>1, <2>2
<1>5. ASSUME NEW d \in Calls \ {c} PROVE RolesOK(d)'
  BY <1>2, <1>4, RolesKept DEF RInv
<1> QED
  BY <1>4, <1>5

LEMMA LoadTradeRoles ==
    ASSUME IInv, RInv, IInv', NEW c \in Calls, LoadTrade(c)
    PROVE  (\A d \in Calls : RolesOK(d)') /\ todo' \in [Calls -> Seq(Ids \cup {NoId})]
<1> DEFINE i == ask[c].trade
<1>1. stage[c] = "trade" /\ ask' = ask /\ todo \in [Calls -> Seq(Ids \cup {NoId})]
  BY DEF LoadTrade, RInv, Sorts
<1>2. CASE Raise(c) /\ UNCHANGED <<todo, used>>
  <2>1. stage' = [stage EXCEPT ![c] = "record"]
    BY <1>2 DEF Raise, Goto
  <2>2. RolesOK(c)'
    BY <1>1, <2>1, RolesOver DEF RInv, IInv, CallTypes
  <2>3. ASSUME NEW d \in Calls \ {c} PROVE RolesOK(d)'
    BY <1>1, <1>2, <2>1, RolesKept DEF RInv, IInv, CallTypes
  <2> QED
    BY <1>1, <1>2, <2>2, <2>3
<1>3. CASE Visible(c, i) /\ Use(c, i) /\ Plan(c, ask[c].with, Blocks[rows[i].body])
  <2>1. i \in Ids /\ i # NoId
    BY <1>1, TradeIsId DEF IInv, TradeOK
  <2>2. /\ used'[c][i] = rows[i] /\ rows[i] # NoRow /\ rows[i] \in Rows
        /\ \A d \in Calls \ {c} : used'[d] = used[d]
    BY <1>3, <2>1 DEF Visible, Use, IInv, CallTypes, LedgerOK
  <2>3. BlockOf(c)' = Blocks[rows[i].body] /\ Blocks[rows[i].body] \in KnownBlocks
    BY <1>1, <2>1, <2>2, PricingAssumption DEF BlockOf, KnownBlocks
  <2>4. ask'[c] \in Requests /\ Has(c, ask[c].trade)'
    BY <1>1, <2>1, <2>2 DEF RInv, RolesOK, Has
  <2>5. /\ RolesOK(c)' /\ todo' \in [Calls -> Seq(Ids \cup {NoId})]
        /\ \A d \in Calls \ {c} : stage'[d] = stage[d] /\ todo'[d] = todo[d]
    BY <1>1, <1>3, <2>3, <2>4, PlanRoles
  <2>6. ASSUME NEW d \in Calls \ {c} PROVE RolesOK(d)'
    BY <1>1, <2>2, <2>5, RolesKept DEF RInv
  <2> QED
    BY <2>5, <2>6
<1> QED
  BY <1>2, <1>3 DEF LoadTrade

LEMMA LoadSetRoles ==
    ASSUME IInv, RInv, IInv', NEW c \in Calls, LoadSet(c)
    PROVE  (\A d \in Calls : RolesOK(d)') /\ todo' \in [Calls -> Seq(Ids \cup {NoId})]
<1> DEFINE b == BlockOf(c)
           i == b.set
           q == ask[c].with
<1>1. stage[c] = "set" /\ ask' = ask /\ todo \in [Calls -> Seq(Ids \cup {NoId})]
  BY DEF LoadSet, RInv, Sorts
<1>2. CASE Raise(c) /\ UNCHANGED <<todo, used>>
  <2>1. stage' = [stage EXCEPT ![c] = "record"]
    BY <1>2 DEF Raise, Goto
  <2>2. RolesOK(c)'
    BY <1>1, <2>1, RolesOver DEF RInv, IInv, CallTypes
  <2>3. ASSUME NEW d \in Calls \ {c} PROVE RolesOK(d)'
    BY <1>1, <1>2, <2>1, RolesKept DEF RInv, IInv, CallTypes
  <2> QED
    BY <1>1, <1>2, <2>2, <2>3
<1>3. CASE /\ Visible(c, i) /\ Use(c, i) /\ Goto(c, "refs")
           /\ todo' = [todo EXCEPT ![c] = Reads(q, b, Members[rows[i].body])]
  <2>1. /\ ask[c] \in Requests /\ NeedsSet(q, b)
        /\ ask[c].trade # NoId => Has(c, ask[c].trade)
    BY <1>1 DEF RInv, RolesOK
  <2>2. b \in KnownBlocks
    BY <2>1, WorksWith
  <2>3. b.set \in Sets /\ ask[c].trade \in Trades \cup {NoId}
    <3>1. b.set \in Sets \cup {NoId} /\ ask[c].trade \in Trades \cup {NoId}
      BY <2>1, <2>2, ReferencesApart DEF KnownSets
    <3> QED
      BY <2>1, <3>1 DEF NeedsSet
  <2>4. i \in Ids /\ i # ask[c].trade
    BY <2>3, TableAssumption, ReferenceAssumption
  <2> HIDE DEF b, i
  <2>5. /\ used'[c][i] = rows[i] /\ rows[i] # NoRow /\ rows[i] \in Rows
        /\ \A d \in Calls \ {c} : used'[d] = used[d]
        /\ \A x : x # i => used'[c][x] = used[c][x]
    BY <1>3, <2>4 DEF Visible, Use, IInv, CallTypes, LedgerOK
  <2> DEFINE m == Members[rows[i].body]
  <2>6. m \in KnownSets
    BY <2>5, PricingAssumption DEF KnownSets
  <2>7. BlockOf(c)' = b
    BY <1>1, <2>4, <2>5 DEF BlockOf, b
  <2>8. MembersOf(c)' = m
    BY <1>1, <2>1, <2>5, <2>7 DEF MembersOf, i
  <2> HIDE DEF m
  <2>9. Planned(c)' = Reads(q, b, m) /\ ask'[c] = ask[c]
    BY <1>1, <2>7, <2>8 DEF Planned
  <2>10. Reads(q, b, m) \in Seq(Inputs \cup {NoId})
    BY <2>1, <2>2, <2>6, ReferencesApart
  <2>11. /\ stage' = [stage EXCEPT ![c] = "refs"] /\ todo' = [todo EXCEPT ![c] = Reads(q, b, m)]
         /\ stage'[c] = "refs" /\ todo'[c] = Reads(q, b, m)
    BY <1>1, <1>3 DEF Goto, m, IInv, CallTypes
  <2>12. \A x : Has(c, x) \/ x = i => Has(c, x)'
    BY <2>4, <2>5 DEF Has
  <2>13. RolesOK(c)'
    <3>1. ask[c].trade # NoId => Has(c, ask[c].trade)'
      BY <1>1, <2>1, <2>12
    <3>2. Has(c, BlockOf(c).set)'
      BY <2>7, <2>12 DEF i
    <3>3. \A n \in 1..Len(Planned(c)') : \E k \in 1..Len(todo'[c]) : todo'[c][k] = Planned(c)'[n]
      BY <2>9, <2>11
    <3> QED
      BY <2>1, <2>9, <2>10, <2>11, <3>1, <3>2, <3>3 DEF RolesOK
  <2>14. ASSUME NEW d \in Calls \ {c} PROVE RolesOK(d)'
    BY <1>1, <2>5, <2>11, RolesKept DEF RInv, IInv, CallTypes
  <2>15. Reads(q, b, m) \in Seq(Ids \cup {NoId})
    BY <2>10 DEF Inputs
  <2> QED
    BY <1>1, <2>11, <2>13, <2>14, <2>15
<1> QED
  BY <1>2, <1>3 DEF LoadSet

LEMMA LoadNextRoles ==
    ASSUME IInv, RInv, IInv', NEW c \in Calls, LoadNext(c)
    PROVE  (\A d \in Calls : RolesOK(d)') /\ todo' \in [Calls -> Seq(Ids \cup {NoId})]
<1> DEFINE i == Head(todo[c])
<1>1. /\ stage[c] = "refs" /\ todo[c] # <<>> /\ ask' = ask
      /\ todo \in [Calls -> Seq(Ids \cup {NoId})]
  BY DEF LoadNext, RInv, Sorts
<1>2. CASE Raise(c) /\ UNCHANGED <<todo, used>>
  <2>1. stage' = [stage EXCEPT ![c] = "record"]
    BY <1>2 DEF Raise, Goto
  <2>2. RolesOK(c)'
    BY <1>1, <2>1, RolesOver DEF RInv, IInv, CallTypes
  <2>3. ASSUME NEW d \in Calls \ {c} PROVE RolesOK(d)'
    BY <1>1, <1>2, <2>1, RolesKept DEF RInv, IInv, CallTypes
  <2> QED
    BY <1>1, <1>2, <2>2, <2>3
<1>3. CASE /\ i # NoId /\ Visible(c, i) /\ Use(c, i)
           /\ todo' = [todo EXCEPT ![c] = Tail(@)] /\ UNCHANGED stage
  <2>1. /\ ask[c] \in Requests /\ todo[c] \in Seq(Inputs \cup {NoId})
        /\ ask[c].trade # NoId => Has(c, ask[c].trade)
        /\ NeedsSet(ask[c].with, BlockOf(c)) => Has(c, BlockOf(c).set)
        /\ \A n \in 1..Len(Planned(c)) :
              \/ Has(c, Planned(c)[n])
              \/ \E k \in 1..Len(todo[c]) : todo[c][k] = Planned(c)[n]
    BY <1>1 DEF RInv, RolesOK
  <2>2. BlockOf(c).set \in Sets \cup {NoId} /\ ask[c].trade \in Trades \cup {NoId}
    BY <2>1, WorksWith, ReferencesApart DEF KnownSets
  <2>3. i \in Inputs /\ i \in Ids
    BY <1>1, <1>3, <2>1 DEF Inputs
  <2>4. i # ask[c].trade /\ i # BlockOf(c).set
    BY <2>2, <2>3, TableAssumption, ReferenceAssumption DEF Inputs
  <2>5. /\ \A k \in 1..Len(todo[c]) : todo[c][k] = i \/ \E l \in 1..Len(Tail(todo[c])) : Tail(todo[c])[l] = todo[c][k]
        /\ Tail(todo[c]) \in Seq(Inputs \cup {NoId})
    <3>1. ASSUME NEW s \in Seq(Inputs \cup {NoId}), s # <<>>
          PROVE  /\ \A k \in 1..Len(s) : k = 1 \/ k - 1 \in 1..Len(Tail(s))
                 /\ \A k \in 1..Len(s) : s[k] = Head(s) \/ Tail(s)[k - 1] = s[k]
                 /\ Tail(s) \in Seq(Inputs \cup {NoId})
      BY <3>1
    <3>2. \A k \in 1..Len(todo[c]) : k = 1 => todo[c][k] = i
      BY <1>1, <2>1
    <3> QED
      BY <1>1, <2>1, <3>1, <3>2
  <2>6. todo'[c] = Tail(todo[c]) /\ stage' = stage /\ ask'[c] = ask[c]
    BY <1>1, <1>3
  <2> HIDE DEF i
  <2>7. /\ used'[c][i] = rows[i] /\ rows[i] # NoRow
        /\ \A d \in Calls \ {c} : used'[d] = used[d]
        /\ \A x : x # i => used'[c][x] = used[c][x]
    BY <1>3, <2>3 DEF Visible, Use, IInv, CallTypes, LedgerOK
  <2>8. BlockOf(c)' = BlockOf(c)
    BY <2>4, <2>6, <2>7 DEF BlockOf
  <2>9. MembersOf(c)' = MembersOf(c)
    BY <2>4, <2>6, <2>7, <2>8 DEF MembersOf
  <2>10. Planned(c)' = Planned(c)
    BY <2>6, <2>8, <2>9 DEF Planned
  <2>11. \A x : Has(c, x) \/ x = i => Has(c, x)'
    BY <2>3, <2>7 DEF Has
  <2>12. \A n \in 1..Len(Planned(c)) :
              \/ Has(c, Planned(c)[n])'
              \/ \E k \in 1..Len(todo'[c]) : todo'[c][k] = Planned(c)[n]
    <3> SUFFICES ASSUME NEW n \in 1..Len(Planned(c)), ~Has(c, Planned(c)[n])'
                 PROVE  \E k \in 1..Len(todo'[c]) : todo'[c][k] = Planned(c)[n]
      OBVIOUS
    <3>1. ~Has(c, Planned(c)[n]) /\ Planned(c)[n] # i
      BY <2>10, <2>11
    <3>2. PICK k \in 1..Len(todo[c]) : todo[c][k] = Planned(c)[n]
      BY <2>1, <3>1
    <3> QED
      BY <2>5, <2>6, <3>1, <3>2
  <2>13. RolesOK(c)'
    BY <1>1, <2>1, <2>5, <2>6, <2>8, <2>10, <2>11, <2>12 DEF RolesOK
  <2>14. ASSUME NEW d \in Calls \ {c} PROVE RolesOK(d)'
    BY <1>1, <1>3, <2>7, RolesKept DEF RInv
  <2>15. Tail(todo[c]) \in Seq(Ids \cup {NoId})
    BY <2>5 DEF Inputs
  <2> QED
    BY <1>1, <1>3, <2>13, <2>14, <2>15
<1> QED
  BY <1>2, <1>3 DEF LoadNext

\* The other steps of a call read nothing more.
LEMMA AdvanceRoles ==
    ASSUME IInv, RInv, NEW c \in Calls,
           ResolveQuotes(c) \/ CallEngine(c) \/ Record(c) \/ Unexpected(c) \/ Crash(c)
    PROVE  (\A d \in Calls : RolesOK(d)') /\ todo' \in [Calls -> Seq(Ids \cup {NoId})]
<1>1. UNCHANGED <<ask, todo, used>> /\ todo \in [Calls -> Seq(Ids \cup {NoId})]
  BY DEF ResolveQuotes, CallEngine, Record, Unexpected, Crash, RInv, Sorts
<1>2. PICK s \in {"quotes", "engine", "record", "done"} :
          /\ stage' = [stage EXCEPT ![c] = s] /\ stage[c] # "new"
          /\ s = "quotes" => stage[c] = "refs" /\ todo[c] = <<>>
          /\ s = "engine" => stage[c] = "quotes"
  BY DEF ResolveQuotes, CallEngine, Record, Unexpected, Crash, Raise, Goto, Reading
<1>3. stage'[c] = s /\ \A d \in Calls \ {c} : stage'[d] = stage[d]
  BY <1>2 DEF IInv, CallTypes
<1>4. ASSUME NEW d \in Calls \ {c} PROVE RolesOK(d)'
  BY <1>1, <1>3, RolesKept DEF RInv
<1>5. CASE s \in {"record", "done"}
  <2>1. RolesOK(c)'
    BY <1>1, <1>2, <1>3, <1>5, RolesOver DEF RInv
  <2> QED
    BY <1>1, <1>4, <2>1
<1>6. CASE s \in {"quotes", "engine"}
  <2>1. RolesOK(c) /\ todo[c] = <<>> /\ stage[c] \in {"refs", "quotes"}
    BY <1>2, <1>6 DEF RInv, RolesOK
  <2>2. BlockOf(c)' = BlockOf(c)
    BY <1>1 DEF BlockOf
  <2>3. MembersOf(c)' = MembersOf(c)
    BY <1>1, <2>2 DEF MembersOf
  <2>4. Planned(c)' = Planned(c) /\ \A x : Has(c, x)' = Has(c, x)
    BY <1>1, <2>2, <2>3 DEF Planned, Has
  <2>5. RolesOK(c)'
    BY <1>1, <1>3, <1>6, <2>1, <2>2, <2>4 DEF RolesOK
  <2> QED
    BY <1>1, <1>4, <2>5
<1> QED
  BY <1>2, <1>5, <1>6

\* A store within its bound has no trail beyond it.
LEMMA TrailsBounded ==
    ASSUME LedgerOK', StoreStep, NEW i \in Ids
    PROVE  Len(trail'[i]) <= MaxEntries
<1> DEFINE f == [j \in Ids |-> {j} \X DOMAIN trail'[j]]
           T == {f[j] : j \in Ids}
<1>1. IsFiniteSet(Ids) /\ MaxEntries \in Nat
  BY PricingAssumption
<1>2. ASSUME NEW j \in Ids
      PROVE  /\ IsFiniteSet(f[j]) /\ Cardinality(f[j]) = Len(trail'[j]) /\ Len(trail'[j]) \in Nat
  <2>1. DOMAIN trail'[j] = 1..Len(trail'[j]) /\ Len(trail'[j]) \in Nat
    BY DEF LedgerOK
  <2>2. IsFiniteSet(1..Len(trail'[j])) /\ Cardinality(1..Len(trail'[j])) = Len(trail'[j])
    BY <2>1, FS_Interval
  <2>3. IsFiniteSet({j}) /\ Cardinality({j}) = 1
    BY FS_Singleton
  <2>4. /\ IsFiniteSet({j} \X (1..Len(trail'[j])))
        /\ Cardinality({j} \X (1..Len(trail'[j]))) = 1 * Len(trail'[j])
    BY <2>2, <2>3, FS_Product
  <2>5. \A n \in Nat : 1 * n = n
    OBVIOUS
  <2>6. f[j] = {j} \X (1..Len(trail'[j]))
    BY <2>1
  <2> HIDE DEF f
  <2> QED
    BY <2>1, <2>4, <2>5, <2>6
<1>3. IsFiniteSet(T)
  <2>1. f \in Surjection(Ids, T)
    BY DEF Surjection
  <2> HIDE DEF f, T
  <2> QED
    BY <1>1, <2>1, FS_Surjection
<1>4. IsFiniteSet(UNION T)
  BY <1>2, <1>3, FS_UNION
<1>5. f[i] \subseteq UNION T
  OBVIOUS
<1>6. Cardinality(UNION T) <= MaxEntries
  <2>1. T = {{j} \X DOMAIN trail'[j] : j \in Ids}
    OBVIOUS
  <2> QED
    BY <2>1 DEF StoreStep
<1> HIDE DEF f, T
<1>7. Cardinality(f[i]) <= Cardinality(UNION T) /\ Cardinality(UNION T) \in Nat
  BY <1>4, <1>5, FS_Subset, FS_CardinalityType
<1> QED
  BY <1>1, <1>2, <1>6, <1>7

LEMMA InitRInv == Init => RInv
<1> SUFFICES ASSUME Init PROVE RInv
  OBVIOUS
<1>1. MaxEntries \in Nat
  BY PricingAssumption
<1>2. ASSUME NEW i \in Ids PROVE Len(trail[i]) <= MaxEntries
  <2> DEFINE S == {j \in Ids : Saved[j] # NoRow}
  <2>1. CASE Saved[i] = NoRow
    BY <1>1, <2>1, InitStore
  <2>2. CASE Saved[i] # NoRow
    <3>1. Len(trail[i]) = 1
      BY <2>2, InitStore
    <3>2. IsFiniteSet(S) /\ {i} \in SUBSET S
      BY <2>2, PricingAssumption, FS_Subset
    <3>3. Cardinality(S) <= MaxEntries
      BY PricingAssumption
    <3> HIDE DEF S
    <3>4. Cardinality({i}) = 1 /\ Cardinality({i}) <= Cardinality(S) /\ Cardinality(S) \in Nat
      BY <3>2, FS_Subset, FS_Singleton, FS_CardinalityType
    <3> QED
      BY <1>1, <3>1, <3>3, <3>4
  <2> QED
    BY <2>1, <2>2
<1>3. Sorts
  BY <1>1, <1>2 DEF Init, Sorts
<1>4. \A c \in Calls : RolesOK(c)
  BY DEF Init, RolesOK
<1> QED
  BY <1>3, <1>4 DEF RInv

LEMMA AskTypes ==
    ASSUME CallTypes
    PROVE  ask \in [Calls -> Request]
<1>1. NoRequest \in Request
  BY DEF NoRequest, Request, NoBlock, Block, Override, Products, Reference, Given
<1>2. \A r \in Requests : r \in Request
  BY PricingAssumption
<1> QED
  BY <1>1, <1>2 DEF CallTypes

\* A row of the history.
LEMMA RowType ==
    ASSUME IInv, RInv, NEW c \in Calls
    PROVE  Row(c) \in Entry
<1>1. ask[c].trade \in Ids \cup {NoId} /\ result[c] \in Outcomes
  BY TradeIsId DEF IInv, CallTypes
<1>2. HeadVersion(c, ask[c].trade) \in 0..MaxEntries
  <2>1. \A i \in Ids : Len(trail[i]) \in Nat /\ Len(trail[i]) <= MaxEntries
    BY DEF IInv, LedgerOK, RInv, Sorts
  <2>2. MaxEntries \in Nat
    BY PricingAssumption
  <2> QED
    BY <1>1, <2>1, <2>2 DEF HeadVersion
<1> QED
  BY <1>1, <1>2 DEF Row, Entry

LEMMA SortsKept ==
    ASSUME IInv, RInv, IInv', [Next]_vars, todo' \in [Calls -> Seq(Ids \cup {NoId})]
    PROVE  Sorts'
<1>1. ASSUME NEW i \in Ids PROVE Len(trail'[i]) <= MaxEntries
  <2>1. CASE StoreStep
    BY <2>1, TrailsBounded DEF IInv
  <2>2. CASE UNCHANGED store
    BY <2>2 DEF RInv, Sorts, store
  <2> QED
    BY <2>1, <2>2 DEF Next, AllEnded, vars, Arrive, Step, LoadTrade, LoadSet, LoadNext,
                      ResolveQuotes, CallEngine, Record, Unexpected, Crash
<1>2. history' \subseteq Entry
  <2>1. history' \subseteq history \cup {Row(c) : c \in Calls}
    <3>1. CASE UNCHANGED history
      BY <3>1
    <3>2. ASSUME NEW c \in Calls, history' = history \cup {Row(c)}
          PROVE  history' \subseteq history \cup {Row(d) : d \in Calls}
      BY <3>2
    <3> QED
      BY <3>1, <3>2 DEF Next, AllEnded, vars, StoreStep, Arrive, Step, LoadTrade, LoadSet,
                        LoadNext, ResolveQuotes, CallEngine, Record, Unexpected, Crash
  <2> QED
    BY <2>1, RowType DEF RInv, Sorts
<1>3. ASSUME NEW c \in Calls
      PROVE  loaded'[c] <= MaxEntries /\ \A i \in Ids : begun'[c][i] <= MaxEntries
  <2>1. /\ loaded[c] <= MaxEntries /\ \A i \in Ids : begun[c][i] <= MaxEntries
        /\ \A i \in Ids : Len(trail[i]) <= MaxEntries
    BY DEF RInv, Sorts
  <2>2. CASE begun' = begun /\ loaded' = loaded
    BY <2>1, <2>2
  <2>3. ASSUME NEW d \in Calls, Arrive(d)
        PROVE  loaded'[c] <= MaxEntries /\ \A i \in Ids : begun'[c][i] <= MaxEntries
    <3>1. begun' = [begun EXCEPT ![d] = [i \in Ids |-> Len(trail[i])]] /\ loaded' = loaded
      BY <2>3 DEF Arrive
    <3> QED
      BY <2>1, <3>1 DEF IInv, CallTypes
  <2>4. ASSUME NEW d \in Calls, LoadTrade(d)
        PROVE  loaded'[c] <= MaxEntries /\ \A i \in Ids : begun'[c][i] <= MaxEntries
    <3>1. begun' = begun /\ (loaded' = loaded \/ loaded' = [loaded EXCEPT ![d] = Len(trail[ask[d].trade])])
      BY <2>4 DEF LoadTrade
    <3>2. stage[d] = "trade" => ask[d].trade \in Ids
      BY TradeIsId DEF IInv, TradeOK
    <3>3. stage[d] = "trade"
      BY <2>4 DEF LoadTrade
    <3> QED
      BY <2>1, <3>1, <3>2, <3>3 DEF IInv, CallTypes
  <2> QED
    BY <2>2, <2>3, <2>4 DEF Next, AllEnded, vars, call, StoreStep, Step, LoadSet,
                            LoadNext, ResolveQuotes, CallEngine, Record, Unexpected, Crash
<1> QED
  BY <1>1, <1>2, <1>3 DEF Sorts

LEMMA NextRInv == IInv /\ RInv /\ [Next]_vars => RInv'
<1> SUFFICES ASSUME IInv, RInv, [Next]_vars PROVE RInv'
  OBVIOUS
<1>1. IInv'
  BY NextIInv
<1>2. (\A c \in Calls : RolesOK(c)') /\ todo' \in [Calls -> Seq(Ids \cup {NoId})]
  <2>1. CASE UNCHANGED call
    <3>1. UNCHANGED <<stage, ask, todo, used>>
      BY <2>1 DEF call
    <3> QED
      BY <3>1, RolesKept DEF RInv, Sorts
  <2>2. ASSUME NEW c \in Calls, Arrive(c) \/ Step(c) \/ Unexpected(c) \/ Crash(c)
        PROVE  (\A d \in Calls : RolesOK(d)') /\ todo' \in [Calls -> Seq(Ids \cup {NoId})]
    <3>1. CASE Arrive(c)
      BY <1>1, <3>1, ArriveRoles
    <3>2. CASE LoadTrade(c) \/ LoadSet(c) \/ LoadNext(c)
      BY <1>1, <3>2, LoadTradeRoles, LoadSetRoles, LoadNextRoles
    <3>3. CASE ResolveQuotes(c) \/ CallEngine(c) \/ Record(c) \/ Unexpected(c) \/ Crash(c)
      BY <3>3, AdvanceRoles
    <3> QED
      BY <2>2, <3>1, <3>2, <3>3 DEF Step
  <2> QED
    BY <2>1, <2>2 DEF Next, AllEnded, vars, StoreStep
<1> QED
  BY <1>1, <1>2, SortsKept DEF RInv

LEMMA RolesInductive == Spec => [](IInv /\ RInv)
<1>1. Init => IInv /\ RInv
  BY InitIInv, InitRInv
<1>2. IInv /\ RInv /\ [Next]_vars => (IInv /\ RInv)'
  BY NextIInv, NextRInv
<1> QED
  BY <1>1, <1>2, PTL DEF Spec

-----------------------------------------------------------------------------
(* The theorems.                                                           *)

\* However many requests change the store between a call's statements, every row
\* the call prices was committed and live at some moment of that call.
THEOREM InputsAreCurrent == Spec => []InputsCurrentDuringCall
<1>1. IInv => InputsCurrentDuringCall
  BY DEF IInv, ReadsOK, InputsCurrentDuringCall
<1> QED
  BY <1>1, Inductive, PTL

\* The audit row of a call says what its client was told, there is at most one,
\* and an id in the answer names a committed row.
THEOREM AuditIsTrue == Spec => []AuditMatchesAnswer
<1>1. ASSUME IInv PROVE AuditMatchesAnswer
  <2>1. \A h \in history : /\ answer[h.call].outcome \in {h.outcome, "lost"}
                            /\ \A g \in history : g.call = h.call => g = h
    BY <1>1 DEF IInv, HistoryOK
  <2>2. \A c \in Calls : answer[c].id => \E h \in history : h.call = c /\ h.outcome = "priced"
    BY <1>1, Zenon DEF IInv, AnswersOK
  <2> QED
    BY <2>1, <2>2, Zenon DEF AuditMatchesAnswer
<1> QED
  BY <1>1, Inductive, PTL

\* Whatever becomes of the audit write, a price the engine delivered reaches the
\* client unless the process dies.
THEOREM PriceSurvives == Spec => []PriceSurvivesAuditFailure
<1>1. IInv => PriceSurvivesAuditFailure
  BY DEF IInv, AnswersOK, PriceSurvivesAuditFailure
<1> QED
  BY <1>1, Inductive, PTL

\* The version an audit row records is one the trade went through between its
\* read and now, and the priced one when the trade was left alone meanwhile.
THEOREM VersionIsWithinCall == Spec => []VersionWithinCall
<1>1. ASSUME IInv PROVE VersionWithinCall
  <2>1. ASSUME NEW h \in history, h.outcome = "priced", h.trade # NoId
        PROVE  /\ h.version \in loaded[h.call]..Len(trail[h.trade])
               /\ Len(trail[h.trade]) = begun[h.call][h.trade] => h.version = loaded[h.call]
    <3>1. /\ h.call \in Calls /\ h.trade \in Ids /\ h.version \in Nat
          /\ begun[h.call][h.trade] <= loaded[h.call]
          /\ loaded[h.call] <= h.version /\ h.version <= Len(trail[h.trade])
      BY <1>1, <2>1 DEF IInv, HistoryOK
    <3>2. begun[h.call][h.trade] \in Nat /\ loaded[h.call] \in Nat /\ Len(trail[h.trade]) \in Nat
      BY <1>1, <3>1 DEF IInv, CallTypes, LedgerOK
    <3> QED
      BY <3>1, <3>2
  <2> QED
    BY <2>1 DEF VersionWithinCall
<1> QED
  BY <1>1, Inductive, PTL

\* Every variable keeps its type.
THEOREM TypeCorrect == Spec => []TypeOK
<1>1. ASSUME IInv, RInv PROVE TypeOK
  <2>1. ask \in [Calls -> Request]
    BY <1>1, AskTypes DEF IInv
  <2>2. /\ begun \in [Calls -> [Ids -> 0..MaxEntries]]
        /\ loaded \in [Calls -> 0..MaxEntries]
    <3>1. MaxEntries \in Nat
      BY PricingAssumption
    <3>2. \A c \in Calls : /\ loaded[c] \in 0..MaxEntries
                           /\ \A i \in Ids : begun[c][i] \in 0..MaxEntries
      BY <1>1, <3>1 DEF IInv, CallTypes, RInv, Sorts
    <3>3. \A c \in Calls : begun[c] \in [Ids -> 0..MaxEntries]
      BY <1>1, <3>2 DEF IInv, CallTypes
    <3> QED
      BY <1>1, <3>2, <3>3 DEF IInv, CallTypes
  <2> QED
    BY <1>1, <2>1, <2>2 DEF IInv, LedgerOK, CallTypes, RInv, Sorts, TypeOK
<1>2. IInv /\ RInv => TypeOK
  BY <1>1
<1> QED
  BY <1>2, RolesInductive, PTL

\* When the engine is called every role is filled by a row the call has read, or
\* inline: for every product, curve list, pin and curve set (the assemblers).
THEOREM RolesAreRead == Spec => []RolesWereRead
<1>1. ASSUME IInv, RInv PROVE RolesWereRead
  <2> SUFFICES ASSUME NEW c \in Calls, stage[c] = "engine", NEW k \in 1..2
               PROVE  LET x == Curves(ask[c].with, BlockOf(c), MembersOf(c))[k]
                      IN  x = Literal \/ x \in {i \in Ids : used[c][i] # NoRow}
    BY DEF RolesWereRead
  <2>1. /\ ask[c] \in Requests /\ todo[c] = <<>>
        /\ ask[c].trade # NoId => Has(c, ask[c].trade)
        /\ NeedsSet(ask[c].with, BlockOf(c)) => Has(c, BlockOf(c).set)
        /\ \A n \in 1..Len(Planned(c)) :
              \/ Has(c, Planned(c)[n])
              \/ \E j \in 1..Len(todo[c]) : todo[c][j] = Planned(c)[n]
    BY <1>1 DEF RInv, RolesOK
  <2>2. \A n \in 1..Len(Planned(c)) : Has(c, Planned(c)[n])
    BY <2>1
  <2>3. BlockOf(c) \in KnownBlocks /\ MembersOf(c) \in KnownSets
    BY <1>1, <2>1, WorksWith
  <2>4. ask[c].with \in Override /\ BlockOf(c) \in Block /\ MembersOf(c) \in Seq(CurveRef)
    BY <2>1, <2>3, ReferencesApart
  <2>5. \A n \in 1..Len(Planned(c)) : Planned(c)[n] # NoId
    BY <2>2, ReferenceAssumption DEF Has
  <2> DEFINE x == Curves(ask[c].with, BlockOf(c), MembersOf(c))[k]
  <2>6. x = Literal \/ \E n \in 1..Len(Planned(c)) : Planned(c)[n] = x
    BY <2>4, <2>5, RolesCovered DEF Planned
  <2> HIDE DEF x
  <2>7. x = Literal \/ x \in {i \in Ids : used[c][i] # NoRow}
    BY <2>2, <2>6 DEF Has
  <2> QED
    BY <2>7 DEF x
<1>2. IInv /\ RInv => RolesWereRead
  BY <1>1
<1> QED
  BY <1>2, RolesInductive, PTL
=============================================================================
