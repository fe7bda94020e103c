------------------------- MODULE EntityStoreProofs -------------------------
(***************************************************************************)
(* The entity store's safety for every number of clients, rows, owners,    *)
(* names and versions, in five layers, each with its invariant:            *)
(*   I    locks and version numbers  (IInv)                                *)
(*   II   what transactions write    (DInv)                                *)
(*   III  names, and the store as an AuditLedger  (NInv, HInv)             *)
(*   IV   the cascade to the graph   (RInv, CInv)                          *)
(*   V    the store next to the roll (IInv and DInv again)                 *)
(***************************************************************************)
EXTENDS RollJob, Sequences, SequenceTheorems, TLAPS

(***************************************************************************)
(* Part I.  The invariant says what each transaction holds at each of its  *)
(* statements (Holding), that the version rows it has inserted number and  *)
(* copy the head rows it has written (Pending), that transactions share no *)
(* row (Apart), and that the committed versions of each row are numbered   *)
(* 1 to k (Recorded).                                                      *)
(***************************************************************************)
Touched(c) == {i \in Ids : draft[c][i] # NoRow}
Numbered(c) == {v.id : v \in vdraft[c]}

\* The row whose version a transaction still owes.
Owing(c) == IF pc[c] \in {"index", "version"} THEN {cur[c]} ELSE {}

Outside == {"idle", "get", "read", "head", "refetch"}

CreatesNew(c) == pc[c] # "idle" /\ req[c].op = "create"

Holding(c) ==
    /\ pc[c] = "idle" => req[c] = NoRequest
    /\ pc[c] \in Outside => Touched(c) = {} /\ vdraft[c] = {}
    /\ pc[c] \in {"index", "version"} => cur[c] \in Touched(c) /\ cur[c] \notin Numbered(c)
    /\ Touched(c) = Numbered(c) \cup Owing(c)
    /\ req[c].op = "delete" => \A i \in Touched(c) : ~draft[c][i].live
    /\ pc[c] = "cascade" => req[c].op = "delete" /\ req[c].id \in Touched(c)

Creating(c) ==
    /\ CreatesNew(c) =>
          /\ req[c].id \in Ids /\ head[req[c].id] = NoRow
          /\ req[c].set \in [name : Names, app : Ids \cup {NoId}, body : Bodies]
    /\ \A i \in Touched(c) : head[i] = NoRow => CreatesNew(c) /\ i = req[c].id

Pending(c) ==
    /\ \A v \in vdraft[c] : v.row = draft[c][v.id] /\ v.no = NextNo(versions, v.id)
    /\ \A v, w \in vdraft[c] : v.id = w.id => v = w

Apart(c, d) ==
    /\ Touched(c) \cap Touched(d) = {}
    /\ CreatesNew(c) => req[c].id \notin Touched(d) \cup {req[d].id}

Recorded ==
    /\ \A i \in Ids : \E k \in Nat : NumbersOf(versions, i) = 1..k
    /\ \A v, w \in versions : v.id = w.id /\ v.no = w.no => v = w
    /\ \A i \in Ids : head[i] = NoRow => NumbersOf(versions, i) = {}

IInv == /\ TypeOK
        /\ \A c \in Clients : Holding(c) /\ Creating(c) /\ Pending(c)
        /\ \A c, d \in Clients : c # d => Apart(c, d)
        /\ Recorded

-----------------------------------------------------------------------------
(* Numbering.                                                              *)

\* MAX + 1 over the numbers 1..k, or over none, is k + 1.
LEMMA NextNoIsSuccessor ==
    ASSUME NEW vs, NEW i, NEW k \in Nat, NumbersOf(vs, i) = 1..k
    PROVE  NextNo(vs, i) = k + 1
<1> DEFINE S == NumbersOf(vs, i) \cup {0}
<1>1. S = 0..k
  OBVIOUS
<1>2. k \in S /\ \A m \in S : m <= k
  BY <1>1
<1>3. \A n \in S : (\A m \in S : m <= n) => n = k
  BY <1>1, <1>2
<1> DEFINE max == CHOOSE n \in S : \A m \in S : m <= n
<1>4. max = k
  BY <1>2, <1>3
<1>5. NextNo(vs, i) = 1 + max
  BY DEF NextNo
<1> HIDE DEF max
<1> QED
  BY <1>4, <1>5

\* Version rows of other entities do not change an entity's numbers.
LEMMA NumbersOfUnion ==
    ASSUME NEW vs, NEW ws, NEW i, \A w \in ws : w.id # i
    PROVE  NumbersOf(vs \cup ws, i) = NumbersOf(vs, i)
  BY DEF NumbersOf

\* ... and so not its next number.
LEMMA NextNoUnion ==
    ASSUME NEW vs, NEW ws, NEW i, \A w \in ws : w.id # i
    PROVE  NextNo(vs \cup ws, i) = NextNo(vs, i)
  BY NumbersOfUnion DEF NextNo

\* Version numbers start at 1.
LEMMA NextNoPositive ==
    ASSUME IInv, NEW i \in Ids
    PROVE  NextNo(versions, i) \in Nat \ {0}
  BY NextNoIsSuccessor DEF IInv, Recorded

-----------------------------------------------------------------------------
(* The ways a step changes one transaction.                                *)

\* At the start a row that is there has version 1, and no other.
LEMMA InitTables ==
    ASSUME Init
    PROVE  /\ head \in [Ids -> Row \cup {NoRow}] /\ head \in Inherited
           /\ versions \subseteq Version
           /\ \A v \in versions : /\ v.id \in Ids /\ head[v.id] # NoRow /\ v.row = head[v.id]
                                  /\ v.no = 1 /\ v.change = "create"
           /\ \A i \in Ids : head[i] # NoRow => NumbersOf(versions, i) = {1}
           /\ \A i \in Ids : head[i] = NoRow => NumbersOf(versions, i) = {}
           /\ \A i \in Ids : head[i] # NoRow => \E v \in versions : v.id = i
           /\ \A v, w \in versions : v.id = w.id => v = w
<1>1. head \in [Ids -> Row \cup {NoRow}] /\ head \in Inherited /\ versions = Backfilled(head)
  BY InheritedAssumption DEF Init
<1> DEFINE first(i) == [id |-> i, no |-> 1, change |-> "create", row |-> head[i]]
<1>2. \A v : v \in versions <=> \E i \in Ids : head[i] # NoRow /\ v = first(i)
  BY <1>1 DEF Backfilled
<1>3. ASSUME NEW i \in Ids, head[i] # NoRow PROVE first(i) \in Version
  BY <1>1, <1>3 DEF Version, Changes
<1>4. ASSUME NEW i \in Ids, head[i] # NoRow PROVE NumbersOf(versions, i) = {1}
  <2>1. first(i) \in versions
    BY <1>2, <1>4
  <2>2. \A v \in versions : v.no = 1
    BY <1>2
  <2> QED
    BY <2>1, <2>2 DEF NumbersOf
<1>5. \A i \in Ids : head[i] = NoRow => NumbersOf(versions, i) = {}
  BY <1>2 DEF NumbersOf
<1>6. \A v \in versions : /\ v.id \in Ids /\ head[v.id] # NoRow /\ v.row = head[v.id]
                          /\ v.no = 1 /\ v.change = "create" /\ v = first(v.id)
  BY <1>2
<1>7. ASSUME NEW i \in Ids, head[i] # NoRow PROVE \E v \in versions : v.id = i
  <2>1. first(i) \in versions /\ first(i).id = i
    BY <1>2, <1>7
  <2> QED
    BY <2>1
<1>8. versions \subseteq Version
  BY <1>3, <1>6
<1>9. \A v, w \in versions : v.id = w.id => v = w
  BY <1>6
<1> HIDE DEF first
<1> QED
  BY <1>1, <1>4, <1>5, <1>6, <1>7, <1>8, <1>9

\* The store as it is found satisfies the invariant.
LEMMA InitIInv == Init => IInv
<1> SUFFICES ASSUME Init PROVE IInv
  OBVIOUS
<1>0. head \in [Ids -> Row \cup {NoRow}] /\ versions \subseteq Version
  BY InitTables
<1> USE DEF Init
<1>1. TypeOK
  BY <1>0 DEF TypeOK, NoDraft, Steps, Replies, NoRequest, Request, Ops, EmptyPatch, Patch
<1>2. \A c \in Clients : Touched(c) = {} /\ Numbered(c) = {} /\ Owing(c) = {}
  BY DEF Touched, Numbered, Owing, NoDraft
<1>3. \A c \in Clients : Holding(c) /\ Creating(c) /\ Pending(c)
  BY <1>2 DEF Holding, Creating, Pending, CreatesNew, Outside
<1>4. \A c, d \in Clients : c # d => Apart(c, d)
  BY <1>2 DEF Apart, CreatesNew
<1>5. \A i \in Ids : NumbersOf(versions, i) = 1..0 \/ NumbersOf(versions, i) = 1..1
  <2>1. 1..0 = {} /\ 1..1 = {1}
    OBVIOUS
  <2> QED
    BY <2>1, InitTables
<1>6. Recorded
  BY <1>5, InitTables DEF Recorded
<1> QED
  BY <1>1, <1>3, <1>4, <1>6 DEF IInv

\* A step of c leaves what it does not touch of another transaction as it was.
LEMMA OthersUnchanged ==
    ASSUME IInv, NEW c \in Clients, NEW d \in Clients, c # d,
           UNCHANGED <<head, versions>>,
           pc'[d] = pc[d], req'[d] = req[d], cur'[d] = cur[d],
           draft'[d] = draft[d], vdraft'[d] = vdraft[d]
    PROVE  (Holding(d) /\ Creating(d) /\ Pending(d))'
<1>1. Touched(d)' = Touched(d) /\ Numbered(d)' = Numbered(d) /\ Owing(d)' = Owing(d)
  BY DEF Touched, Numbered, Owing
<1>2. CreatesNew(d)' = CreatesNew(d)
  BY DEF CreatesNew
<1>3. Holding(d) /\ Creating(d) /\ Pending(d)
  BY DEF IInv
<1>4. Holding(d)'
  BY <1>1, <1>3 DEF Holding
<1>5. Creating(d)'
  BY <1>1, <1>2, <1>3 DEF Creating
<1>6. Pending(d)'
  BY <1>3 DEF Pending
<1> QED
  BY <1>4, <1>5, <1>6

\* Two transactions stay apart when each touches and asks no more than before.
LEMMA ApartKept ==
    ASSUME NEW c, NEW d, Apart(c, d),
           Touched(c)' \subseteq Touched(c), Touched(d)' \subseteq Touched(d),
           CreatesNew(c)' => CreatesNew(c) /\ req'[c].id = req[c].id /\ req[c].id # NoId,
           req'[d].id \in {req[d].id, NoId}
    PROVE  Apart(c, d)'
  BY DEF Apart

\* Rolling back releases the transaction's rows and changes nothing committed.
LEMMA AbandonKeeps ==
    ASSUME IInv, NEW c \in Clients, NEW r \in Replies, Abandon(c, r)
    PROVE  IInv'
<1> USE DEF Abandon
<1>1. TypeOK'
  BY DEF IInv, TypeOK, Steps, NoRequest, Request, Ops, EmptyPatch, Patch, NoDraft
<1>2. /\ pc'[c] = "idle" /\ req'[c] = NoRequest /\ Touched(c)' = {}
      /\ vdraft'[c] = {} /\ Numbered(c)' = {} /\ Owing(c)' = {}
  BY DEF IInv, TypeOK, Touched, Numbered, Owing, NoDraft
<1>3. (Holding(c) /\ Creating(c) /\ Pending(c))'
  BY <1>2 DEF Holding, Creating, Pending, CreatesNew, Outside, NoRequest
<1>4. \A d \in Clients \ {c} :
         /\ pc'[d] = pc[d] /\ req'[d] = req[d] /\ cur'[d] = cur[d]
         /\ draft'[d] = draft[d] /\ vdraft'[d] = vdraft[d]
  BY DEF IInv, TypeOK
<1>5. \A d \in Clients \ {c} : (Holding(d) /\ Creating(d) /\ Pending(d))'
  BY <1>4, OthersUnchanged
<1>6. ASSUME NEW d \in Clients, NEW e \in Clients, d # e
      PROVE  Apart(d, e)'
  <2>1. Apart(d, e)
    BY <1>6 DEF IInv
  <2>2. Touched(d)' \subseteq Touched(d) /\ Touched(e)' \subseteq Touched(e)
    BY <1>2, <1>4 DEF Touched
  <2>3. req'[e].id \in {req[e].id, NoId}
    BY <1>2, <1>4 DEF NoRequest
  <2>4. CreatesNew(d)' => CreatesNew(d) /\ req'[d].id = req[d].id /\ req[d].id # NoId
    <3>1. CASE d = c
      BY <3>1, <1>2 DEF CreatesNew
    <3>2. CASE d # c
      BY <3>2, <1>4, SentinelAssumption DEF CreatesNew, IInv, Creating
    <3> QED
      BY <3>1, <3>2
  <2> QED
    BY <2>1, <2>2, <2>3, <2>4, ApartKept
<1>7. Recorded'
  BY DEF IInv, Recorded, NumbersOf
<1> QED
  BY <1>1, <1>3, <1>5, <1>6, <1>7 DEF IInv

\* A step that only moves c's control, between statements that hold the same.
LEMMA MoveKeeps ==
    ASSUME IInv, NEW c \in Clients, NEW step \in Steps \ {"idle"}, Goto(c, step),
           UNCHANGED <<head, versions, req, cur, draft, vdraft, reply>>,
           \/ pc[c] \in Outside \ {"idle"} /\ step \in Outside
           \/ pc[c] = "index" /\ step = "version"
           \/ pc[c] = "cascade" /\ step = "commit"
    PROVE  IInv'
<1> USE DEF Goto
<1>1. TypeOK'
  BY DEF IInv, TypeOK
<1>2. /\ pc'[c] = step /\ pc[c] # "idle"
      /\ \A d \in Clients \ {c} : pc'[d] = pc[d]
  BY DEF IInv, TypeOK, Outside
<1>3. \A d \in Clients : Touched(d)' = Touched(d) /\ Numbered(d)' = Numbered(d)
  BY DEF Touched, Numbered
<1>4. Owing(c)' = Owing(c)
  BY <1>2 DEF Owing, Outside
<1>5. \A d \in Clients : CreatesNew(d)' = CreatesNew(d)
  BY <1>2 DEF CreatesNew
<1>6. Holding(c)'
  BY <1>2, <1>3, <1>4 DEF IInv, Holding, Outside
<1>7. Creating(c)' /\ Pending(c)'
  BY <1>3, <1>5 DEF IInv, Creating, Pending
<1>8. \A d \in Clients \ {c} : (Holding(d) /\ Creating(d) /\ Pending(d))'
  BY <1>2, OthersUnchanged
<1>9. \A d, e \in Clients : d # e => Apart(d, e)'
  BY <1>3, <1>5 DEF IInv, Apart
<1>10. Recorded'
  BY DEF IInv, Recorded
<1> QED
  BY <1>1, <1>6, <1>7, <1>8, <1>9, <1>10 DEF IInv

\* A request begins with nothing drafted; a create's id is nobody else's.
LEMMA ArriveKeeps ==
    ASSUME IInv, NEW c \in Clients, Arrive(c)
    PROVE  IInv'
<1>1. PICK q \in CreateRequests \cup PatchRequests \cup OtherRequests :
         req' = [req EXCEPT ![c] = q] /\ Goto(c, FirstStep(q))
  BY DEF Arrive
<1>2. /\ pc[c] = "idle" /\ UNCHANGED <<head, versions, cur, draft, vdraft>>
      /\ reply' = [reply EXCEPT ![c] = "none"]
  BY DEF Arrive
<1>3. q \in Request
  BY RequestAssumption
     DEF CreateRequests, PatchRequests, OtherRequests, KnownRefs, FreshIds, Request, Ops, Patch,
         EmptyPatch
<1>4. FirstStep(q) \in {"read", "get", "head"}
  BY DEF FirstStep
<1>5. /\ pc'[c] \in {"read", "get", "head"} /\ req'[c] = q
      /\ \A d \in Clients \ {c} : pc'[d] = pc[d] /\ req'[d] = req[d]
  BY <1>1, <1>4 DEF Goto, IInv, TypeOK
<1>6. TypeOK'
  BY <1>1, <1>2, <1>3, <1>4 DEF IInv, TypeOK, Goto, Steps, Replies
<1>7. \A d \in Clients : Touched(d)' = Touched(d) /\ Numbered(d)' = Numbered(d)
  BY <1>2 DEF Touched, Numbered
<1>8. Touched(c) = {} /\ vdraft[c] = {} /\ Numbered(c) = {} /\ req[c] = NoRequest
  BY <1>2 DEF IInv, Holding, Outside, Numbered
<1>9. Holding(c)' /\ Pending(c)'
  BY <1>2, <1>5, <1>7, <1>8 DEF Holding, Pending, Outside, Owing
<1>10. q.op = "create" =>
          /\ q.id \in Ids /\ head[q.id] = NoRow
          /\ q.set \in [name : Names, app : Ids \cup {NoId}, body : Bodies]
          /\ \A d \in Clients : req[d].id # q.id
  BY DEF CreateRequests, PatchRequests, OtherRequests, FreshIds, KnownRefs
<1>11. Creating(c)'
  BY <1>2, <1>5, <1>7, <1>8, <1>10 DEF Creating, CreatesNew
<1>12. \A d \in Clients \ {c} : (Holding(d) /\ Creating(d) /\ Pending(d))'
  BY <1>2, <1>5, OthersUnchanged
<1>13. ASSUME NEW d \in Clients, NEW e \in Clients, d # e
       PROVE  Apart(d, e)'
  <2>1. Apart(d, e) /\ Creating(d) /\ Creating(e)
    BY <1>13 DEF IInv
  <2>2. CASE d = c
    <3>1. q.op = "create" => q.id \notin Touched(e)
      BY <2>1, <1>10 DEF Creating, CreatesNew
    <3> QED
      BY <2>1, <2>2, <3>1, <1>5, <1>7, <1>10, <1>13 DEF Apart, CreatesNew
  <2>3. CASE e = c
    <3>1. q.op # "create" => q.id \in KnownRefs
      BY DEF CreateRequests, PatchRequests, OtherRequests
    <3>2. CreatesNew(d) => req[d].id # q.id
      BY <2>1, <3>1, <1>10, SentinelAssumption DEF Creating, KnownRefs
    <3> QED
      BY <2>1, <2>3, <3>2, <1>5, <1>7, <1>13 DEF Apart, CreatesNew
  <2>4. CASE d # c /\ e # c
    BY <2>1, <2>4, <1>5, <1>7 DEF Apart, CreatesNew
  <2> QED
    BY <2>2, <2>3, <2>4
<1>14. Recorded'
  BY <1>2 DEF IInv, Recorded
<1> QED
  BY <1>6, <1>9, <1>11, <1>12, <1>13, <1>14 DEF IInv

\* A head write takes a row no other transaction holds.
LEMMA WriteHeadKeeps ==
    ASSUME IInv, NEW c \in Clients, NEW i \in Ids, NEW r \in Row,
           NEW step \in {"index", "version"}, WriteHead(c, i, r, step),
           pc[c] \in {"head", "cascade"},
           i \notin Touched(c),
           \A d \in Clients \ {c} : i \notin Touched(d),
           req[c].op = "delete" => ~r.live,
           head[i] = NoRow => CreatesNew(c) /\ i = req[c].id,
           \A d \in Clients \ {c} : CreatesNew(d) => req[d].id # i
    PROVE  IInv'
<1> USE DEF WriteHead, Goto
<1>1. TypeOK'
  BY DEF IInv, TypeOK, Steps
<1>2. /\ pc'[c] = step /\ cur'[c] = i /\ draft'[c] = [draft[c] EXCEPT ![i] = r]
      /\ req'[c] = req[c] /\ vdraft'[c] = vdraft[c]
      /\ \A d \in Clients \ {c} :
            /\ pc'[d] = pc[d] /\ req'[d] = req[d] /\ cur'[d] = cur[d]
            /\ draft'[d] = draft[d] /\ vdraft'[d] = vdraft[d]
  BY DEF IInv, TypeOK
<1>3. r # NoRow
  BY SentinelAssumption
<1>4. /\ Touched(c)' = Touched(c) \cup {i} /\ Numbered(c)' = Numbered(c) /\ Owing(c)' = {i}
      /\ \A d \in Clients \ {c} : Touched(d)' = Touched(d)
  BY <1>2, <1>3 DEF Touched, Numbered, Owing, IInv, TypeOK
<1>5. Touched(c) = Numbered(c) /\ Owing(c) = {}
  BY DEF IInv, Holding, Owing
<1>6. \A j \in Touched(c) : draft'[c][j] = draft[c][j]
  BY <1>2 DEF IInv, TypeOK, Touched
<1>7. draft'[c][i] = r
  BY <1>2 DEF IInv, TypeOK
<1>8. Holding(c)'
  BY <1>2, <1>4, <1>5, <1>6, <1>7 DEF IInv, Holding, Outside
<1>9. CreatesNew(c)' = CreatesNew(c)
  BY <1>2 DEF CreatesNew
<1>10. Creating(c)'
  BY <1>2, <1>4, <1>9 DEF IInv, Creating
<1>11. Pending(c)'
  BY <1>2, <1>5, <1>6 DEF IInv, Pending, Numbered
<1>12. \A d \in Clients \ {c} : (Holding(d) /\ Creating(d) /\ Pending(d))'
  BY <1>2, OthersUnchanged
<1>13. \A d \in Clients : CreatesNew(d)' = CreatesNew(d)
  BY <1>2, <1>9 DEF CreatesNew
<1>14. \A d, e \in Clients : d # e => Apart(d, e)'
  BY <1>2, <1>4, <1>13 DEF IInv, Apart
<1>15. Recorded'
  BY DEF IInv, Recorded
<1> QED
  BY <1>1, <1>8, <1>10, <1>11, <1>12, <1>14, <1>15 DEF IInv

\* The version insert numbers the row its transaction holds, after the committed ones.
LEMMA WriteVersionKeeps ==
    ASSUME IInv, NEW c \in Clients, WriteVersion(c)
    PROVE  IInv'
<1> DEFINE i == cur[c]
           n == NextNo(versions \cup vdraft[c], i)
           v == [id |-> i, no |-> n, change |-> ChangeType(req[c].op), row |-> draft[c][i]]
<1>1. /\ pc[c] = "version"
      /\ vdraft' = [vdraft EXCEPT ![c] = @ \cup {v}]
      /\ pc' = [pc EXCEPT ![c] = IF CascadeDue(c) THEN "cascade" ELSE "commit"]
      /\ UNCHANGED <<head, versions, req, cur, draft, reply>>
  BY DEF WriteVersion, Goto
<1>2. i \in Ids /\ i \in Touched(c) /\ i \notin Numbered(c)
  BY <1>1 DEF IInv, Holding, Touched
<1>3. \A w \in vdraft[c] : w.id # i
  BY <1>2 DEF Numbered
<1>4. draft[c][i] \in Row
  BY <1>2 DEF IInv, TypeOK, Touched
<1>5. n = NextNo(versions, i)
  BY <1>3, NextNoUnion
<1>6. n \in Nat \ {0}
  BY <1>2, <1>5, NextNoPositive
<1>7. ChangeType(req[c].op) \in Changes
  BY DEF IInv, TypeOK, Request, Ops, ChangeType, Changes
<1>8. v \in Version
  BY <1>2, <1>4, <1>6, <1>7 DEF Version
<1>9. TypeOK'
  <2>1. vdraft' \in [Clients -> SUBSET Version]
    BY <1>1, <1>8 DEF IInv, TypeOK
  <2>2. pc' \in [Clients -> Steps]
    BY <1>1 DEF IInv, TypeOK, Steps
  <2> QED
    BY <1>1, <2>1, <2>2 DEF IInv, TypeOK
<1>10. /\ vdraft'[c] = vdraft[c] \cup {v}
       /\ pc'[c] = IF CascadeDue(c) THEN "cascade" ELSE "commit"
       /\ \A d \in Clients \ {c} : pc'[d] = pc[d] /\ vdraft'[d] = vdraft[d]
  BY <1>1 DEF IInv, TypeOK
<1>11. v.id = i /\ v.no = NextNo(versions, i) /\ v.row = draft[c][i]
  BY <1>5
<1> HIDE DEF v, n
<1>12. \A d \in Clients : Touched(d)' = Touched(d)
  BY <1>1 DEF Touched
<1>13. Numbered(c)' = Numbered(c) \cup {i} /\ Owing(c)' = {} /\ Owing(c) = {i}
  BY <1>1, <1>10, <1>11 DEF Numbered, Owing
<1>14. Holding(c)'
  BY <1>1, <1>2, <1>10, <1>12, <1>13 DEF IInv, Holding, Outside, CascadeDue
<1>15. \A d \in Clients : CreatesNew(d)' = CreatesNew(d)
  BY <1>1, <1>10 DEF CreatesNew
<1>16. Creating(c)'
  BY <1>1, <1>12, <1>15 DEF IInv, Creating
<1>17. Pending(c)'
  BY <1>1, <1>10, <1>3, <1>11 DEF IInv, Pending
<1>18. \A d \in Clients \ {c} : (Holding(d) /\ Creating(d) /\ Pending(d))'
  BY <1>1, <1>10, OthersUnchanged
<1>19. \A d, e \in Clients : d # e => Apart(d, e)'
  BY <1>1, <1>12, <1>15 DEF IInv, Apart
<1>20. Recorded'
  BY <1>1 DEF IInv, Recorded
<1> QED
  BY <1>9, <1>14, <1>16, <1>17, <1>18, <1>19, <1>20 DEF IInv

\* A commit writes its own drafts and nothing that others have drafted.
LEMMA CommitWritesDrafts ==
    ASSUME IInv, NEW c \in Clients, Commit(c)
    PROVE  /\ \A i \in Touched(c) : head'[i] = draft[c][i]
           /\ \A i \in Ids \ Touched(c) : head'[i] = head[i]
           /\ versions' = versions \cup vdraft[c]
           /\ Touched(c) = Numbered(c)
<1>1. \A i \in Ids : i # NoId
  BY SentinelAssumption
<1> QED
  BY <1>1 DEF Commit, View, Stored, Touched, IInv, Holding, Owing

\* A commit leaves the history of every other row alone.
LEMMA CommitLeaves ==
    ASSUME IInv, NEW c \in Clients, Commit(c), NEW i \in Ids \ Touched(c)
    PROVE  NumbersOf(versions', i) = NumbersOf(versions, i)
<1>1. versions' = versions \cup vdraft[c] /\ Touched(c) = Numbered(c)
  BY CommitWritesDrafts
<1>2. \A w \in vdraft[c] : w.id # i
  BY <1>1 DEF Numbered
<1>3. NumbersOf(versions \cup vdraft[c], i) = NumbersOf(versions, i)
  BY <1>2, NumbersOfUnion
<1> QED
  BY <1>1, <1>3

\* A commit extends the history 1..k of each row it has drafted by k + 1.
LEMMA CommitExtends ==
    ASSUME IInv, NEW c \in Clients, Commit(c), NEW i \in Touched(c)
    PROVE  \E k \in Nat : \E v \in vdraft[c] :
              /\ NumbersOf(versions, i) = 1..k
              /\ NumbersOf(versions', i) = 1..(k + 1)
              /\ v.id = i /\ v.no = k + 1 /\ v.row = head'[i]
              /\ \A w \in vdraft[c] : w.id = i => w = v
<1>1. PICK k \in Nat : NumbersOf(versions, i) = 1..k
  BY DEF IInv, Recorded, Touched
<1>2. PICK v \in vdraft[c] : v.id = i
  BY CommitWritesDrafts DEF Numbered
<1>3. v.no = k + 1 /\ v.row = draft[c][i] /\ \A w \in vdraft[c] : w.id = i => w = v
  BY <1>1, <1>2, NextNoIsSuccessor DEF IInv, Pending
<1>4. NumbersOf(versions', i) = NumbersOf(versions, i) \cup {k + 1}
  BY <1>2, <1>3, CommitWritesDrafts DEF NumbersOf
<1>5. NumbersOf(versions', i) = 1..(k + 1)
  BY <1>1, <1>4
<1>6. v.row = head'[i]
  BY <1>3, CommitWritesDrafts
<1> QED
  BY <1>1, <1>2, <1>3, <1>5, <1>6

\* A commit moves the drafts of one transaction into the tables, numbers included.
LEMMA CommitKeeps ==
    ASSUME IInv, NEW c \in Clients, Commit(c)
    PROVE  IInv'
<1>1. /\ pc[c] = "commit"
      /\ head' = [i \in Ids |-> View(c, i)]
      /\ versions' = versions \cup vdraft[c]
      /\ pc' = [pc EXCEPT ![c] = "idle"]
      /\ req' = [req EXCEPT ![c] = NoRequest]
      /\ cur' = [cur EXCEPT ![c] = NoId]
      /\ draft' = [draft EXCEPT ![c] = NoDraft]
      /\ vdraft' = [vdraft EXCEPT ![c] = {}]
      /\ \E r \in {"ok", "lost"} : reply' = [reply EXCEPT ![c] = r]
  BY DEF Commit, Goto
<1>2. Touched(c) = Numbered(c)
  BY <1>1 DEF IInv, Holding, Owing
<1>3. \A i \in Ids : head'[i] = IF i \in Touched(c) THEN draft[c][i] ELSE head[i]
  BY <1>1, SentinelAssumption DEF View, Stored, Touched
<1>4. TypeOK'
  <2>1. head' \in [Ids -> Row \cup {NoRow}]
    BY <1>1, <1>3 DEF IInv, TypeOK
  <2>2. versions' \subseteq Version
    BY <1>1 DEF IInv, TypeOK
  <2>3. reply' \in [Clients -> Replies]
    BY <1>1 DEF IInv, TypeOK, Replies
  <2> QED
    BY <1>1, <2>1, <2>2, <2>3
       DEF IInv, TypeOK, Steps, NoRequest, Request, Ops, EmptyPatch, Patch, NoDraft
<1>5. /\ pc'[c] = "idle" /\ req'[c] = NoRequest /\ Touched(c)' = {}
      /\ vdraft'[c] = {} /\ Numbered(c)' = {} /\ Owing(c)' = {}
  BY <1>1 DEF IInv, TypeOK, Touched, Numbered, Owing, NoDraft
<1>6. (Holding(c) /\ Creating(c) /\ Pending(c))'
  BY <1>5 DEF Holding, Creating, Pending, CreatesNew, Outside, NoRequest
<1>7. \A d \in Clients \ {c} :
         /\ pc'[d] = pc[d] /\ req'[d] = req[d] /\ cur'[d] = cur[d]
         /\ draft'[d] = draft[d] /\ vdraft'[d] = vdraft[d]
  BY <1>1 DEF IInv, TypeOK
<1>8. \A d \in Clients \ {c} :
         Touched(d)' = Touched(d) /\ Numbered(d)' = Numbered(d) /\ Owing(d)' = Owing(d)
         /\ CreatesNew(d)' = CreatesNew(d)
  BY <1>7 DEF Touched, Numbered, Owing, CreatesNew
<1>9. ASSUME NEW d \in Clients \ {c}
      PROVE  (Holding(d) /\ Creating(d) /\ Pending(d))'
  <2>1. Holding(d) /\ Creating(d) /\ Pending(d) /\ Apart(c, d) /\ Apart(d, c)
    BY DEF IInv
  <2>2. Holding(d)'
    BY <1>7, <1>8, <2>1 DEF Holding
  <2>3. Creating(d)'
    <3>1. CreatesNew(d) => req[d].id \notin Touched(c)
      BY <2>1 DEF Apart
    <3>2. \A i \in Touched(d) : head'[i] = head[i]
      BY <1>3, <2>1 DEF Apart, Touched
    <3> QED
      BY <1>3, <1>7, <1>8, <2>1, <3>1, <3>2 DEF Creating
  <2>4. Pending(d)'
    <3>1. ASSUME NEW v \in vdraft[d] PROVE NextNo(versions', v.id) = NextNo(versions, v.id)
      <4>1. v.id \in Touched(d)
        BY <2>1 DEF Holding, Numbered
      <4>2. \A w \in vdraft[c] : w.id # v.id
        BY <1>2, <2>1, <4>1 DEF Apart, Numbered
      <4> QED
        BY <1>1, <4>2, NextNoUnion
    <3> QED
      BY <1>7, <2>1, <3>1 DEF Pending
  <2> QED
    BY <2>2, <2>3, <2>4
<1>10. ASSUME NEW d \in Clients, NEW e \in Clients, d # e
       PROVE  Apart(d, e)'
  <2>1. Apart(d, e)
    BY <1>10 DEF IInv
  <2>2. Touched(d)' \subseteq Touched(d) /\ Touched(e)' \subseteq Touched(e)
    BY <1>5, <1>8
  <2>3. req'[e].id \in {req[e].id, NoId}
    BY <1>5, <1>7 DEF NoRequest
  <2>4. CreatesNew(d)' => CreatesNew(d) /\ req'[d].id = req[d].id /\ req[d].id # NoId
    <3>1. CASE d = c
      BY <3>1, <1>5 DEF CreatesNew
    <3>2. CASE d # c
      BY <3>2, <1>7, <1>8, SentinelAssumption DEF IInv, Creating
    <3> QED
      BY <3>1, <3>2
  <2> QED
    BY <2>1, <2>2, <2>3, <2>4, ApartKept
<1>11. ASSUME NEW i \in Ids, i \notin Touched(c)
       PROVE  NumbersOf(versions', i) = NumbersOf(versions, i)
  BY <1>11, CommitLeaves
<1>12. ASSUME NEW i \in Touched(c)
       PROVE  \E k \in Nat : \E v \in vdraft[c] :
                 /\ NumbersOf(versions, i) = 1..k
                 /\ NumbersOf(versions', i) = 1..(k + 1)
                 /\ v.id = i /\ v.no = k + 1 /\ v.row = head'[i]
                 /\ \A w \in vdraft[c] : w.id = i => w = v
  BY CommitExtends, Zenon
<1>13. Recorded'
  <2>1. \A i \in Ids : \E k \in Nat : NumbersOf(versions', i) = 1..k
    BY <1>11, <1>12 DEF IInv, Recorded
  <2>2. ASSUME NEW v \in versions', NEW w \in versions', v.id = w.id, v.no = w.no
        PROVE  v = w
    <3>1. v.id \in Ids
      BY <1>4 DEF TypeOK, Version
    <3>2. CASE v.id \in Touched(c)
      <4>1. PICK k \in Nat, u \in vdraft[c] :
               /\ NumbersOf(versions, v.id) = 1..k /\ u.id = v.id /\ u.no = k + 1
               /\ \A x \in vdraft[c] : x.id = v.id => x = u
        BY <3>2, <1>12
      <4>2. \A x \in versions : x.id = v.id => x.no \in 1..k
        BY <4>1 DEF NumbersOf
      <4> QED
        BY <1>1, <2>2, <4>1, <4>2 DEF IInv, Recorded
    <3>3. CASE v.id \notin Touched(c)
      BY <1>1, <1>2, <2>2, <3>3 DEF IInv, Recorded, Numbered
    <3> QED
      BY <3>2, <3>3
  <2>3. ASSUME NEW i \in Ids, head'[i] = NoRow PROVE NumbersOf(versions', i) = {}
    <3>1. i \notin Touched(c) /\ head[i] = NoRow
      BY <1>3, <2>3 DEF Touched
    <3> QED
      BY <3>1, <1>11 DEF IInv, Recorded
  <2> QED
    BY <2>1, <2>2, <2>3 DEF Recorded
<1> QED
  BY <1>4, <1>6, <1>9, <1>10, <1>13 DEF IInv

-----------------------------------------------------------------------------
(* The actions, and the invariant of the specification.                    *)

\* The INSERT of a create: nobody else knows the id it was given.
LEMMA InsertHeadKeeps ==
    ASSUME IInv, NEW c \in Clients, InsertHead(c)
    PROVE  IInv'
<1> DEFINE i == req[c].id
<1>1. /\ pc[c] = "head" /\ req[c].op = "create" /\ CreatesNew(c)
      /\ WriteHead(c, i, Inserted(c), "index")
  BY DEF InsertHead, CreatesNew
<1>2. i \in Ids /\ req[c].set \in [name : Names, app : Ids \cup {NoId}, body : Bodies]
  BY <1>1 DEF IInv, Creating
<1>3. Inserted(c) \in Row
  BY <1>2, RequestAssumption DEF Inserted, Row
<1>4. Touched(c) = {}
  BY <1>1 DEF IInv, Holding, Outside
<1>5. \A d \in Clients \ {c} : i \notin Touched(d) /\ req[d].id # i
  BY <1>1 DEF IInv, Apart
<1> QED
  BY <1>1, <1>2, <1>3, <1>4, <1>5, WriteHeadKeeps

\* An UPDATE that finds its row finds a committed one that nobody else holds.
LEMMA UpdateKeeps ==
    ASSUME IInv, NEW c \in Clients, NEW i \in Ids \cup {NoId}, NEW step \in {"index", "version"},
           pc[c] \in {"head", "cascade"}, req[c].op # "create", i \notin Touched(c),
           Matches(c, i), ~LockedFor(c, i), WriteHead(c, i, Updated(c, View(c, i)), step)
    PROVE  IInv'
<1>1. i \in Ids /\ View(c, i) = head[i] /\ head[i] # NoRow
  BY DEF Matches, Owned, View, Stored, Touched
<1>2. head[i] \in Row /\ req[c].set \in Patch
  BY <1>1 DEF IInv, TypeOK, Request
<1>3. Updated(c, head[i]) \in Row
  <2>1. /\ Set(head[i].name, req[c].set.name) \in Names
        /\ Set(head[i].app, req[c].set.app) \in Ids \cup {NoId}
        /\ Set(head[i].body, req[c].set.body) \in Bodies
    BY <1>2 DEF Row, Patch, Set
  <2> QED
    BY <1>2, <2>1 DEF Updated, Row
<1>4. req[c].op = "delete" => ~Updated(c, head[i]).live
  BY DEF Updated
<1>5. \A d \in Clients \ {c} : i \notin Touched(d)
  BY <1>1 DEF LockedFor, Touched
<1>6. \A d \in Clients \ {c} : CreatesNew(d) => req[d].id # i
  BY <1>1 DEF IInv, Creating
<1> QED
  BY <1>1, <1>3, <1>4, <1>5, <1>6, WriteHeadKeeps

\* The first UPDATE of a patch, delete or restore.
LEMMA UpdateHeadKeeps ==
    ASSUME IInv, NEW c \in Clients, UpdateHead(c)
    PROVE  IInv'
<1>1. pc[c] = "head" /\ req[c].op # "create"
  BY DEF UpdateHead
<1>2. req[c].id \in Ids \cup {NoId} /\ req[c].id \notin Touched(c)
  BY <1>1 DEF IInv, TypeOK, Request, Holding, Outside
<1>3. \E step \in {"index", "version"} :
         WriteHead(c, req[c].id, Updated(c, View(c, req[c].id)), step)
  BY DEF UpdateHead
<1>4. Matches(c, req[c].id) /\ ~LockedFor(c, req[c].id)
  BY DEF UpdateHead
<1> QED
  BY <1>1, <1>2, <1>3, <1>4, UpdateKeeps

\* The cascade cannot meet a row of its own transaction: that one is no longer live.
LEMMA CascadeKeeps ==
    ASSUME IInv, NEW c \in Clients, Cascade(c)
    PROVE  IInv'
<1> DEFINE i == draft[c][req[c].id].app
<1>1. pc[c] = "cascade" /\ req[c].op = "delete" /\ req[c].id \in Touched(c)
  BY DEF Cascade, IInv, Holding
<1>2. i \in Ids \cup {NoId}
  BY <1>1 DEF IInv, TypeOK, Touched, Row
<1>3. CASE /\ Matches(c, i) /\ ~LockedFor(c, i)
           /\ WriteHead(c, i, Updated(c, View(c, i)), "version")
  <2>1. i \notin Touched(c)
    <3>1. SUFFICES ASSUME i \in Touched(c) PROVE FALSE
      OBVIOUS
    <3>2. View(c, i) = draft[c][i] /\ ~draft[c][i].live
      BY <1>1, <3>1, SentinelAssumption DEF View, Touched, IInv, Holding
    <3> QED
      BY <1>1, <1>3, <3>2 DEF Matches
  <2> QED
    BY <1>1, <1>2, <1>3, <2>1, UpdateKeeps
<1>4. CASE /\ Goto(c, "commit")
           /\ UNCHANGED <<head, versions, req, cur, draft, vdraft, reply>>
  BY <1>1, <1>4, MoveKeeps DEF Steps
<1> QED
  BY <1>3, <1>4 DEF Cascade

\* Every step preserves the inductive invariant: one case per action.
LEMMA NextIInv == IInv /\ [Next]_vars => IInv'
<1> SUFFICES ASSUME IInv, [Next]_vars PROVE IInv'
  OBVIOUS
<1>1. CASE UNCHANGED vars
  <2>1. \A d \in Clients :
           /\ Touched(d)' = Touched(d) /\ Numbered(d)' = Numbered(d)
           /\ Owing(d)' = Owing(d) /\ CreatesNew(d)' = CreatesNew(d)
    BY <1>1 DEF vars, Touched, Numbered, Owing, CreatesNew
  <2>2. TypeOK' /\ Recorded'
    BY <1>1 DEF vars, IInv, TypeOK, Recorded
  <2>3. \A d \in Clients : Holding(d)'
    BY <1>1, <2>1 DEF vars, IInv, Holding
  <2>4. \A d \in Clients : Creating(d)'
    BY <1>1, <2>1 DEF vars, IInv, Creating
  <2>5. \A d \in Clients : Pending(d)'
    BY <1>1 DEF vars, IInv, Pending
  <2>6. \A d, e \in Clients : d # e => Apart(d, e)'
    BY <1>1, <2>1 DEF vars, IInv, Apart
  <2> QED
    BY <2>2, <2>3, <2>4, <2>5, <2>6 DEF IInv
<1>2. ASSUME NEW c \in Clients, Arrive(c) PROVE IInv'
  BY <1>2, ArriveKeeps
<1>3. ASSUME NEW c \in Clients, Get(c) PROVE IInv'
  <2>1. \E r \in Replies : Abandon(c, r)
    BY <1>3 DEF Get, Replies
  <2> QED
    BY <2>1, AbandonKeeps
<1>4. ASSUME NEW c \in Clients, ReadForRestore(c) PROVE IInv'
  <2>1. \/ \E r \in Replies : Abandon(c, r)
        \/ /\ pc[c] = "read" /\ Goto(c, "head")
           /\ UNCHANGED <<head, versions, req, cur, draft, vdraft, reply>>
    BY <1>4 DEF ReadForRestore, Replies
  <2> QED
    BY <2>1, AbandonKeeps, MoveKeeps DEF Outside, Steps
<1>5. ASSUME NEW c \in Clients, Refetch(c) PROVE IInv'
  <2>1. \E r \in Replies : Abandon(c, r)
    BY <1>5 DEF Refetch, Replies
  <2> QED
    BY <2>1, AbandonKeeps
<1>6. ASSUME NEW c \in Clients, InsertHead(c) PROVE IInv'
  BY <1>6, InsertHeadKeeps
<1>7. ASSUME NEW c \in Clients, UpdateHead(c) PROVE IInv'
  BY <1>7, UpdateHeadKeeps
<1>8. ASSUME NEW c \in Clients, MissHead(c) PROVE IInv'
  <2>1. \/ \E r \in Replies : Abandon(c, r)
        \/ /\ pc[c] = "head" /\ Goto(c, "refetch")
           /\ UNCHANGED <<head, versions, req, cur, draft, vdraft, reply>>
    BY <1>8 DEF MissHead, Replies
  <2> QED
    BY <2>1, AbandonKeeps, MoveKeeps DEF Outside, Steps
<1>9. ASSUME NEW c \in Clients, ClaimName(c) PROVE IInv'
  <2>1. \/ \E r \in Replies : Abandon(c, r)
        \/ /\ pc[c] = "index" /\ Goto(c, "version")
           /\ UNCHANGED <<head, versions, req, cur, draft, vdraft, reply>>
    BY <1>9 DEF ClaimName, Replies
  <2> QED
    BY <2>1, AbandonKeeps, MoveKeeps DEF Steps
<1>10. ASSUME NEW c \in Clients, WriteVersion(c) PROVE IInv'
  BY <1>10, WriteVersionKeeps
<1>11. ASSUME NEW c \in Clients, Cascade(c) PROVE IInv'
  BY <1>11, CascadeKeeps
<1>12. ASSUME NEW c \in Clients, Commit(c) PROVE IInv'
  BY <1>12, CommitKeeps
<1>13. ASSUME NEW c \in Clients, Crash(c) \/ DeadlockAbort(c) PROVE IInv'
  <2>1. \E r \in Replies : Abandon(c, r)
    BY <1>13 DEF Crash, DeadlockAbort, Replies
  <2> QED
    BY <2>1, AbandonKeeps
<1> QED
  BY <1>1, <1>2, <1>3, <1>4, <1>5, <1>6, <1>7, <1>8, <1>9, <1>10, <1>11, <1>12, <1>13
     DEF Next, Statement

\* The inductive invariant holds in every reachable state.
LEMMA Invariance == Spec => []IInv
  BY InitIInv, NextIInv, PTL DEF Spec

-----------------------------------------------------------------------------
(* The results.                                                            *)

\* The rows and version rows of repository.py stay well formed, whatever
\* requests arrive and however they interleave, fail and crash.
THEOREM TypeCorrect == Spec => []TypeOK
<1>1. IInv => TypeOK
  BY DEF IInv
<1> QED
  BY <1>1, Invariance, PTL

\* _write_version's MAX + 1 never numbers a version twice: the row lock taken
\* by the head write orders the writers of an entity before they number.
THEOREM BackstopNeverActs == Spec => []BackstopIdle
<1>1. IInv => BackstopIdle
  <2> SUFFICES ASSUME IInv, NEW c \in Clients, NEW d \in Clients, c # d,
                      NEW v \in vdraft[c], NEW w \in versions \cup vdraft[d],
                      v.id = w.id, v.no = w.no
               PROVE  FALSE
    BY DEF BackstopIdle
  <2>1. v.id \in Touched(c) /\ v.id \in Ids /\ v.no = NextNo(versions, v.id)
    BY DEF IInv, Holding, Numbered, Pending, Touched
  <2>2. CASE w \in versions
    <3>1. PICK k \in Nat : NumbersOf(versions, v.id) = 1..k
      BY <2>1 DEF IInv, Recorded
    <3>2. v.no = k + 1
      BY <2>1, <3>1, NextNoIsSuccessor
    <3>3. w.no \in 1..k
      BY <2>2, <3>1 DEF NumbersOf
    <3> QED
      BY <3>2, <3>3
  <2>3. CASE w \in vdraft[d]
    <3>1. w.id \in Touched(d)
      BY <2>3 DEF IInv, Holding, Numbered
    <3> QED
      BY <2>1, <3>1 DEF IInv, Apart
  <2> QED
    BY <2>2, <2>3
<1> QED
  BY <1>1, Invariance, PTL

\* The audit trail of app.entity_versions has no gap and no repeated number,
\* for every number of concurrent writers, aborts and crashes.
THEOREM VersionsAreContiguous == Spec => []VersionsContiguous
<1>1. IInv => VersionsContiguous
  <2> SUFFICES ASSUME IInv PROVE VersionsContiguous
    OBVIOUS
  <2>1. ASSUME NEW i \in Ids PROVE NumbersOf(versions, i) = 1..(NextNo(versions, i) - 1)
    <3>1. PICK k \in Nat : NumbersOf(versions, i) = 1..k
      BY DEF IInv, Recorded
    <3>2. NextNo(versions, i) = k + 1
      BY <3>1, NextNoIsSuccessor
    <3> QED
      BY <3>1, <3>2
  <2>2. \A v, w \in versions : v.id = w.id /\ v.no = w.no => v = w
    BY DEF IInv, Recorded
  <2> QED
    BY <2>1, <2>2 DEF VersionsContiguous
<1> QED
  BY <1>1, Invariance, PTL

(***************************************************************************)
(* Part II.  Part I says which rows a transaction holds; here (Derived) each row it*)
(* holds is the committed one with the request's changes, however long the *)
(* transaction has been open, because nobody else can commit a change to a *)
(* locked row.                                                             *)
(***************************************************************************)
\* What a transaction has drafted, of which rows, and what its versions say.
Derived(c) ==
    /\ req[c].op \in {"delete", "restore"} => req[c].set = EmptyPatch
    /\ pc[c] \notin Outside => req[c].id \in Touched(c)
    /\ \A i \in Touched(c) : req[c].op = "create" =>
          i = req[c].id /\ draft[c][i].live /\ draft[c][i].owner = OwnerOf[c]
    /\ \A i \in Touched(c) : req[c].op # "create" =>
          /\ Owned(c, head[i]) /\ (head[i].live <=> req[c].op # "restore")
          /\ draft[c][i] = Updated(c, head[i])
          /\ i = req[c].id \/ (req[c].op = "delete" /\ i = head[req[c].id].app)
    /\ \A v \in vdraft[c] : v.change = ChangeType(req[c].op)

DInv == \A c \in Clients : Derived(c)

-----------------------------------------------------------------------------
(* The kinds of steps.                                                     *)

Moves(c, step) == Goto(c, step) /\ UNCHANGED <<head, versions, req, cur, draft, vdraft, reply>>

Claims(c) ==
    /\ pc[c] = "index" /\ Moves(c, "version")
    /\ ~KeyTaken(c, cur[c])
    /\ \A d \in Clients \ {c} : ~KeyHeldBy(d, draft[c][cur[c]])

Passes(c) ==
    /\ pc[c] = "cascade" /\ Moves(c, "commit")
    /\ ~Matches(c, draft[c][req[c].id].app)

Inserts(c) ==
    /\ pc[c] = "head" /\ req[c].op = "create" /\ req[c].id \in Ids
    /\ Inserted(c) \in Row
    /\ WriteHead(c, req[c].id, Inserted(c), "index")

\* The UPDATE of a row nobody holds.
Updates(c, i, step) ==
    /\ pc[c] \in {"head", "cascade"} /\ req[c].op # "create"
    /\ i \in Ids \ Touched(c)
    /\ Owned(c, head[i]) /\ (head[i].live <=> req[c].op # "restore")
    /\ Updated(c, head[i]) \in Row
    /\ WriteHead(c, i, Updated(c, head[i]), step)
    /\ pc[c] = "head" =>
          i = req[c].id /\ step = IF req[c].op = "delete" THEN "version" ELSE "index"
    /\ pc[c] = "cascade" =>
          /\ req[c].op = "delete" /\ req[c].id \in Touched(c)
          /\ i = draft[c][req[c].id].app /\ step = "version"

StepOf(c) ==
    \/ Arrive(c) \/ (\E r \in Replies : Abandon(c, r))
    \/ pc[c] \in Outside \ {"idle"} /\ \E step \in Outside \ {"idle"} : Moves(c, step)
    \/ Claims(c) \/ Passes(c) \/ Inserts(c) \/ (\E i, step : Updates(c, i, step))
    \/ WriteVersion(c) \/ Commit(c)

LEMMA UpdatesFacts ==
    ASSUME IInv, NEW c \in Clients, NEW i \in Ids \cup {NoId}, i \notin Touched(c), Matches(c, i)
    PROVE  /\ i \in Ids /\ View(c, i) = head[i]
           /\ Owned(c, head[i]) /\ (head[i].live <=> req[c].op # "restore")
           /\ Updated(c, head[i]) \in Row
<1>1. i \in Ids /\ View(c, i) = head[i] /\ head[i] # NoRow
  BY DEF Matches, Owned, View, Stored, Touched
<1>2. head[i] \in Row /\ req[c].set \in Patch
  BY <1>1 DEF IInv, TypeOK, Request
<1>3. /\ Set(head[i].name, req[c].set.name) \in Names
      /\ Set(head[i].app, req[c].set.app) \in Ids \cup {NoId}
      /\ Set(head[i].body, req[c].set.body) \in Bodies
  BY <1>2 DEF Row, Patch, Set
<1>4. Updated(c, head[i]) \in Row
  BY <1>2, <1>3 DEF Updated, Row
<1> QED
  BY <1>1, <1>4 DEF Matches

\* A step leaves the tables and all transactions alone, or is one of these.
LEMMA StepKinds ==
    ASSUME IInv, [Next]_vars
    PROVE  UNCHANGED vars \/ \E c \in Clients : StepOf(c)
<1>1. ASSUME NEW c \in Clients, Get(c) \/ Refetch(c) \/ Crash(c) \/ DeadlockAbort(c)
      PROVE  \E r \in Replies : Abandon(c, r)
  BY <1>1 DEF Get, Refetch, Crash, DeadlockAbort, Replies
<1>2. ASSUME NEW c \in Clients, ReadForRestore(c) \/ MissHead(c)
      PROVE  \/ \E r \in Replies : Abandon(c, r)
             \/ pc[c] \in Outside \ {"idle"} /\ \E step \in Outside \ {"idle"} : Moves(c, step)
  BY <1>2 DEF ReadForRestore, MissHead, Replies, Outside, Moves
<1>3. ASSUME NEW c \in Clients, ClaimName(c)
      PROVE  (\E r \in Replies : Abandon(c, r)) \/ Claims(c)
  BY <1>3 DEF ClaimName, Claims, Moves, Replies
<1>4. ASSUME NEW c \in Clients, InsertHead(c) PROVE Inserts(c)
  <2>1. CreatesNew(c) /\ pc[c] = "head" /\ WriteHead(c, req[c].id, Inserted(c), "index")
    BY <1>4 DEF InsertHead, CreatesNew
  <2>2. /\ req[c].op = "create" /\ req[c].id \in Ids
        /\ req[c].set \in [name : Names, app : Ids \cup {NoId}, body : Bodies]
    BY <2>1 DEF IInv, Creating, CreatesNew
  <2>3. Inserted(c) \in Row
    BY <2>2, RequestAssumption DEF Inserted, Row
  <2> QED
    BY <2>1, <2>2, <2>3 DEF Inserts
<1>5. ASSUME NEW c \in Clients, UpdateHead(c) PROVE \E i, step : Updates(c, i, step)
  <2> DEFINE i == req[c].id
             step == IF req[c].op = "delete" THEN "version" ELSE "index"
  <2>1. /\ pc[c] = "head" /\ req[c].op # "create" /\ Matches(c, i)
        /\ WriteHead(c, i, Updated(c, View(c, i)), step)
    BY <1>5 DEF UpdateHead
  <2>2. i \in Ids \cup {NoId} /\ i \notin Touched(c)
    BY <2>1 DEF IInv, TypeOK, Request, Holding, Outside
  <2>3. Updates(c, i, step)
    BY <2>1, <2>2, UpdatesFacts DEF Updates
  <2> QED
    BY <2>3
<1>6. ASSUME NEW c \in Clients, Cascade(c) PROVE Passes(c) \/ \E i, step : Updates(c, i, step)
  <2> DEFINE i == draft[c][req[c].id].app
  <2>1. pc[c] = "cascade" /\ req[c].op = "delete" /\ req[c].id \in Touched(c)
    BY <1>6 DEF Cascade, IInv, Holding
  <2>2. CASE Matches(c, i) /\ WriteHead(c, i, Updated(c, View(c, i)), "version")
    <3>1. i \in Ids \cup {NoId}
      BY <2>1 DEF IInv, TypeOK, Touched, Row
    <3>2. ASSUME i \in Touched(c) PROVE FALSE
      <4>1. View(c, i) = draft[c][i] /\ ~draft[c][i].live
        BY <2>1, <3>2, SentinelAssumption DEF View, Touched, IInv, Holding
      <4> QED
        BY <2>1, <2>2, <4>1 DEF Matches
    <3>3. Updates(c, i, "version")
      BY <2>1, <2>2, <3>1, <3>2, UpdatesFacts DEF Updates
    <3> QED
      BY <3>3
  <2>3. CASE /\ ~Matches(c, i) /\ Goto(c, "commit")
             /\ UNCHANGED <<head, versions, req, cur, draft, vdraft, reply>>
    BY <2>1, <2>3 DEF Passes, Moves
  <2> QED
    BY <1>6, <2>2, <2>3 DEF Cascade
<1>7. ASSUME NEW c \in Clients, Arrive(c) \/ Statement(c) \/ Crash(c) \/ DeadlockAbort(c)
      PROVE  StepOf(c)
  BY <1>1, <1>2, <1>3, <1>4, <1>5, <1>6, <1>7, Zenon DEF Statement, StepOf
<1> QED
  BY <1>7, Zenon DEF Next

\* A step of c is nobody else's.
LEMMA OthersAlone ==
    ASSUME IInv, NEW c \in Clients, StepOf(c), NEW d \in Clients \ {c}
    PROVE  /\ pc'[d] = pc[d] /\ req'[d] = req[d] /\ cur'[d] = cur[d]
           /\ draft'[d] = draft[d] /\ vdraft'[d] = vdraft[d]
<1> USE DEF IInv, TypeOK
<1>1. CASE Arrive(c)
  BY <1>1 DEF Arrive, Goto
<1>2. CASE \E r \in Replies : Abandon(c, r)
  BY <1>2 DEF Abandon
<1>3. CASE (\E step : Moves(c, step)) \/ Claims(c) \/ Passes(c)
  BY <1>3 DEF Moves, Claims, Passes, Goto
<1>4. CASE Inserts(c) \/ \E i, step : Updates(c, i, step)
  BY <1>4 DEF Inserts, Updates, WriteHead, Goto
<1>5. CASE WriteVersion(c) \/ Commit(c)
  BY <1>5 DEF WriteVersion, Commit, Goto
<1> QED
  BY <1>1, <1>2, <1>3, <1>4, <1>5 DEF StepOf

\* Only a commit changes the tables.
LEMMA TablesAlone ==
    ASSUME NEW c \in Clients, StepOf(c)
    PROVE  UNCHANGED <<head, versions>> \/ Commit(c)
BY DEF StepOf, Arrive, Abandon, Moves, Claims, Passes, Inserts, Updates, WriteHead, WriteVersion

\* A row somebody holds changes only by that client's commit.
LEMMA HeldRows ==
    ASSUME IInv, NEW c \in Clients, StepOf(c), NEW d \in Clients \ {c}, NEW i \in Touched(d)
    PROVE  head'[i] = head[i]
<1>1. i \notin Touched(c) /\ i \in Ids
  BY DEF IInv, Apart, Touched
<1> QED
  BY <1>1, TablesAlone, CommitWritesDrafts

LEMMA DerivedKept ==
    ASSUME IInv, NEW d \in Clients, Derived(d),
           pc'[d] = pc[d], req'[d] = req[d], draft'[d] = draft[d], vdraft'[d] = vdraft[d],
           \A i \in Touched(d) : head'[i] = head[i]
    PROVE  Derived(d)'
<1>1. Touched(d)' = Touched(d)
  BY DEF Touched
<1>2. \A r : Updated(d, r)' = Updated(d, r) /\ Owned(d, r)' = Owned(d, r)
  BY DEF Updated, Owned
<1>3. pc[d] \in Outside => Touched(d) = {}
  BY DEF IInv, Holding
<1> QED
  BY <1>1, <1>2, <1>3 DEF Derived, Updated, Owned

-----------------------------------------------------------------------------
(* Every step keeps drafts derived from the committed rows.                *)

LEMMA WriteDerived ==
    ASSUME IInv, NEW c \in Clients, Derived(c), NEW i \in Ids, NEW r \in Row, NEW step,
           WriteHead(c, i, r, step), step \in {"index", "version"},
           req[c].id \in Touched(c) \/ i = req[c].id,
           req[c].op = "create" => i = req[c].id /\ r.live /\ r.owner = OwnerOf[c],
           req[c].op # "create" =>
              /\ Owned(c, head[i]) /\ (head[i].live <=> req[c].op # "restore")
              /\ r = Updated(c, head[i])
              /\ i = req[c].id \/ (req[c].op = "delete" /\ i = head[req[c].id].app),
           i \notin Touched(c)
    PROVE  Derived(c)'
<1>1. /\ UNCHANGED <<head, req, vdraft>> /\ r # NoRow
      /\ pc'[c] = step
      /\ draft'[c][i] = r /\ \A j \in Ids \ {i} : draft'[c][j] = draft[c][j]
  BY SentinelAssumption DEF WriteHead, Goto, IInv, TypeOK
<1>2. Touched(c)' = Touched(c) \cup {i}
  BY <1>1 DEF Touched
<1>3. \A j \in Touched(c) : j # i /\ j \in Ids /\ draft'[c][j] = draft[c][j]
  BY <1>1 DEF Touched
<1>4. req'[c] = req[c] /\ vdraft'[c] = vdraft[c] /\ \A j : head'[j] = head[j]
  BY <1>1
<1>5. \A x : Updated(c, x)' = Updated(c, x) /\ Owned(c, x)' = Owned(c, x)
  BY <1>4 DEF Updated, Owned
<1>6. \A j \in Touched(c)' : req'[c].op = "create" =>
          j = req'[c].id /\ draft'[c][j].live /\ draft'[c][j].owner = OwnerOf[c]
  BY <1>1, <1>2, <1>3, <1>4 DEF Derived
<1>7. ASSUME NEW j \in Touched(c)', req'[c].op # "create"
      PROVE  /\ Owned(c, head[j]) /\ (head[j].live <=> req[c].op # "restore")
             /\ draft'[c][j] = Updated(c, head[j])
             /\ j = req[c].id \/ (req[c].op = "delete" /\ j = head[req[c].id].app)
  <2>1. CASE j = i
    BY <1>1, <1>4, <1>7, <2>1
  <2>2. CASE j \in Touched(c)
    BY <1>3, <1>4, <1>7, <2>2 DEF Derived
  <2> QED
    BY <1>2, <2>1, <2>2
<1> QED
  BY <1>1, <1>2, <1>4, <1>5, <1>6, <1>7 DEF Derived, Outside, Updated, Owned

LEMMA StepDerived ==
    ASSUME IInv, NEW c \in Clients, Derived(c), StepOf(c)
    PROVE  Derived(c)'
<1>1. CASE Arrive(c)
  <2>1. PICK q \in CreateRequests \cup PatchRequests \cup OtherRequests :
           req'[c] = q /\ pc'[c] = FirstStep(q)
    BY <1>1 DEF Arrive, Goto, IInv, TypeOK
  <2>2. Touched(c) = {} /\ vdraft[c] = {} /\ UNCHANGED <<draft, vdraft>>
    BY <1>1 DEF Arrive, IInv, Holding, Outside
  <2>3. q.op \in {"delete", "restore"} => q.set = EmptyPatch
    BY DEF CreateRequests, PatchRequests, OtherRequests
  <2> QED
    BY <2>1, <2>2, <2>3 DEF Derived, Touched, FirstStep, Outside
<1>2. CASE (\E r \in Replies : Abandon(c, r)) \/ Commit(c)
  <2>1. /\ pc'[c] = "idle" /\ req'[c] = NoRequest /\ draft'[c] = NoDraft /\ vdraft'[c] = {}
    BY <1>2 DEF Abandon, Commit, Goto, IInv, TypeOK
  <2>2. Touched(c)' = {}
    BY <2>1 DEF Touched, NoDraft
  <2> QED
    BY <2>1, <2>2 DEF Derived, Outside, NoRequest
<1>3. ASSUME NEW step, Moves(c, step), pc[c] \in Outside => step \in Outside
      PROVE  Derived(c)'
  <2>1. /\ UNCHANGED <<head, req, draft, vdraft>> /\ pc'[c] = step
    BY <1>3 DEF Moves, Goto, IInv, TypeOK
  <2>2. Touched(c)' = Touched(c) /\ \A r : Updated(c, r)' = Updated(c, r) /\ Owned(c, r)' = Owned(c, r)
    BY <2>1 DEF Touched, Updated, Owned
  <2> QED
    BY <1>3, <2>1, <2>2 DEF Derived, Updated, Owned
<1>4. CASE Claims(c) \/ Passes(c)
  BY <1>3, <1>4 DEF Claims, Passes, Outside
<1>5. CASE Inserts(c)
  <2>1. Inserted(c).live /\ Inserted(c).owner = OwnerOf[c]
    BY DEF Inserted
  <2>2. Touched(c) = {}
    BY <1>5 DEF Inserts, IInv, Holding, Outside
  <2> QED
    BY <1>5, <2>1, <2>2, WriteDerived DEF Inserts
<1>6. ASSUME NEW i, NEW step, Updates(c, i, step) PROVE Derived(c)'
  <2>1. CASE pc[c] = "head"
    BY <1>6, <2>1, WriteDerived DEF Updates
  <2>2. CASE pc[c] = "cascade"
    <3>1. /\ req[c].op = "delete" /\ req[c].id \in Touched(c) /\ req[c].set = EmptyPatch
          /\ draft[c][req[c].id] = Updated(c, head[req[c].id])
          /\ i = draft[c][req[c].id].app /\ step = "version"
      BY <1>6, <2>2 DEF Updates, Derived
    <3>2. i = head[req[c].id].app
      BY <3>1 DEF Updated, Set, EmptyPatch
    <3> QED
      BY <1>6, <3>1, <3>2, WriteDerived DEF Updates
  <2> QED
    BY <1>6, <2>1, <2>2 DEF Updates
<1>7. CASE WriteVersion(c)
  <2>1. /\ UNCHANGED <<head, req, draft>> /\ pc[c] = "version"
        /\ \A v \in vdraft'[c] : v \in vdraft[c] \/ v.change = ChangeType(req[c].op)
    BY <1>7 DEF WriteVersion, IInv, TypeOK
  <2>2. Touched(c)' = Touched(c) /\ \A r : Updated(c, r)' = Updated(c, r) /\ Owned(c, r)' = Owned(c, r)
    BY <2>1 DEF Touched, Updated, Owned
  <2> QED
    BY <2>1, <2>2 DEF Derived, Updated, Owned, Outside
<1> QED
  BY <1>1, <1>2, <1>3, <1>4, <1>5, <1>6, <1>7 DEF StepOf

LEMMA NextDInv == IInv /\ DInv /\ [Next]_vars => DInv'
<1> SUFFICES ASSUME IInv, DInv, [Next]_vars, NEW d \in Clients PROVE Derived(d)'
  BY DEF DInv
<1>0. Derived(d)
  BY DEF DInv
<1>1. CASE UNCHANGED vars
  BY <1>0, <1>1, DerivedKept DEF vars
<1>2. ASSUME NEW c \in Clients, StepOf(c) PROVE Derived(d)'
  <2>1. CASE d = c
    BY <1>0, <1>2, <2>1, StepDerived
  <2>2. CASE d # c
    BY <1>0, <1>2, <2>2, OthersAlone, HeldRows, DerivedKept
  <2> QED
    BY <2>1, <2>2
<1> QED
  BY <1>1, <1>2, StepKinds

LEMMA InitDInv == Init => DInv
BY DEF Init, DInv, Derived, Touched, NoDraft, NoRequest, Outside

LEMMA DraftInvariance == Spec => [](IInv /\ DInv)
BY InitIInv, InitDInv, NextIInv, NextDInv, PTL DEF Spec

-----------------------------------------------------------------------------
(* Tenancy.                                                                *)

\* The owner_uid condition of every UPDATE in repository.py confines a request to
\* its principal's rows, also where soft_delete follows the wrapper's appId, which
\* its owner chose freely: a committed row changes only by its own owner's commit.
THEOREM TenantsApart == Spec => OnlyOwnerChanges
<1>1. ASSUME IInv, DInv, [Next]_vars, NEW i \in Ids, head'[i] # head[i]
      PROVE  \E c \in Clients : /\ pc[c] = "commit" /\ pc'[c] = "idle"
                                /\ Owned(c, head'[i])
                                /\ head[i] = NoRow \/ Owned(c, head[i])
  <2>1. PICK c \in Clients : Commit(c)
    BY <1>1, StepKinds, TablesAlone DEF vars
  <2>2. i \in Touched(c) /\ head'[i] = draft[c][i]
    BY <1>1, <2>1, CommitWritesDrafts
  <2>3. draft[c][i] # NoRow /\ Derived(c)
    BY <1>1, <2>2 DEF Touched, DInv
  <2>4. Owned(c, draft[c][i]) /\ (head[i] = NoRow \/ Owned(c, head[i]))
    <3>1. CASE req[c].op = "create"
      <4>1. CreatesNew(c)
        BY <2>1, <3>1 DEF CreatesNew, Commit
      <4>2. i = req[c].id /\ draft[c][i].owner = OwnerOf[c]
        BY <2>2, <2>3, <3>1 DEF Derived
      <4>3. head[i] = NoRow
        BY <1>1, <4>1, <4>2 DEF IInv, Creating
      <4> QED
        BY <2>3, <4>2, <4>3 DEF Owned
    <3>2. CASE req[c].op # "create"
      <4>1. draft[c][i] = Updated(c, head[i]) /\ Owned(c, head[i])
        BY <2>2, <2>3, <3>2 DEF Derived
      <4>2. Updated(c, head[i]).owner = head[i].owner
        BY DEF Updated
      <4> QED
        BY <2>3, <4>1, <4>2 DEF Owned
    <3> QED
      BY <3>1, <3>2
  <2>5. pc[c] = "commit" /\ pc'[c] = "idle"
    BY <1>1, <2>1 DEF Commit, Goto, IInv, TypeOK
  <2> QED
    BY <2>2, <2>4, <2>5
<1>2. IInv /\ DInv /\ [Next]_vars =>
        [\A i \in Ids : head'[i] # head[i] =>
            \E c \in Clients : /\ pc[c] = "commit" /\ pc'[c] = "idle"
                               /\ Owned(c, head'[i])
                               /\ head[i] = NoRow \/ Owned(c, head[i])]_vars
  BY <1>1
<1> QED
  BY <1>2, DraftInvariance, PTL DEF Spec, OnlyOwnerChanges

(***************************************************************************)
(* Part III.  The store keeps the promises of AuditLedger.  Live names are unique,*)
(* also among open transactions (NInv); the newest version of a row is the *)
(* row; the versions read in order are a life (HInv).  From them a commit  *)
(* is one ledger step and every other statement none.                      *)
(***************************************************************************)
-----------------------------------------------------------------------------
(* Names.                                                                  *)

\* The rows of a transaction that are entered in the index.
Written(c) == {i \in Touched(c) : ~(pc[c] = "index" /\ cur[c] = i)}

Free(c) == \A i \in Written(c) : \A j \in Ids \ {i} : ~SameKey(head[j], draft[c][i])

FreeBetween(c, d) ==
    \A i \in Written(c), j \in Written(d) : ~SameKey(draft[c][i], draft[d][j])

NInv == /\ LiveNamesUnique
        /\ \A c \in Clients : Free(c)
        /\ \A c, d \in Clients : c # d => FreeBetween(c, d)

\* What becomes of a transaction's index entries in its own step.
LEMMA WrittenStep ==
    ASSUME IInv, DInv, NEW c \in Clients, StepOf(c), ~Claims(c)
    PROVE  \A i \in Written(c)' : \/ ~draft'[c][i].live
                                  \/ i \in Written(c) /\ draft'[c][i] = draft[c][i]
<1>1. CASE \/ Arrive(c)
           \/ pc[c] \in Outside \ {"idle"} /\ \E step \in Outside \ {"idle"} : Moves(c, step)
  BY <1>1 DEF Arrive, Moves, Written, Touched, IInv, Holding, Outside
<1>2. CASE (\E r \in Replies : Abandon(c, r)) \/ Commit(c)
  <2>1. draft'[c] = NoDraft
    BY <1>2 DEF Abandon, Commit, IInv, TypeOK
  <2> QED
    BY <2>1 DEF Written, Touched, NoDraft
<1>3. CASE Passes(c)
  BY <1>3 DEF Passes, Moves, Goto, Written, Touched, IInv, TypeOK
<1>4. CASE WriteVersion(c)
  BY <1>4 DEF WriteVersion, Written, Touched
<1>5. ASSUME NEW i \in Ids, NEW r \in Row, WriteHead(c, i, r, "index"), Touched(c) = {}
      PROVE  Written(c)' = {}
  BY <1>5, SentinelAssumption DEF WriteHead, Goto, Written, Touched, IInv, TypeOK
<1>6. CASE Inserts(c)
  BY <1>5, <1>6 DEF Inserts, IInv, Holding, Outside
<1>7. ASSUME NEW i, NEW step, Updates(c, i, step) PROVE \A j \in Written(c)' : ~draft'[c][j].live
  <2>1. CASE req[c].op # "delete"
    BY <1>5, <1>7, <2>1 DEF Updates, IInv, Holding, Outside
  <2>2. CASE req[c].op = "delete"
    <3>1. i \in Ids /\ WriteHead(c, i, Updated(c, head[i]), step) /\ ~Updated(c, head[i]).live
      BY <1>7, <2>2 DEF Updates, Updated
    <3>2. ASSUME NEW j \in Touched(c)' PROVE ~draft'[c][j].live
      <4>1. CASE j = i
        BY <3>1, <4>1 DEF WriteHead, IInv, TypeOK
      <4>2. CASE j # i
        <5>1. draft'[c][j] = draft[c][j] /\ j \in Touched(c)
          BY <3>1, <3>2, <4>2 DEF WriteHead, IInv, TypeOK, Touched
        <5> QED
          BY <2>2, <5>1 DEF IInv, Holding
      <4> QED
        BY <4>1, <4>2
    <3> QED
      BY <3>2 DEF Written
  <2> QED
    BY <2>1, <2>2
<1>8. \/ Arrive(c) \/ (pc[c] \in Outside \ {"idle"} /\ \E step \in Outside \ {"idle"} : Moves(c, step))
      \/ (\E r \in Replies : Abandon(c, r)) \/ Commit(c)
      \/ Passes(c) \/ WriteVersion(c) \/ Inserts(c) \/ \E i, step : Updates(c, i, step)
  BY DEF StepOf
<1>9. CASE \E i, step : Updates(c, i, step)
  BY <1>7, <1>9
<1> QED
  BY <1>1, <1>2, <1>3, <1>4, <1>6, <1>8, <1>9, Zenon

\* What the index insert found, together with what was there.
LEMMA ClaimedNames ==
    ASSUME IInv, NInv, NEW c \in Clients, Claims(c)
    PROVE  /\ UNCHANGED <<head, draft>>
           /\ Free(c)'
           /\ \A d \in Clients \ {c} : Written(d)' = Written(d)
           /\ \A d \in Clients \ {c} : FreeBetween(c, d)'
<1>1. /\ pc[c] = "index" /\ pc'[c] = "version" /\ UNCHANGED <<head, draft, cur>>
      /\ \A d \in Clients \ {c} : pc'[d] = pc[d]
  BY DEF Claims, Moves, Goto, IInv, TypeOK
<1>2. Written(c)' = Written(c) \cup {cur[c]}
  BY <1>1 DEF Written, Touched, IInv, Holding
<1>3. \A d \in Clients \ {c} : Written(d)' = Written(d)
  BY <1>1 DEF Written, Touched
<1>4. \A j \in Ids \ {cur[c]} : ~SameKey(head[j], draft[c][cur[c]])
  BY DEF Claims, KeyTaken
<1>5. ASSUME NEW d \in Clients \ {c}, NEW j \in Written(d)
      PROVE  ~SameKey(draft[c][cur[c]], draft[d][j])
  <2>1. ~SameKey(draft[d][j], draft[c][cur[c]])
    BY DEF Claims, KeyHeldBy, Written, Touched
  <2> QED
    BY <2>1 DEF SameKey
<1>6. Free(c)'
  BY <1>1, <1>2, <1>4 DEF NInv, Free
<1>7. \A d \in Clients \ {c} : FreeBetween(c, d)'
  BY <1>1, <1>2, <1>3, <1>5 DEF NInv, FreeBetween
<1> QED
  BY <1>1, <1>3, <1>6, <1>7

LEMMA CommitNames ==
    ASSUME IInv, DInv, NInv, NEW c \in Clients, Commit(c)
    PROVE  LiveNamesUnique' /\ \A d \in Clients \ {c} : Free(d)'
<1>1. Written(c) = Touched(c)
  BY DEF Commit, Written
<1>2. /\ \A i \in Touched(c) : head'[i] = draft[c][i]
      /\ \A i \in Ids \ Touched(c) : head'[i] = head[i]
  BY CommitWritesDrafts
<1>3. ASSUME NEW i \in Ids, NEW j \in Ids, i # j PROVE ~SameKey(head'[i], head'[j])
  <2>1. CASE i \in Touched(c) /\ j \in Touched(c)
    <3>1. req[c].op = "delete"
      BY <1>3, <2>1 DEF DInv, Derived
    <3> QED
      BY <1>2, <2>1, <3>1 DEF IInv, Holding, SameKey
  <2>2. CASE i \in Touched(c) /\ j \notin Touched(c)
    BY <1>1, <1>2, <1>3, <2>2 DEF NInv, Free, SameKey
  <2>3. CASE i \notin Touched(c) /\ j \in Touched(c)
    BY <1>1, <1>2, <1>3, <2>3 DEF NInv, Free
  <2>4. CASE i \notin Touched(c) /\ j \notin Touched(c)
    BY <1>2, <1>3, <2>4 DEF NInv, LiveNamesUnique
  <2> QED
    BY <2>1, <2>2, <2>3, <2>4
<1>4. ASSUME NEW d \in Clients \ {c} PROVE Free(d)'
  <2>1. StepOf(c)
    BY DEF StepOf
  <2>2. draft'[d] = draft[d] /\ Written(d)' = Written(d)
    BY <2>1, OthersAlone DEF Written, Touched
  <2>3. ASSUME NEW i \in Written(d), NEW j \in Ids \ {i} PROVE ~SameKey(head'[j], draft[d][i])
    BY <1>1, <1>2 DEF NInv, Free, FreeBetween
  <2> QED
    BY <2>2, <2>3 DEF Free
<1> QED
  BY <1>3, <1>4 DEF LiveNamesUnique

LEMMA NextNInv == IInv /\ DInv /\ NInv /\ [Next]_vars => NInv'
<1> SUFFICES ASSUME IInv, DInv, NInv, [Next]_vars PROVE NInv'
  OBVIOUS
<1>1. CASE UNCHANGED vars
  BY <1>1 DEF vars, NInv, LiveNamesUnique, Free, FreeBetween, Written, Touched
<1>2. ASSUME NEW c \in Clients, StepOf(c) PROVE NInv'
  <2>1. \A d \in Clients \ {c} : Written(d)' = Written(d) /\ draft'[d] = draft[d]
    BY <1>2, OthersAlone DEF Written, Touched
  <2>2. Free(c)' /\ \A d \in Clients \ {c} : FreeBetween(c, d)'
    <3>1. CASE Claims(c)
      BY <3>1, ClaimedNames
    <3>2. CASE ~Claims(c)
      <4>1. ASSUME NEW i \in Written(c)'
            PROVE  \/ ~draft'[c][i].live
                   \/ i \in Written(c) /\ draft'[c][i] = draft[c][i]
        BY <1>2, <3>2, WrittenStep
      <4>2. UNCHANGED head \/ Written(c)' = {}
        <5>1. Commit(c) => Written(c)' = {}
          BY DEF Commit, IInv, TypeOK, Written, Touched, NoDraft
        <5> QED
          BY <1>2, <5>1, TablesAlone
      <4>3. Free(c)'
        BY <4>1, <4>2 DEF NInv, Free, SameKey
      <4>4. ASSUME NEW d \in Clients \ {c} PROVE FreeBetween(c, d)'
        BY <2>1, <4>1 DEF NInv, FreeBetween, SameKey
      <4> QED
        BY <4>3, <4>4
    <3> QED
      BY <3>1, <3>2
  <2>3. \A d, e \in Clients : d # e => FreeBetween(d, e)'
    <3>1. \A d, e \in Clients \ {c} : d # e => FreeBetween(d, e)'
      BY <2>1 DEF NInv, FreeBetween
    <3>2. \A d \in Clients \ {c} : FreeBetween(d, c)'
      BY <2>2 DEF FreeBetween, SameKey
    <3> QED
      BY <2>2, <3>1, <3>2
  <2>4. CASE Commit(c)
    BY <2>2, <2>3, <2>4, CommitNames DEF NInv
  <2>5. CASE UNCHANGED head
    <3>1. LiveNamesUnique' /\ \A d \in Clients \ {c} : Free(d)'
      BY <2>1, <2>5 DEF NInv, LiveNamesUnique, Free
    <3> QED
      BY <2>2, <2>3, <3>1 DEF NInv
  <2> QED
    BY <1>2, <2>4, <2>5, TablesAlone
<1> QED
  BY <1>1, <1>2, StepKinds

LEMMA InitNInv == Init => NInv
<1> SUFFICES ASSUME Init PROVE NInv
  OBVIOUS
<1>1. LiveNamesUnique
  BY InitTables, InheritedAssumption DEF LiveNamesUnique, SameKey
<1>2. \A c \in Clients : Touched(c) = {}
  BY DEF Init, Touched, NoDraft
<1> QED
  BY <1>1, <1>2 DEF NInv, Free, FreeBetween, Written

\* The partial unique index on (owner_uid, name), checked in a statement of its own
\* against rows other transactions are about to commit or give up, lets no two live
\* rows of an owner share a name.
THEOREM NamesAreUnique == Spec => []LiveNamesUnique
<1>1. NInv => LiveNamesUnique
  BY DEF NInv
<1> QED
  BY <1>1, InitNInv, NextNInv, DraftInvariance, PTL DEF Spec

-----------------------------------------------------------------------------
(* History.                                                                *)

HInv == HeadIsLastVersion /\ HistoryReplays

\* What a commit adds to the history 1..k of a row it changes, and to which row.
Extends(c, i, k, u) ==
    /\ NumbersOf(versions, i) = 1..k /\ NumbersOf(versions', i) = 1..(k + 1)
    /\ u.id = i /\ u.no = k + 1 /\ u.row = head'[i] /\ u.change = ChangeType(req[c].op)
    /\ \A w \in vdraft[c] : w.id = i => w = u
    /\ head'[i] \in Row
    /\ req[c].op = "create" =>
          i = req[c].id /\ k = 0 /\ head[i] = NoRow /\ head'[i].live
    /\ req[c].op # "create" =>
          /\ k # 0 /\ head[i] \in Row /\ Owned(c, head[i])
          /\ head[i].live <=> req[c].op # "restore"
          /\ head'[i] = Updated(c, head[i])
          /\ \A v \in versions : v.id = i /\ v.no = k => v.row = head[i]

\* Of one entity there is one version of each number, so the newest is known by it.
LEMMA NewestIsHead ==
    ASSUME IInv, HeadIsLastVersion, NEW i \in Ids, head[i] # NoRow,
           NEW k \in Nat, NumbersOf(versions, i) = 1..k
    PROVE  k # 0 /\ \A v \in versions : v.id = i /\ v.no = k => v.row = head[i]
<1>1. PICK v0 \in versions : /\ v0.id = i /\ v0.row = head[i]
                             /\ \A n \in NumbersOf(versions, i) : n <= v0.no
  BY DEF HeadIsLastVersion
<1>2. v0.no \in 1..k
  BY <1>1 DEF NumbersOf
<1>3. v0.no = k
  BY <1>1, <1>2
<1> QED
  BY <1>1, <1>2, <1>3 DEF IInv, Recorded

LEMMA CommitEntry ==
    ASSUME IInv, DInv, HeadIsLastVersion, NEW c \in Clients, Commit(c), NEW i \in Touched(c)
    PROVE  \E k \in Nat : \E u \in vdraft[c] : Extends(c, i, k, u)
<1>1. PICK k \in Nat : \E u \in vdraft[c] :
         /\ NumbersOf(versions, i) = 1..k
         /\ NumbersOf(versions', i) = 1..(k + 1)
         /\ u.id = i /\ u.no = k + 1 /\ u.row = head'[i]
         /\ \A w \in vdraft[c] : w.id = i => w = u
  BY CommitExtends, Zenon
<1>2. PICK u \in vdraft[c] :
         /\ NumbersOf(versions, i) = 1..k
         /\ NumbersOf(versions', i) = 1..(k + 1)
         /\ u.id = i /\ u.no = k + 1 /\ u.row = head'[i]
         /\ \A w \in vdraft[c] : w.id = i => w = u
  BY <1>1
<1>3. /\ head'[i] = draft[c][i] /\ draft[c][i] \in Row /\ i \in Ids
      /\ u.change = ChangeType(req[c].op)
  BY CommitWritesDrafts DEF DInv, Derived, IInv, TypeOK, Touched
<1>4. CASE req[c].op = "create"
  <2>1. i = req[c].id /\ head'[i].live /\ CreatesNew(c)
    BY <1>3, <1>4 DEF DInv, Derived, CreatesNew, Commit
  <2>2. head[i] = NoRow
    BY <2>1 DEF IInv, Creating
  <2>3. k = 0
    <3>1. 1..k = {}
      BY <1>2, <1>3, <2>2 DEF IInv, Recorded
    <3> QED
      BY <3>1
  <2> QED
    BY <1>2, <1>3, <1>4, <2>1, <2>2, <2>3 DEF Extends
<1>5. CASE req[c].op # "create"
  <2>1. /\ Owned(c, head[i]) /\ (head[i].live <=> req[c].op # "restore")
        /\ head'[i] = Updated(c, head[i])
    BY <1>3, <1>5 DEF DInv, Derived
  <2>2. head[i] # NoRow /\ head[i] \in Row
    BY <1>3, <2>1 DEF Owned, IInv, TypeOK
  <2>3. k # 0 /\ \A v \in versions : v.id = i /\ v.no = k => v.row = head[i]
    BY <1>2, <1>3, <2>2, NewestIsHead
  <2> QED
    BY <1>2, <1>3, <1>5, <2>1, <2>2, <2>3 DEF Extends
<1> QED
  BY <1>4, <1>5

LEMMA CommitHistory ==
    ASSUME IInv, DInv, HInv, NEW c \in Clients, Commit(c)
    PROVE  HInv'
<1>1. /\ \A i \in Ids \ Touched(c) : head'[i] = head[i]
      /\ versions' = versions \cup vdraft[c] /\ Touched(c) = Numbered(c)
  BY CommitWritesDrafts
<1>2. \A i \in Touched(c) : \E k \in Nat : \E u \in vdraft[c] : Extends(c, i, k, u)
  BY CommitEntry DEF HInv
<1>3. \A i \in Ids \ Touched(c) : NumbersOf(versions', i) = NumbersOf(versions, i)
  BY CommitLeaves
<1>4. versions' \subseteq Version
  BY <1>1 DEF IInv, TypeOK
<1>5. HeadIsLastVersion'
  <2>1. ASSUME NEW i \in Touched(c)
        PROVE  /\ head'[i] # NoRow
               /\ \E v \in versions' : /\ v.id = i /\ v.row = head'[i]
                                       /\ \A n \in NumbersOf(versions', i) : n <= v.no
    <3>1. PICK k \in Nat : \E u \in vdraft[c] : Extends(c, i, k, u)
      BY <1>2
    <3>2. PICK u \in vdraft[c] : Extends(c, i, k, u)
      BY <3>1
    <3>3. u.id = i /\ u.row = head'[i] /\ \A n \in NumbersOf(versions', i) : n <= u.no
      BY <3>2 DEF Extends
    <3> QED
      BY <1>1, <3>2, <3>3, SentinelAssumption DEF Extends
  <2>2. ASSUME NEW i \in Ids \ Touched(c)
        PROVE  IF head'[i] = NoRow THEN NumbersOf(versions', i) = {}
               ELSE \E v \in versions' : /\ v.id = i /\ v.row = head'[i]
                                         /\ \A n \in NumbersOf(versions', i) : n <= v.no
    BY <1>1, <1>3 DEF HInv, HeadIsLastVersion
  <2> QED
    BY <2>1, <2>2 DEF HeadIsLastVersion
<1>6. ASSUME NEW w \in versions'
      PROVE  /\ w.change = "create" <=> w.no = 1
             /\ FoundAtMigration(w) \/ (w.row.live <=> w.change # "delete")
             /\ \A v \in versions' : v.id = w.id /\ w.no = v.no + 1 =>
                   /\ v.row.live <=> w.change \in {"amend", "delete"}
                   /\ w.change \in {"delete", "restore"} =>
                         w.row = [v.row EXCEPT !.live = w.row.live]
                   /\ v.row.owner = w.row.owner
  <2>1. CASE w \in versions /\ \A v \in vdraft[c] : ~(v.id = w.id /\ w.no = v.no + 1)
    BY <1>1, <2>1 DEF HInv, HistoryReplays
  <2>2. CASE w \in versions /\ \E v \in vdraft[c] : v.id = w.id /\ w.no = v.no + 1
    <3>1. PICK v \in vdraft[c] : v.id = w.id /\ w.no = v.no + 1
      BY <2>2
    <3>2. v.id \in Touched(c)
      BY <1>1 DEF Numbered
    <3>3. PICK k \in Nat : \E u \in vdraft[c] : Extends(c, v.id, k, u)
      BY <1>2, <3>2
    <3>4. NumbersOf(versions, w.id) = 1..k /\ v.no = k + 1
      BY <3>1, <3>3 DEF Extends
    <3>5. w.no \in 1..k
      BY <2>2, <3>4 DEF NumbersOf
    <3> QED
      BY <3>1, <3>4, <3>5
  <2>3. CASE w \in vdraft[c]
    <3> DEFINE i == w.id
    <3>1. i \in Touched(c)
      BY <1>1, <2>3 DEF Numbered
    <3>2. PICK k \in Nat : Extends(c, i, k, w)
      <4>1. PICK k \in Nat : \E u \in vdraft[c] : Extends(c, i, k, u)
        BY <1>2, <3>1
      <4>2. PICK u \in vdraft[c] : Extends(c, i, k, u)
        BY <4>1
      <4>3. u = w
        BY <2>3, <4>2 DEF Extends
      <4> QED
        BY <4>2, <4>3
    <3>3. CASE req[c].op = "create"
      <4>1. /\ w.no = 1 /\ w.change = "create" /\ w.row.live
            /\ NumbersOf(versions', i) = 1..1
        BY <3>2, <3>3 DEF Extends, ChangeType
      <4>2. \A v \in versions' : v.id = w.id => v.no = 1
        BY <4>1 DEF NumbersOf
      <4> QED
        BY <4>1, <4>2
    <3>4. CASE req[c].op # "create"
      <4>1. /\ w.no = k + 1 /\ k # 0 /\ w.row = Updated(c, head[i])
            /\ head[i] \in Row /\ (head[i].live <=> req[c].op # "restore")
            /\ w.change = ChangeType(req[c].op)
            /\ \A v \in versions : v.id = i /\ v.no = k => v.row = head[i]
            /\ \A v \in vdraft[c] : v.id = i => v = w
        BY <3>2, <3>4 DEF Extends
      <4>2. /\ req[c].op \in {"patch", "delete", "restore"}
            /\ req[c].op \in {"delete", "restore"} => req[c].set = EmptyPatch
        BY <3>4 DEF IInv, TypeOK, Request, Ops, DInv, Derived
      <4>3. ASSUME NEW v \in versions', v.id = w.id, w.no = v.no + 1 PROVE v.row = head[i]
        <5>1. v \in versions
          BY <1>1, <4>1, <4>3
        <5>2. v.no = k
          BY <1>4, <4>1, <4>3 DEF Version
        <5> QED
          BY <4>1, <4>3, <5>1, <5>2
      <4>4. /\ w.row.live <=> req[c].op # "delete"
            /\ w.row.owner = head[i].owner
        <5>1. Updated(c, head[i]).live = (req[c].op # "delete")
          BY DEF Updated
        <5>2. Updated(c, head[i]).owner = head[i].owner
          BY DEF Updated
        <5> QED
          BY <4>1, <5>1, <5>2
      <4>5. req[c].set = EmptyPatch => w.row = [head[i] EXCEPT !.live = w.row.live]
        BY <4>1 DEF Updated, Set, EmptyPatch, Row
      <4>6. /\ w.change # "create" /\ w.no # 1
            /\ w.change = "delete" <=> req[c].op = "delete"
            /\ w.change = "restore" <=> req[c].op = "restore"
            /\ w.change = "amend" <=> req[c].op = "patch"
        BY <4>1, <4>2 DEF ChangeType
      <4> QED
        BY <4>1, <4>2, <4>3, <4>4, <4>5, <4>6
    <3> QED
      BY <3>3, <3>4
  <2> QED
    BY <1>1, <2>1, <2>2, <2>3
<1>7. HistoryReplays'
  BY <1>6 DEF HistoryReplays
<1> QED
  BY <1>5, <1>7 DEF HInv

LEMMA NextHInv == IInv /\ DInv /\ HInv /\ [Next]_vars => HInv'
<1> SUFFICES ASSUME IInv, DInv, HInv, [Next]_vars PROVE HInv'
  OBVIOUS
<1>1. CASE UNCHANGED <<head, versions>>
  BY <1>1 DEF HInv, HeadIsLastVersion, HistoryReplays, NumbersOf
<1>2. CASE \E c \in Clients : Commit(c)
  BY <1>2, CommitHistory
<1> QED
  BY <1>1, <1>2, StepKinds, TablesAlone DEF vars

LEMMA InitHInv == Init => HInv
<1> SUFFICES ASSUME Init PROVE HInv
  OBVIOUS
<1>1. HeadIsLastVersion
  <2>1. ASSUME NEW i \in Ids, head[i] # NoRow
        PROVE  \E v \in versions : /\ v.id = i /\ v.row = head[i]
                                   /\ \A n \in NumbersOf(versions, i) : n <= v.no
    <3>1. PICK v \in versions : v.id = i
      BY <2>1, InitTables
    <3>2. v.row = head[i] /\ v.no = 1 /\ NumbersOf(versions, i) = {1}
      BY <2>1, <3>1, InitTables
    <3> QED
      BY <3>1, <3>2
  <2> QED
    BY <2>1, InitTables DEF HeadIsLastVersion
<1>2. \A w \in versions : w.no = 1 /\ w.change = "create" /\ FoundAtMigration(w)
  BY InitTables DEF FoundAtMigration
<1>3. HistoryReplays
  BY <1>2 DEF HistoryReplays
<1> QED
  BY <1>1, <1>3 DEF HInv

LEMMA HistoryInvariance == Spec => [](IInv /\ DInv /\ NInv /\ HInv)
BY InitNInv, InitHInv, NextNInv, NextHInv, DraftInvariance, PTL DEF Spec

\* The version written last is a snapshot of the row: the repository writes the version
\* from the row its UPDATE returned, in the same transaction, before anybody can change it.
THEOREM HeadSnapshot == Spec => []HeadIsLastVersion
<1>1. HInv => HeadIsLastVersion
  BY DEF HInv
<1> QED
  BY <1>1, HistoryInvariance, PTL

\* The versions of a row, read in order, are a life it can have had: created once and
\* first, amended and deleted while live, restored while deleted, under one owner; only
\* a row that migration 0013 found deleted has a first version that is not live.
THEOREM HistoryIsALife == Spec => []HistoryReplays
<1>1. HInv => HistoryReplays
  BY DEF HInv
<1> QED
  BY <1>1, HistoryInvariance, PTL

-----------------------------------------------------------------------------
(* Refinement: the store implements AuditLedger.                           *)

EntriesOf(vs, i) ==
    [n \in NumbersOf(vs, i) |-> LET v == CHOOSE w \in vs : w.id = i /\ w.no = n
                                IN  [change |-> v.change, row |-> v.row]]

EntryOf(v) == [change |-> v.change, row |-> v.row]

OneOfEach(vs) == \A v, w \in vs : v.id = w.id /\ v.no = w.no => v = w

\* A trail holds the entry of each version at the version's number.
LEMMA EntryAtNumber ==
    ASSUME NEW vs, OneOfEach(vs), NEW v \in vs
    PROVE  v.no \in NumbersOf(vs, v.id) /\ EntriesOf(vs, v.id)[v.no] = EntryOf(v)
<1>1. v.no \in NumbersOf(vs, v.id)
  BY DEF NumbersOf
<1>2. (CHOOSE w \in vs : w.id = v.id /\ w.no = v.no) = v
  BY DEF OneOfEach
<1> QED
  BY <1>1, <1>2 DEF EntriesOf, EntryOf

LEMMA EntriesKept ==
    ASSUME NEW vs, NEW ws, OneOfEach(vs \cup ws), NEW i, \A w \in ws : w.id # i
    PROVE  EntriesOf(vs \cup ws, i) = EntriesOf(vs, i)
<1>1. NumbersOf(vs \cup ws, i) = NumbersOf(vs, i) /\ OneOfEach(vs)
  BY NumbersOfUnion DEF OneOfEach
<1>2. ASSUME NEW n \in NumbersOf(vs, i)
      PROVE  EntriesOf(vs \cup ws, i)[n] = EntriesOf(vs, i)[n]
  <2>1. PICK v \in vs : v.id = i /\ v.no = n
    BY DEF NumbersOf
  <2> QED
    BY <1>1, <2>1, EntryAtNumber
<1>3. /\ EntriesOf(vs, i) = [n \in NumbersOf(vs, i) |-> EntriesOf(vs, i)[n]]
      /\ EntriesOf(vs \cup ws, i) = [n \in NumbersOf(vs, i) |-> EntriesOf(vs \cup ws, i)[n]]
  BY <1>1 DEF EntriesOf
<1> QED
  BY <1>2, <1>3

LEMMA EntriesGrow ==
    ASSUME NEW vs, NEW vt, vs \subseteq vt, OneOfEach(vt), NEW i,
           NEW k \in Nat, NumbersOf(vs, i) = 1..k, NumbersOf(vt, i) = 1..(k + 1),
           NEW u \in vt, u.id = i, u.no = k + 1
    PROVE  EntriesOf(vt, i) = Append(EntriesOf(vs, i), EntryOf(u))
<1> DEFINE S == {EntryOf(v) : v \in vt}
           old == EntriesOf(vs, i)
           new == EntriesOf(vt, i)
<1>0. OneOfEach(vs)
  BY DEF OneOfEach
<1>1. ASSUME NEW n \in 1..k PROVE old[n] \in S /\ new[n] = old[n]
  <2>1. PICK v \in vs : v.id = i /\ v.no = n
    BY DEF NumbersOf
  <2> QED
    BY <1>0, <2>1, EntryAtNumber
<1>2. new[k + 1] = EntryOf(u) /\ EntryOf(u) \in S
  BY EntryAtNumber
<1>3. old = [n \in 1..k |-> old[n]] /\ new = [n \in 1..(k + 1) |-> new[n]]
  BY DEF EntriesOf
<1> HIDE DEF old, new, S
<1>4. /\ \A n \in 1..k : old[n] \in S
      /\ \A n \in 1..(k + 1) : new[n] \in S
  <2>1. \A n \in 1..(k + 1) : n \in 1..k \/ n = k + 1
    OBVIOUS
  <2> QED
    BY <1>1, <1>2, <2>1
<1>5. old \in Seq(S) /\ Len(old) = k
  <2>1. [n \in 1..k |-> old[n]] \in [1..k -> S]
    BY <1>4
  <2>2. old \in [1..k -> S]
    BY <1>3, <2>1, Zenon
  <2> QED
    BY <2>2, SeqDef, LenProperties
<1>6. new \in Seq(S) /\ Len(new) = k + 1
  <2>1. [n \in 1..(k + 1) |-> new[n]] \in [1..(k + 1) -> S]
    BY <1>4
  <2>2. new \in [1..(k + 1) -> S]
    BY <1>3, <2>1, Zenon
  <2> QED
    BY <2>2, SeqDef, LenProperties
<1>7. new = Append(old, EntryOf(u))
  BY <1>1, <1>2, <1>5, <1>6, AppendProperties, SeqEqual
<1> QED
  BY <1>7 DEF old, new

\* The new row's key is free before a step that leaves live names unique.
LEMMA KeyWasFree ==
    ASSUME NEW i \in Ids, NEW r, LiveNamesUnique', \A j \in Ids \ {i} : head'[j] = head[j],
           head'[i] # NoRow, head'[i].live,
           r.owner = head'[i].owner, r.name = head'[i].name
    PROVE  Ledger!NameFree(i, r)
BY DEF LiveNamesUnique, SameKey, Ledger!NameFree

\* A delete or a restore changes nothing but deleted_at.
LEMMA OnlyLifeChanges ==
    ASSUME NEW c, NEW r \in Row, req[c].set = EmptyPatch
    PROVE  /\ req[c].op = "delete" => Updated(c, r) = [r EXCEPT !.live = FALSE]
           /\ req[c].op = "restore" => Updated(c, r) = [r EXCEPT !.live = TRUE]
<1>1. Updated(c, r) = [owner |-> r.owner, name |-> r.name, app |-> r.app, body |-> r.body,
                       live |-> req[c].op # "delete"]
  BY DEF Updated, Set, EmptyPatch
<1>2. ASSUME NEW b \in BOOLEAN
      PROVE  [owner |-> r.owner, name |-> r.name, app |-> r.app, body |-> r.body, live |-> b]
                = [r EXCEPT !.live = b]
  BY DEF Row
<1>3. (req[c].op = "delete" => (req[c].op # "delete") = FALSE)
      /\ (req[c].op = "restore" => (req[c].op # "delete") = TRUE)
  OBVIOUS
<1> QED
  BY <1>1, <1>2, <1>3

\* A commit as the ledger sees it: the drafted rows, and their trails one entry longer.
LEMMA CommitRecords ==
    ASSUME IInv, DInv, HInv, IInv', NEW c \in Clients, Commit(c)
    PROVE  /\ head' = [i \in Ids |-> IF i \in Touched(c) THEN head'[i] ELSE head[i]]
           /\ \A i \in Ids \ Touched(c) : Trail(i)' = Trail(i)
           /\ \A i \in Touched(c) :
                 Trail(i)' = Append(Trail(i), Ledger!Entry(ChangeType(req[c].op), head'[i]))
<1>1. /\ \A i \in Ids \ Touched(c) : head'[i] = head[i]
      /\ versions' = versions \cup vdraft[c] /\ Touched(c) = Numbered(c)
  BY CommitWritesDrafts
<1>2. OneOfEach(versions \cup vdraft[c])
  BY <1>1 DEF IInv, Recorded, OneOfEach
<1>3. \A i : Trail(i) = EntriesOf(versions, i) /\ Trail(i)' = EntriesOf(versions \cup vdraft[c], i)
  BY <1>1 DEF Trail, EntriesOf, NumbersOf
<1>4. ASSUME NEW i \in Ids \ Touched(c) PROVE Trail(i)' = Trail(i)
  <2>1. \A w \in vdraft[c] : w.id # i
    BY <1>1 DEF Numbered
  <2> QED
    BY <1>2, <1>3, <2>1, EntriesKept
<1>5. ASSUME NEW i \in Touched(c)
      PROVE  Trail(i)' = Append(Trail(i), Ledger!Entry(ChangeType(req[c].op), head'[i]))
  <2>1. PICK k \in Nat : \E u \in vdraft[c] : Extends(c, i, k, u)
    BY CommitEntry DEF HInv
  <2>2. PICK u \in vdraft[c] : Extends(c, i, k, u)
    BY <2>1
  <2>3. EntryOf(u) = Ledger!Entry(ChangeType(req[c].op), head'[i])
    BY <2>2 DEF Extends, EntryOf, Ledger!Entry
  <2>4. /\ NumbersOf(versions, i) = 1..k /\ NumbersOf(versions \cup vdraft[c], i) = 1..(k + 1)
        /\ u.id = i /\ u.no = k + 1
    BY <1>1, <2>2 DEF Extends
  <2>5. EntriesOf(versions \cup vdraft[c], i) = Append(EntriesOf(versions, i), EntryOf(u))
    <3> DEFINE vt == versions \cup vdraft[c]
    <3>1. /\ versions \subseteq vt /\ OneOfEach(vt) /\ NumbersOf(versions, i) = 1..k
          /\ NumbersOf(vt, i) = 1..(k + 1)
          /\ u \in vt /\ u.id = i /\ u.no = k + 1
      BY <1>2, <2>4
    <3> HIDE DEF vt
    <3>2. EntriesOf(vt, i) = Append(EntriesOf(versions, i), EntryOf(u))
      BY <3>1, EntriesGrow
    <3> QED
      BY <3>2 DEF vt
  <2> QED
    BY <1>3, <2>3, <2>5
<1>6. head' = [i \in Ids |-> IF i \in Touched(c) THEN head'[i] ELSE head[i]]
  BY <1>1 DEF IInv, TypeOK
<1> QED
  BY <1>4, <1>5, <1>6

LEMMA CommitIsLedgerStep ==
    ASSUME IInv, DInv, NInv, HInv, IInv', NInv', NEW c \in Clients, Commit(c)
    PROVE  Ledger!Next
<1> DEFINE id == req[c].id
<1>1. /\ head' = [i \in Ids |-> IF i \in Touched(c) THEN head'[i] ELSE head[i]]
      /\ \A i \in Ids \ Touched(c) : Trail(i)' = Trail(i)
      /\ \A i \in Touched(c) :
            Trail(i)' = Append(Trail(i), Ledger!Entry(ChangeType(req[c].op), head'[i]))
  BY CommitRecords
<1>2. id \in Touched(c) /\ Touched(c) \subseteq Ids
  BY DEF Commit, DInv, Derived, Outside, Touched
<1>3. \A i \in Touched(c) : \E k \in Nat : \E u \in vdraft[c] : Extends(c, i, k, u)
  BY CommitEntry DEF HInv
<1>4. \A i \in Touched(c) : head'[i] \in Row /\ head'[i] # NoRow
  BY <1>3, SentinelAssumption DEF Extends
<1>5. ASSUME req[c].op # "create", NEW i \in Touched(c)
      PROVE  /\ head[i] \in Row /\ head[i] # NoRow /\ Owned(c, head[i])
             /\ head[i].live <=> req[c].op # "restore"
             /\ head'[i] = Updated(c, head[i])
  BY <1>3, <1>5, SentinelAssumption DEF Extends
<1>6. ASSUME Touched(c) = {id}
      PROVE  Ledger!Record(id, ChangeType(req[c].op), head'[id])
  <2>1. head' = [head EXCEPT ![id] = head'[id]]
    BY <1>1, <1>2, <1>6 DEF IInv, TypeOK
  <2>2. [i \in Ids |-> Trail(i)]' =
           [[i \in Ids |-> Trail(i)] EXCEPT ![id] =
               Append(@, Ledger!Entry(ChangeType(req[c].op), head'[id]))]
    BY <1>1, <1>2, <1>6
  <2> QED
    BY <2>1, <2>2 DEF Ledger!Record
<1>7. CASE req[c].op = "create"
  <2>1. Touched(c) = {id} /\ head[id] = NoRow /\ head'[id].live
    <3>1. \A i \in Touched(c) : i = id /\ head[i] = NoRow /\ head'[i].live
      BY <1>3, <1>7 DEF Extends
    <3> QED
      BY <1>2, <3>1
  <2>2. Ledger!NameFree(id, head'[id])
    BY <1>1, <1>2, <1>4, <2>1, KeyWasFree DEF NInv
  <2>3. Ledger!Create(id, head'[id])
    BY <1>6, <1>7, <2>1, <2>2 DEF Ledger!Create, ChangeType
  <2> QED
    BY <1>2, <1>4, <2>3 DEF Ledger!Next
<1>8. CASE req[c].op \in {"patch", "restore"}
  <2>1. Touched(c) = {id}
    BY <1>2, <1>8 DEF DInv, Derived
  <2>2. /\ head[id] \in Row /\ head[id] # NoRow
        /\ head[id].live <=> req[c].op # "restore"
        /\ head'[id] = Updated(c, head[id])
    BY <1>2, <1>5, <1>8
  <2>3. head'[id].live /\ head'[id].owner = head[id].owner
    <3>1. /\ Updated(c, head[id]).live = (req[c].op # "delete")
          /\ Updated(c, head[id]).owner = head[id].owner
      BY DEF Updated
    <3> QED
      BY <1>8, <2>2, <3>1
  <2>4. CASE req[c].op = "patch"
    <3>1. Ledger!NameFree(id, head'[id])
      BY <1>1, <1>2, <1>4, <2>1, <2>3, KeyWasFree DEF NInv
    <3>2. Ledger!Amend(id, head'[id])
      BY <1>6, <2>1, <2>2, <2>3, <2>4, <3>1 DEF Ledger!Amend, ChangeType
    <3> QED
      BY <1>2, <1>4, <3>2 DEF Ledger!Next
  <2>5. CASE req[c].op = "restore"
    <3>1. req[c].set = EmptyPatch
      BY <2>5 DEF DInv, Derived
    <3>2. head'[id] = [head[id] EXCEPT !.live = TRUE]
      BY <2>2, <2>5, <3>1, OnlyLifeChanges
    <3>3. head'[id].name = head[id].name
      BY <2>2, <3>2 DEF Row
    <3>4. Ledger!NameFree(id, head[id])
      BY <1>1, <1>2, <1>4, <2>1, <2>3, <3>3, KeyWasFree DEF NInv
    <3>5. Ledger!Restore(id)
      BY <1>6, <2>1, <2>2, <2>5, <3>2, <3>4 DEF Ledger!Restore, ChangeType
    <3> QED
      BY <1>2, <3>5 DEF Ledger!Next
  <2> QED
    BY <1>8, <2>4, <2>5
<1>9. CASE req[c].op = "delete"
  <2>1. ASSUME NEW i \in Touched(c)
        PROVE  head'[i] = [head[i] EXCEPT !.live = FALSE]
    <3>1. req[c].set = EmptyPatch
      BY <1>9 DEF DInv, Derived
    <3>2. head[i] \in Row /\ head'[i] = Updated(c, head[i])
      BY <1>5, <1>9
    <3> QED
      BY <1>9, <3>1, <3>2, OnlyLifeChanges
  <2>2. \A i \in Touched(c) : /\ head[i] # NoRow /\ head[i].live
                              /\ head[i].owner = head[id].owner
    BY <1>2, <1>5, <1>9 DEF Owned
  <2>3. Ledger!Delete(id, Touched(c))
    <3>1. head' = [j \in Ids |-> IF j \in Touched(c) THEN [head[j] EXCEPT !.live = FALSE]
                                 ELSE head[j]]
      BY <1>1, <2>1
    <3>2. [i \in Ids |-> Trail(i)]' =
             [j \in Ids |-> IF j \in Touched(c)
                            THEN Append(Trail(j),
                                        Ledger!Entry("delete", [head[j] EXCEPT !.live = FALSE]))
                            ELSE Trail(j)]
      BY <1>1, <1>9, <2>1 DEF ChangeType
    <3> QED
      BY <2>2, <3>1, <3>2 DEF Ledger!Delete
  <2>4. Touched(c) = {id} \/ (Touched(c) = {id, head[id].app} /\ head[id].app # NoId)
    <3>1. \A i \in Touched(c) : i \in {id, head[id].app} /\ i # NoId
      BY <1>2, <1>9, SentinelAssumption DEF DInv, Derived
    <3> QED
      BY <1>2, <3>1
  <2> QED
    BY <1>2, <2>2, <2>3, <2>4 DEF Ledger!Next
<1> QED
  BY <1>7, <1>8, <1>9 DEF IInv, TypeOK, Request, Ops

\* The backfilled versions are the trails a ledger starts with.
LEMMA InitLedger ==
    ASSUME Init
    PROVE  Ledger!Init
<1>1. ASSUME NEW i \in Ids, head[i] = NoRow PROVE Trail(i) = <<>>
  <2>1. NumbersOf(versions, i) = {}
    BY <1>1, InitTables
  <2> QED
    BY <2>1 DEF Trail
<1>2. ASSUME NEW i \in Ids, head[i] # NoRow PROVE Trail(i) = <<Ledger!Entry("create", head[i])>>
  <2>1. NumbersOf(versions, i) = {1} /\ 1..1 = {1}
    BY <1>2, InitTables
  <2>2. PICK v \in versions : v.id = i
    BY <1>2, InitTables
  <2>3. v.no = 1 /\ v.change = "create" /\ v.row = head[i]
    BY <2>2, InitTables
  <2>4. (CHOOSE w \in versions : w.id = i /\ w.no = 1) = v
    BY <2>2, <2>3, InitTables
  <2>5. Trail(i) = [n \in {1} |-> [change |-> "create", row |-> head[i]]]
    BY <2>1, <2>3, <2>4 DEF Trail
  <2>6. <<Ledger!Entry("create", head[i])>> = [n \in 1..1 |-> Ledger!Entry("create", head[i])]
    OBVIOUS
  <2> QED
    BY <2>1, <2>5, <2>6 DEF Ledger!Entry
<1>3. head \in Inherited
  BY InitTables
<1>4. \A i \in Ids : Trail(i) = IF head[i] = NoRow THEN <<>> ELSE <<Ledger!Entry("create", head[i])>>
  BY <1>1, <1>2
<1> QED
  BY <1>3, <1>4 DEF Ledger!Init

\* Every committed request is one atomic, recorded change of the ledger, and no other
\* statement of any request is visible in it: a client, or a reader of entity_versions,
\* cannot tell the interleaved transactions from changes made one at a time.
THEOREM StoreImplementsLedger == Spec => LedgerSpec
<1>1. Init => Ledger!Init
  BY InitLedger
<1>2. /\ IInv /\ DInv /\ NInv /\ HInv /\ (IInv /\ DInv /\ NInv /\ HInv)' /\ [Next]_vars
      => [Ledger!Next]_(Ledger!ledger)
  <2> SUFFICES ASSUME IInv, DInv, NInv, HInv, IInv', NInv', [Next]_vars
               PROVE  [Ledger!Next]_(Ledger!ledger)
    OBVIOUS
  <2>1. CASE UNCHANGED <<head, versions>>
    BY <2>1 DEF Ledger!ledger, Trail, NumbersOf
  <2>2. CASE \E c \in Clients : Commit(c)
    BY <2>2, CommitIsLedgerStep
  <2> QED
    BY <2>1, <2>2, StepKinds, TablesAlone DEF vars
<1> QED
  BY <1>1, <1>2, HistoryInvariance, PTL DEF Spec, LedgerSpec, Ledger!Spec

(***************************************************************************)
(* Part IV.  soft_delete's cascade reaches the wrapper's graph.  Between the*)
(* cascade's UPDATE and the COMMIT other transactions may commit to the    *)
(* graph row: the invariant (CInv) says that none of them can leave it live*)
(* except by restoring it.                                                 *)
(***************************************************************************)
Known(g) == g = NoId \/ head[g] # NoRow

\* A row, a draft and a request name only rows that exist.
RInv ==
    /\ \A i \in Ids : head[i] # NoRow => Known(head[i].app)
    /\ \A c \in Clients : req[c].set.app = Keep \/ Known(req[c].set.app)
    /\ \A c \in Clients : \A i \in Touched(c) : Known(draft[c][i].app)

\* The graph of the wrapper c deletes is deleted with it, or is not c's to delete.
Settled(c) ==
    LET g == head[req[c].id].app
    IN  \/ g = NoId \/ g \in Touched(c) \/ head[g].owner # OwnerOf[c]
        \/ ~head[g].live \/ BroughtBack(g)

CInv == \A c \in Clients : pc[c] = "commit" /\ req[c].op = "delete" => Settled(c)

\* Rows are never removed.
LEMMA RowsStay ==
    ASSUME IInv, NEW c \in Clients, StepOf(c), NEW i \in Ids, head[i] # NoRow
    PROVE  head'[i] # NoRow
BY TablesAlone, CommitWritesDrafts DEF Touched

\* What a reference is.
LEMMA RefTypes ==
    /\ \A r \in Row : r.app \in Ids \cup {NoId}
    /\ \A q \in Request : q.set.app \in Ids \cup {NoId, Keep}
BY DEF Row, Request, Patch

\* A head write copies the reference of its request or of the row.
LEMMA WriteRefs ==
    ASSUME IInv, NEW c \in Clients, RInv, NEW i \in Ids, NEW r \in Row, NEW step,
           WriteHead(c, i, r, step), Known(r.app)
    PROVE  \A j \in Touched(c)' : Known(draft'[c][j].app)
BY DEF WriteHead, IInv, TypeOK, RInv, Touched

LEMMA OwnRefs ==
    ASSUME IInv, DInv, RInv, NEW c \in Clients, StepOf(c)
    PROVE  /\ req'[c].set.app = Keep \/ Known(req'[c].set.app)
           /\ \A i \in Touched(c)' : Known(draft'[c][i].app)
<1>1. CASE Arrive(c)
  <2>1. PICK q \in CreateRequests \cup PatchRequests \cup OtherRequests : req'[c] = q
    BY <1>1 DEF Arrive, IInv, TypeOK
  <2>2. q.set.app = Keep \/ q.set.app \in KnownRefs
    BY DEF CreateRequests, PatchRequests, OtherRequests, EmptyPatch
  <2>3. draft' = draft
    BY <1>1 DEF Arrive
  <2> QED
    BY <2>1, <2>2, <2>3 DEF KnownRefs, Known, RInv, Touched
<1>2. CASE (\E r \in Replies : Abandon(c, r)) \/ Commit(c)
  <2>1. req'[c] = NoRequest /\ draft'[c] = NoDraft
    BY <1>2 DEF Abandon, Commit, IInv, TypeOK
  <2> QED
    BY <2>1 DEF NoRequest, EmptyPatch, NoDraft, Touched
<1>3. CASE (\E step : Moves(c, step)) \/ Claims(c) \/ Passes(c) \/ WriteVersion(c)
  <2>1. UNCHANGED <<head, req, draft>>
    BY <1>3 DEF Moves, Claims, Passes, WriteVersion
  <2> QED
    BY <2>1 DEF RInv, Touched
<1>4. CASE Inserts(c)
  <2>1. /\ CreatesNew(c) /\ Inserted(c) \in Row /\ req[c].id \in Ids
        /\ WriteHead(c, req[c].id, Inserted(c), "index")
    BY <1>4 DEF Inserts, CreatesNew
  <2>2. req[c].set.app # Keep
    BY <2>1, SentinelAssumption DEF IInv, Creating
  <2>3. Inserted(c).app = req[c].set.app
    BY DEF Inserted
  <2>4. Known(Inserted(c).app)
    BY <2>2, <2>3 DEF RInv
  <2>5. req' = req
    BY <2>1 DEF WriteHead
  <2> QED
    BY <2>1, <2>4, <2>5, WriteRefs DEF RInv
<1>5. ASSUME NEW i, NEW step, Updates(c, i, step)
      PROVE  /\ req'[c].set.app = Keep \/ Known(req'[c].set.app)
             /\ \A j \in Touched(c)' : Known(draft'[c][j].app)
  <2>1. /\ i \in Ids /\ Owned(c, head[i]) /\ Updated(c, head[i]) \in Row
        /\ WriteHead(c, i, Updated(c, head[i]), step)
    BY <1>5 DEF Updates
  <2>2. Updated(c, head[i]).app = Set(head[i].app, req[c].set.app)
    BY DEF Updated
  <2>3. Known(Updated(c, head[i]).app)
    BY <2>1, <2>2 DEF RInv, Set, Owned
  <2>4. req' = req
    BY <2>1 DEF WriteHead
  <2> QED
    BY <2>1, <2>3, <2>4, WriteRefs DEF RInv
<1>6. CASE \E i, step : Updates(c, i, step)
  BY <1>5, <1>6
<1>7. \/ Arrive(c) \/ (\E r \in Replies : Abandon(c, r)) \/ Commit(c)
      \/ (\E step : Moves(c, step)) \/ Claims(c) \/ Passes(c) \/ WriteVersion(c)
      \/ Inserts(c) \/ \E i, step : Updates(c, i, step)
  BY DEF StepOf
<1> QED
  BY <1>1, <1>2, <1>3, <1>4, <1>6, <1>7, Zenon

LEMMA NextRInv == IInv /\ DInv /\ RInv /\ IInv' /\ [Next]_vars => RInv'
<1> SUFFICES ASSUME IInv, DInv, RInv, IInv', [Next]_vars PROVE RInv'
  OBVIOUS
<1>1. CASE UNCHANGED vars
  BY <1>1 DEF vars, RInv, Known, Touched
<1>2. ASSUME NEW c \in Clients, StepOf(c) PROVE RInv'
  <2> DEFINE Remains(g) == g = NoId \/ head'[g] # NoRow
  <2>1. \A g \in Ids \cup {NoId} : Known(g) => Remains(g)
    BY <1>2, RowsStay DEF Known
  <2>2. ASSUME NEW d \in Clients
        PROVE  /\ req'[d].set.app = Keep \/ Known(req'[d].set.app)
               /\ \A i \in Touched(d)' : Known(draft'[d][i].app)
    <3>1. CASE d = c
      BY <1>2, <3>1, OwnRefs
    <3>2. CASE d # c
      BY <1>2, <3>2, OthersAlone DEF RInv, Touched
    <3> QED
      BY <3>1, <3>2
  <2>3. ASSUME NEW d \in Clients, req'[d].set.app # Keep PROVE Remains(req'[d].set.app)
    <3>1. req'[d].set.app \in Ids \cup {NoId, Keep}
      BY RefTypes DEF IInv, TypeOK
    <3> QED
      BY <2>1, <2>2, <2>3, <3>1
  <2>4. ASSUME NEW d \in Clients, NEW i \in Touched(d)' PROVE Remains(draft'[d][i].app)
    <3>1. draft'[d][i] \in Row
      BY DEF IInv, TypeOK, Touched
    <3> QED
      BY <2>1, <2>2, <3>1, RefTypes
  <2>5. ASSUME NEW i \in Ids, head'[i] # NoRow PROVE Remains(head'[i].app)
    <3>1. head'[i] \in Row
      BY <2>5 DEF IInv, TypeOK
    <3>2. Known(head'[i].app)
      <4>1. CASE Commit(c) /\ i \in Touched(c)
        BY <4>1, CommitWritesDrafts DEF RInv
      <4>2. CASE head'[i] = head[i]
        BY <2>5, <4>2 DEF RInv
      <4> QED
        BY <1>2, <4>1, <4>2, TablesAlone, CommitWritesDrafts
    <3> QED
      BY <2>1, <3>1, <3>2, RefTypes
  <2> QED
    BY <2>3, <2>4, <2>5 DEF RInv, Known
<1> QED
  BY <1>1, <1>2, StepKinds

LEMMA InitRInv == Init => RInv
<1> SUFFICES ASSUME Init PROVE RInv
  OBVIOUS
<1>1. \A i \in Ids : head[i] # NoRow => Known(head[i].app)
  BY InitTables, InheritedAssumption DEF Known
<1>2. \A c \in Clients : Touched(c) = {} /\ req[c].set.app = Keep
  BY DEF Init, Touched, NoDraft, NoRequest, EmptyPatch
<1> QED
  BY <1>1, <1>2 DEF RInv

-----------------------------------------------------------------------------
(* The cascade.                                                            *)

\* The row a delete has drafted keeps its reference.
LEMMA DeletesKeepRef ==
    ASSUME IInv, DInv, NEW c \in Clients, req[c].op = "delete", pc[c] \notin Outside
    PROVE  /\ req[c].id \in Touched(c) /\ req[c].id \in Ids
           /\ Owned(c, head[req[c].id])
           /\ draft[c][req[c].id].app = head[req[c].id].app
<1>1. /\ req[c].id \in Touched(c) /\ req[c].set = EmptyPatch
      /\ Owned(c, head[req[c].id])
      /\ draft[c][req[c].id] = Updated(c, head[req[c].id])
  BY DEF DInv, Derived
<1>2. Updated(c, head[req[c].id]).app = head[req[c].id].app
  BY <1>1 DEF Updated, Set, EmptyPatch
<1> QED
  BY <1>1, <1>2 DEF Touched

\* A delete is about to commit once its cascade has updated the graph, or found no
\* live graph row of this owner, or had no graph to look for.
LEMMA ReachesCommit ==
    ASSUME IInv, DInv, RInv, NEW c \in Clients, StepOf(c),
           pc'[c] = "commit", req'[c].op = "delete"
    PROVE  Settled(c)'
<1>1. CASE Passes(c)
  <2> DEFINE g == head[req[c].id].app
  <2>1. /\ UNCHANGED <<head, versions, req, draft>> /\ pc[c] = "cascade"
        /\ ~Matches(c, draft[c][req[c].id].app) /\ req[c].op = "delete"
    BY <1>1 DEF Passes, Moves, IInv, Holding
  <2>2. ~Matches(c, g) /\ req[c].id \in Ids /\ head[req[c].id] # NoRow
    BY <2>1, DeletesKeepRef DEF Outside, Owned
  <2>3. g = NoId \/ head[g] # NoRow
    BY <2>2 DEF RInv, Known
  <2>4. g \in Ids \cup {NoId}
    BY <2>2, RefTypes DEF IInv, TypeOK
  <2>5. Settled(c)
    BY <2>1, <2>2, <2>3, <2>4 DEF Settled, Matches, View, Stored, Owned, Touched
  <2> QED
    BY <2>1, <2>5 DEF Settled, Touched, BroughtBack
<1>2. CASE WriteVersion(c)
  <2>1. /\ UNCHANGED <<head, versions, req, draft>> /\ pc[c] = "version"
        /\ ~CascadeDue(c) /\ req[c].op = "delete" /\ cur[c] \in Touched(c)
    BY <1>2 DEF WriteVersion, Goto, IInv, TypeOK, Holding
  <2>2. draft[c][req[c].id].app = head[req[c].id].app
    BY <2>1, DeletesKeepRef DEF Outside
  <2>3. cur[c] = req[c].id \/ cur[c] = head[req[c].id].app
    BY <2>1 DEF DInv, Derived
  <2>4. Settled(c)
    BY <2>1, <2>2, <2>3 DEF Settled, CascadeDue
  <2> QED
    BY <2>1, <2>4 DEF Settled, Touched, BroughtBack
<1>3. Passes(c) \/ WriteVersion(c)
  <2>1. Arrive(c) => pc'[c] # "commit"
    BY DEF Arrive, Goto, FirstStep, IInv, TypeOK
  <2>2. (\E r \in Replies : Abandon(c, r)) \/ Commit(c) => pc'[c] # "commit"
    BY DEF Abandon, Commit, Goto, IInv, TypeOK
  <2>3. (\E step \in Outside : Moves(c, step)) \/ Claims(c) => pc'[c] # "commit"
    BY DEF Moves, Claims, Goto, IInv, TypeOK, Outside
  <2>4. Inserts(c) \/ (\E i, step : Updates(c, i, step)) => pc'[c] # "commit"
    BY DEF Inserts, Updates, WriteHead, Goto, IInv, TypeOK
  <2> QED
    BY <2>1, <2>2, <2>3, <2>4 DEF StepOf
<1> QED
  BY <1>1, <1>2, <1>3

\* Another transaction's commit brings a dead graph back only by restoring it, which
\* its history tells, and gives it to no other owner.
LEMMA StaysSettled ==
    ASSUME IInv, DInv, RInv, NEW c \in Clients, NEW d \in Clients \ {c}, StepOf(d),
           pc[c] = "commit", req[c].op = "delete", Settled(c)
    PROVE  Settled(c)'
<1>0. PICK g : g = head[req[c].id].app
  OBVIOUS
<1>1. /\ req[c].id \in Touched(c) /\ req[c].id \in Ids /\ head[req[c].id] # NoRow
  BY DeletesKeepRef DEF Outside, Owned
<1>2. req'[c] = req[c] /\ Touched(c)' = Touched(c) /\ head'[req[c].id] = head[req[c].id]
  BY <1>1, OthersAlone, HeldRows DEF Touched
<1>3. g = NoId \/ (g \in Ids /\ head[g] # NoRow)
  BY <1>0, <1>1, RefTypes DEF RInv, Known, IInv, TypeOK
<1>4. BroughtBack(g) => BroughtBack(g)'
  BY TablesAlone DEF BroughtBack, Commit
<1>5. CASE g = NoId \/ head'[g] = head[g]
  BY <1>0, <1>2, <1>4, <1>5 DEF Settled
<1>6. CASE g # NoId /\ head'[g] # head[g]
  <2>1. Commit(d)
    BY <1>6, TablesAlone
  <2>2. g \in Touched(d) /\ head'[g] = draft[d][g]
    BY <1>3, <1>6, <2>1, CommitWritesDrafts
  <2>3. req[d].op # "create"
    <3>1. req[d].op = "create" => CreatesNew(d) /\ g = req[d].id
      BY <2>1, <2>2 DEF CreatesNew, Commit, DInv, Derived
    <3> QED
      BY <1>3, <1>6, <3>1 DEF IInv, Creating
  <2>4. /\ draft[d][g] = Updated(d, head[g])
        /\ (head[g].live <=> req[d].op # "restore")
    BY <2>2, <2>3 DEF DInv, Derived
  <2>5. head'[g].owner = head[g].owner
    BY <2>2, <2>4 DEF Updated
  <2>6. ASSUME ~head[g].live PROVE BroughtBack(g)'
    <3>1. PICK v \in vdraft[d] : v.id = g
      BY <2>1, <2>2, CommitWritesDrafts DEF Numbered
    <3>2. v.change = "restore" /\ v \in versions'
      BY <2>1, <2>4, <2>6, CommitWritesDrafts DEF DInv, Derived, ChangeType
    <3> QED
      BY <3>1, <3>2 DEF BroughtBack
  <2> QED
    BY <1>0, <1>2, <1>4, <1>6, <2>5, <2>6 DEF Settled
<1> QED
  BY <1>5, <1>6

LEMMA NextCInv == IInv /\ DInv /\ RInv /\ CInv /\ [Next]_vars => CInv'
<1> SUFFICES ASSUME IInv, DInv, RInv, CInv, [Next]_vars, NEW c \in Clients,
                    pc'[c] = "commit", req'[c].op = "delete"
             PROVE  Settled(c)'
  BY DEF CInv
<1>1. CASE UNCHANGED vars
  BY <1>1 DEF vars, CInv, Settled, Touched, BroughtBack
<1>2. ASSUME NEW d \in Clients, StepOf(d) PROVE Settled(c)'
  <2>1. CASE d = c
    BY <1>2, <2>1, ReachesCommit
  <2>2. CASE d # c
    <3>1. pc[c] = "commit" /\ req[c].op = "delete"
      BY <1>2, <2>2, OthersAlone
    <3> QED
      BY <1>2, <2>2, <3>1, StaysSettled DEF CInv
  <2> QED
    BY <2>1, <2>2
<1> QED
  BY <1>1, <1>2, StepKinds

LEMMA CascadeInvariance == Spec => [](IInv /\ DInv /\ RInv /\ CInv)
<1>1. Init => CInv
  BY DEF Init, CInv
<1> QED
  BY <1>1, InitIInv, InitDInv, InitRInv, NextIInv, NextDInv, NextRInv, NextCInv, PTL DEF Spec

\* A wrapper's delete commits with its save-graph row deleted too, unless the row is
\* another owner's or has been restored: the cascade's UPDATE waits for whoever holds
\* the row, and a row it found dead can come back only by a restore.
THEOREM CascadeReachesGraph == Spec => CascadeComplete
<1>1. ASSUME IInv, DInv, RInv, CInv, [Next]_vars, NEW c \in Clients, Deletes(c)
      PROVE  LET graph == head[req[c].id].app
             IN  \/ graph = NoId \/ head'[graph] = NoRow \/ ~head'[graph].live
                 \/ head'[graph].owner # head[req[c].id].owner
                 \/ BroughtBack(graph)
  <2> DEFINE g == head[req[c].id].app
  <2>1. /\ pc[c] = "commit" /\ req[c].op = "delete"
        /\ head'[req[c].id] # head[req[c].id]
    BY <1>1 DEF Deletes
  <2>2. /\ req[c].id \in Touched(c) /\ req[c].id \in Ids /\ Owned(c, head[req[c].id])
    BY <1>1, <2>1, DeletesKeepRef DEF Outside
  <2>3. Commit(c)
    <3>1. PICK d \in Clients : StepOf(d)
      BY <1>1, <2>1, StepKinds DEF vars
    <3>2. d = c
      BY <1>1, <2>1, <2>2, <3>1, HeldRows
    <3> QED
      BY <2>1, <3>1, <3>2, TablesAlone
  <2>4. Settled(c) /\ (g = NoId \/ g \in Ids)
    BY <1>1, <2>1, <2>2, RefTypes DEF CInv, IInv, TypeOK, Owned
  <2>5. g \in Touched(c) => ~head'[g].live
    BY <1>1, <2>1, <2>3, CommitWritesDrafts DEF IInv, Holding
  <2>6. g \in Ids \ Touched(c) => head'[g] = head[g]
    BY <1>1, <2>3, CommitWritesDrafts
  <2> QED
    BY <2>2, <2>4, <2>5, <2>6 DEF Settled, Owned
<1>2. IInv /\ DInv /\ RInv /\ CInv /\ [Next]_vars =>
        [\A c \in Clients : Deletes(c) =>
            LET graph == head[req[c].id].app
            IN  \/ graph = NoId \/ head'[graph] = NoRow \/ ~head'[graph].live
                \/ head'[graph].owner # head[req[c].id].owner
                \/ BroughtBack(graph)]_vars
  BY <1>1
<1> QED
  BY <1>2, CascadeInvariance, PTL DEF Spec, CascadeComplete

(***************************************************************************)
(* Part V.  The roll next to the repository: two programs that write the same rows*)
(* without knowing of each other, and lose no write of one another, for any*)
(* number of clients, curves and dates.  The roll commits in one statement *)
(* that waits for the rows' locks, so to every open transaction it is one  *)
(* more client that leaves locked rows alone.                              *)
(***************************************************************************)
Rolls == \E date \in Bodies : RollCurves(date)

\* What a roll does to a row: nothing, or another date in a live row nobody holds.
LEMMA RollFacts ==
    ASSUME IInv, Rolls
    PROVE  /\ UNCHANGED <<versions, pc, req, cur, draft, vdraft, reply>>
           /\ head' \in [Ids -> Row \cup {NoRow}]
           /\ \A i \in Ids : head'[i] = NoRow <=> head[i] = NoRow
           /\ \A c \in Clients : \A i \in Touched(c) : head'[i] = head[i]
<1>1. PICK date \in Bodies : RollCurves(date)
  BY DEF Rolls
<1>2. ASSUME NEW i \in Ids
      PROVE  /\ head'[i] \in Row \cup {NoRow} /\ (head'[i] = NoRow <=> head[i] = NoRow)
             /\ \A c \in Clients : draft[c][i] # NoRow => head'[i] = head[i]
  <2>1. CASE i \in ToRoll(date)
    <3>1. head[i] \in Row /\ head'[i] = [head[i] EXCEPT !.body = date]
      BY <1>1, <2>1 DEF RollCurves, ToRoll, IInv, TypeOK
    <3>2. head'[i] \in Row
      BY <1>1, <3>1 DEF Row
    <3>3. \A c \in Clients : draft[c][i] = NoRow
      BY <1>1, <2>1 DEF RollCurves
    <3> QED
      BY <3>1, <3>2, <3>3, SentinelAssumption
  <2>2. CASE i \notin ToRoll(date)
    BY <1>1, <2>2 DEF RollCurves, IInv, TypeOK
  <2> QED
    BY <2>1, <2>2
<1> QED
  BY <1>1, <1>2 DEF RollCurves, Touched

LEMMA RollIInv == ASSUME IInv, Rolls PROVE IInv'
<1> USE RollFacts
<1>1. TypeOK'
  BY DEF IInv, TypeOK
<1>2. \A c \in Clients : /\ Touched(c)' = Touched(c) /\ Numbered(c)' = Numbered(c)
                         /\ Owing(c)' = Owing(c) /\ CreatesNew(c)' = CreatesNew(c)
  BY DEF Touched, Numbered, Owing, CreatesNew
<1>3. \A c \in Clients : Holding(c)'
  BY <1>2 DEF IInv, Holding
<1>4. \A c \in Clients : Creating(c)'
  BY <1>2 DEF IInv, Creating, Touched
<1>5. \A c \in Clients : Pending(c)'
  BY DEF IInv, Pending
<1>6. \A c, d \in Clients : c # d => Apart(c, d)'
  BY <1>2 DEF IInv, Apart
<1>7. Recorded'
  BY DEF IInv, Recorded
<1> QED
  BY <1>1, <1>3, <1>4, <1>5, <1>6, <1>7 DEF IInv

LEMMA RollDInv == ASSUME IInv, DInv, Rolls PROVE DInv'
<1> SUFFICES ASSUME NEW c \in Clients PROVE Derived(c)'
  BY DEF DInv
<1>1. /\ Derived(c) /\ pc'[c] = pc[c] /\ req'[c] = req[c]
      /\ draft'[c] = draft[c] /\ vdraft'[c] = vdraft[c]
      /\ \A i \in Touched(c) : head'[i] = head[i]
  BY RollFacts DEF DInv
<1> QED
  BY <1>1, DerivedKept

LEMMA RollInvariance == RollSpec => [](IInv /\ DInv)
<1>1. IInv /\ DInv /\ [RollNext]_vars => (IInv /\ DInv)'
  BY NextIInv, NextDInv, RollIInv, RollDInv DEF RollNext, Rolls
<1> QED
  BY <1>1, InitIInv, InitDInv, PTL DEF RollSpec

-----------------------------------------------------------------------------
\* A patch's transaction holds its row, drafted from the committed one.
LEMMA PatchDraft ==
    ASSUME IInv, DInv, NEW c \in Clients, pc[c] = "commit", req[c].op = "patch"
    PROVE  /\ req[c].id \in Touched(c)
           /\ draft[c][req[c].id] = Updated(c, head[req[c].id])
BY DEF DInv, Derived, Outside

\* The UPDATE of a PATCH names only its own columns and is evaluated on the row as
\* it is once the lock is granted: no column of another PATCH, nor the date of a
\* roll that committed while it waited, is written back.
THEOREM NoLostWrite == RollSpec => PatchKeepsOtherColumns
<1>1. ASSUME IInv, DInv, [RollNext]_vars, NEW c \in Clients,
             pc[c] = "commit", req[c].op = "patch"
      PROVE  LET i == req[c].id
             IN  /\ req[c].set.name = Keep => head'[i].name = head[i].name
                 /\ req[c].set.body = Keep => head'[i].body = head[i].body
                 /\ req[c].set.app = Keep => head'[i].app = head[i].app
  <2> DEFINE i == req[c].id
  <2>1. i \in Touched(c) /\ draft[c][i] = Updated(c, head[i])
    BY <1>1, PatchDraft
  <2>2. head'[i] = head[i] \/ head'[i] = Updated(c, head[i])
    <3>1. CASE Rolls
      BY <1>1, <2>1, <3>1, RollFacts
    <3>2. CASE UNCHANGED vars
      BY <3>2 DEF vars
    <3>3. ASSUME NEW d \in Clients, StepOf(d) PROVE head'[i] = head[i] \/ head'[i] = Updated(c, head[i])
      <4>1. CASE d # c
        BY <1>1, <2>1, <3>3, <4>1, HeldRows
      <4>2. CASE d = c
        BY <1>1, <2>1, <3>3, <4>2, TablesAlone, CommitWritesDrafts
      <4> QED
        BY <4>1, <4>2
    <3> QED
      BY <1>1, <3>1, <3>2, <3>3, StepKinds DEF RollNext, Rolls
  <2>3. LET new == Updated(c, head[i])
        IN  /\ req[c].set.name = Keep => new.name = head[i].name
            /\ req[c].set.body = Keep => new.body = head[i].body
            /\ req[c].set.app = Keep => new.app = head[i].app
    BY DEF Updated, Set
  <2> HIDE DEF i
  <2> QED
    BY <2>2, <2>3 DEF i
<1>2. IInv /\ DInv /\ [RollNext]_vars =>
        [\A c \in Clients :
           pc[c] = "commit" /\ req[c].op = "patch" /\ head' # head =>
              LET i == req[c].id
              IN  /\ req[c].set.name = Keep => head'[i].name = head[i].name
                  /\ req[c].set.body = Keep => head'[i].body = head[i].body
                  /\ req[c].set.app = Keep => head'[i].app = head[i].app]_vars
  BY <1>1
<1> QED
  BY <1>2, RollInvariance, PTL DEF RollSpec, PatchKeepsOtherColumns
=============================================================================
