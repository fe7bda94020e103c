-------------------------- MODULE EngineFanoutProofs --------------------------
(***************************************************************************)
(* The fan-out for any request, plan and number of retries: whatever order *)
(* the engine's answers come back in, a list is returned only when every   *)
(* batch has its prices, and it lines up with the trades.  Part I shows    *)
(* that the batches partition the request and that lists filled batch by   *)
(* batch join to the whole; part II that the tasks fill them so.           *)
(***************************************************************************)
EXTENDS EngineFanout, SubsequencesProofs, SequenceTheorems

-----------------------------------------------------------------------------
(* I. The plan and the joining of its lists.                               *)

\* The batches' ends, as far as batch n.
Sums(f, n) ==
    /\ f \in [0..n -> Nat] /\ f[0] = 0
    /\ \A b \in 1..n : f[b] = f[b - 1] + Sizes[b]

LEMMA SumsExist ==
    ASSUME NEW n \in 0..N
    PROVE  \E f : Sums(f, n)
<1> DEFINE S == {m \in Nat : m <= N => \E f : Sums(f, m)}
<1>0. N \in Nat /\ \A b \in 1..N : Sizes[b] \in Nat
  BY FanoutAssumption DEF N
<1>1. 0 \in S
  <2>1. Sums([b \in 0..0 |-> 0], 0)
    BY DEF Sums
  <2> QED
    BY <2>1
<1>2. ASSUME NEW m \in S PROVE m + 1 \in S
  <2> SUFFICES ASSUME m + 1 <= N PROVE \E f : Sums(f, m + 1)
    BY <1>2
  <2>1. m \in Nat /\ m <= N
    BY <1>0, <1>2
  <2>2. PICK f : Sums(f, m)
    BY <2>1, <1>2
  <2> DEFINE g == [b \in 0..(m + 1) |-> IF b = m + 1 THEN f[m] + Sizes[m + 1] ELSE f[b]]
  <2>3. f \in [0..m -> Nat] /\ f[0] = 0 /\ \A b \in 1..m : f[b] = f[b - 1] + Sizes[b]
    BY <2>2 DEF Sums
  <2>4. Sizes[m + 1] \in Nat /\ f[m] \in Nat
    <3>1. m + 1 \in 1..N /\ m \in 0..m
      BY <2>1, <1>0
    <3> QED
      BY <3>1, <1>0, <2>3
  <2>5. g \in [0..(m + 1) -> Nat] /\ g[0] = 0
    BY <2>1, <2>3, <2>4
  <2>6. ASSUME NEW b \in 1..(m + 1) PROVE g[b] = g[b - 1] + Sizes[b]
    <3>1. CASE b = m + 1
      BY <2>1, <3>1
    <3>2. CASE b # m + 1
      <4>1. b \in 1..m /\ b - 1 \in 0..(m + 1) /\ b - 1 # m + 1 /\ b \in 0..(m + 1)
        BY <2>1, <3>2
      <4>2. g[b] = f[b] /\ g[b - 1] = f[b - 1]
        BY <3>2, <4>1
      <4> QED
        BY <2>3, <4>1, <4>2
    <3> QED
      BY <3>1, <3>2
  <2>7. Sums(g, m + 1)
    <3> HIDE DEF g
    <3> QED
      BY <2>5, <2>6 DEF Sums
  <2> QED
    BY <2>7
<1>3. S = Nat
  <2> HIDE DEF S
  <2>1. S \in SUBSET Nat
    BY DEF S
  <2> QED
    BY <1>1, <1>2, <2>1, SetInduction
<1> QED
  BY <1>0, <1>3

\* Planned adds up the sizes of the batches.
LEMMA PlannedAddsUp == Sums(Planned, N)
<1>0. N \in Nat
  BY FanoutAssumption DEF N
<1>1. PICK f : Sums(f, N)
  BY <1>0, SumsExist
<1>2. f = [b \in 0..N |-> IF b = 0 THEN 0 ELSE f[b - 1] + Sizes[b]]
  BY <1>0, <1>1 DEF Sums
<1>3. Planned = [b \in 0..N |-> IF b = 0 THEN 0 ELSE Planned[b - 1] + Sizes[b]]
  BY <1>2 DEF Planned
<1> HIDE DEF Planned
<1> DEFINE S == {m \in Nat : m <= N => Planned[m] = f[m]}
<1>4. 0 \in S
  <2>1. 0 \in 0..N
    BY <1>0
  <2>2. Planned[0] = 0
    BY <1>3, <2>1
  <2> QED
    BY <1>1, <2>2 DEF Sums
<1>5. ASSUME NEW m \in S PROVE m + 1 \in S
  <2> SUFFICES ASSUME m + 1 <= N PROVE Planned[m + 1] = f[m + 1]
    BY <1>5
  <2>1. m \in Nat /\ m <= N /\ m + 1 \in 0..N /\ m + 1 \in 1..N /\ m + 1 # 0 /\ (m + 1) - 1 = m
    BY <1>0, <1>5
  <2>2. Planned[m + 1] = Planned[m] + Sizes[m + 1]
    BY <1>3, <2>1
  <2>3. f[m + 1] = f[m] + Sizes[m + 1]
    BY <1>1, <2>1 DEF Sums
  <2>4. Planned[m] = f[m]
    BY <1>5, <2>1
  <2> QED
    BY <2>2, <2>3, <2>4
<1>6. S = Nat
  <2> HIDE DEF S
  <2>1. S \in SUBSET Nat
    BY DEF S
  <2> QED
    BY <1>4, <1>5, <2>1, SetInduction
<1>7. \A b \in 0..N : Planned[b] = f[b]
  BY <1>0, <1>6
<1>8. f \in [0..N -> Nat] /\ f[0] = 0 /\ \A b \in 1..N : f[b] = f[b - 1] + Sizes[b]
  BY <1>1 DEF Sums
<1>9. Planned = f
  BY <1>2, <1>3, <1>7
<1> QED
  BY <1>8, <1>9 DEF Sums

\* The ends ascend.
LEMMA PlannedAscends ==
    ASSUME NEW m \in 0..N, NEW n \in 0..N, m <= n
    PROVE  Planned[m] \in Nat /\ Planned[n] \in Nat /\ Planned[m] <= Planned[n]
<1>0. N \in Nat /\ \A c \in 1..N : Sizes[c] \in Nat
  BY FanoutAssumption DEF N
<1>1. /\ \A c \in 0..N : Planned[c] \in Nat
      /\ \A c \in 1..N : Planned[c] = Planned[c - 1] + Sizes[c]
  BY PlannedAddsUp DEF Sums
<1> HIDE DEF Planned
<1> DEFINE S == {i \in Nat : i <= N => \A j \in 0..i : Planned[j] <= Planned[i]}
<1>2. 0 \in S
  <2>1. 0 \in 0..N
    BY <1>0
  <2> QED
    BY <1>1, <2>1
<1>3. ASSUME NEW i \in S PROVE i + 1 \in S
  <2> SUFFICES ASSUME i + 1 <= N, NEW j \in 0..(i + 1) PROVE Planned[j] <= Planned[i + 1]
    BY <1>3
  <2>1. i \in Nat /\ i <= N /\ i + 1 \in 1..N /\ (i + 1) - 1 = i /\ i \in 0..N /\ i + 1 \in 0..N
    BY <1>0, <1>3
  <2>2. Planned[i + 1] = Planned[i] + Sizes[i + 1] /\ Planned[i] <= Planned[i + 1]
    BY <1>0, <1>1, <2>1
  <2>3. j = i + 1 \/ (j \in 0..i /\ j \in 0..N)
    BY <2>1, <1>0
  <2>4. CASE j = i + 1
    BY <1>1, <2>1, <2>4
  <2>5. CASE j \in 0..i /\ j \in 0..N
    <3>1. Planned[j] <= Planned[i]
      BY <1>3, <2>1, <2>5
    <3>2. Planned[j] \in Nat /\ Planned[i] \in Nat /\ Planned[i + 1] \in Nat
      BY <1>1, <2>1, <2>5
    <3> QED
      BY <2>2, <3>1, <3>2
  <2> QED
    BY <2>3, <2>4, <2>5
<1>4. S = Nat
  <2> HIDE DEF S
  <2>1. S \in SUBSET Nat
    BY DEF S
  <2> QED
    BY <1>2, <1>3, <2>1, SetInduction
<1>5. n \in Nat /\ n <= N /\ m \in 0..n
  BY <1>0
<1> QED
  BY <1>1, <1>4, <1>5

\* Where a batch begins and ends.
LEMMA BatchEnds ==
    ASSUME NEW b \in Batches
    PROVE  /\ b - 1 \in 0..N /\ b \in 0..N /\ Sizes[b] \in Nat
           /\ Planned[b - 1] \in Nat /\ Planned[b] \in Nat /\ Planned[N] \in Nat
           /\ Planned[b] = Planned[b - 1] + Sizes[b] /\ Planned[b] <= Planned[N]
<1>0. N \in Nat /\ \A c \in 1..N : Sizes[c] \in Nat
  BY FanoutAssumption DEF N
<1>1. b - 1 \in 0..N /\ b \in 0..N /\ N \in 0..N /\ b \in 1..N /\ b <= N
  BY <1>0 DEF Batches
<1>2. Planned[b] = Planned[b - 1] + Sizes[b] /\ Planned[b - 1] \in Nat
  BY <1>1, PlannedAddsUp DEF Sums
<1>3. Planned[b] \in Nat /\ Planned[N] \in Nat /\ Planned[b] <= Planned[N]
  BY <1>1, PlannedAscends
<1> QED
  BY <1>0, <1>1, <1>2, <1>3

\* No trade is of two batches.
LEMMA BatchesApart ==
    ASSUME NEW b \in Batches, NEW c \in Batches, b # c
    PROVE  Batch(b) \cap Batch(c) = {}
<1>0. N \in Nat
  BY FanoutAssumption DEF N
<1>1. ASSUME NEW i \in Batches, NEW j \in Batches, i < j
      PROVE  Planned[i] <= Planned[j - 1]
  <2>1. i \in 0..N /\ j - 1 \in 0..N /\ i <= j - 1
    BY <1>0, <1>1 DEF Batches
  <2> QED
    BY <2>1, PlannedAscends
<1>2. /\ Planned[b - 1] \in Nat /\ Planned[b] \in Nat
      /\ Planned[c - 1] \in Nat /\ Planned[c] \in Nat
  BY BatchEnds
<1> HIDE DEF Planned
<1>3. CASE b < c
  BY <1>1, <1>2, <1>3 DEF Batch
<1>4. CASE c < b
  BY <1>1, <1>2, <1>4 DEF Batch
<1> QED
  BY <1>0, <1>3, <1>4 DEF Batches

\* The list of batch b holds what p has at the places of the batch.
Holds(p, lists, b) ==
    /\ lists[b] \in [1..Sizes[b] -> Prices]
    /\ \A k \in Batch(b) : p[k] = lists[b][k - Planned[b - 1]]

\* Laying such lists end to end gives p, and leaves no place without a price.
LEMMA JoinedIsWhole ==
    ASSUME NEW p \in [Trades -> Prices \cup {NoPrice}],
           NEW lists \in [Batches -> Seq(Prices)],
           \A b \in Batches : Holds(p, lists, b)
    PROVE  Joined(lists) = p /\ p \in Seq(Prices)
<1> DEFINE Eq(F) == F = [n \in 0..N |-> IF n = 0 THEN <<>> ELSE F[n - 1] \o lists[n]]
           T == Prices \cup {NoPrice}
           G == [n \in 0..N |-> SubSeq(p, 1, Planned[n])]
<1>0. N \in Nat /\ Planned[0] = 0 /\ Planned[N] \in Nat
  <2>1. N \in Nat
    BY FanoutAssumption DEF N
  <2>2. N \in 0..N /\ 0 \in 0..N
    BY <2>1
  <2> QED
    BY <2>1, <2>2, PlannedAddsUp DEF Sums
<1>1. p \in Seq(T) /\ Len(p) = Planned[N]
  BY <1>0 DEF Trades
<1>2. Len(lists) = N
  BY <1>0 DEF Batches
<1> HIDE DEF Planned, T
<1>3. \A n \in 1..N : SubSeq(p, 1, Planned[n]) = SubSeq(p, 1, Planned[n - 1]) \o lists[n]
  <2> SUFFICES ASSUME NEW n \in 1..N
               PROVE  SubSeq(p, 1, Planned[n]) = SubSeq(p, 1, Planned[n - 1]) \o lists[n]
    OBVIOUS
  <2>0. n \in Batches
    BY DEF Batches
  <2> DEFINE a == Planned[n - 1]
             z == Planned[n]
             l == lists[n]
  <2>1. /\ a \in Nat /\ z \in Nat /\ a <= z /\ z <= Len(p) /\ Sizes[n] \in Nat /\ z = a + Sizes[n]
    BY <1>1, <2>0, BatchEnds
  <2>2. /\ l \in [1..Sizes[n] -> Prices]
        /\ \A k \in (a + 1)..z : p[k] = l[k - a]
    BY <2>0 DEF Holds, Batch
  <2> HIDE DEF a, z, l
  <2>3. l \in Seq(T) /\ Len(l) = Sizes[n]
    <3> DEFINE s == Sizes[n]
    <3>1. s \in Nat /\ l \in [1..s -> Prices]
      BY <2>1, <2>2
    <3> HIDE DEF s
    <3>2. l \in Seq(Prices) /\ Len(l) = s
      BY <3>1
    <3> QED
      BY <3>2 DEF T, s
  <2> DEFINE u == SubSeq(p, 1, a)
             w == SubSeq(p, 1, z)
  <2>4. u \in Seq(T) /\ Len(u) = a /\ \A i \in 1..a : u[i] = p[i]
    <3>1. \A i \in 1..a : p[i] \in T
      BY <1>1, <2>1
    <3>2. /\ SubSeq(p, 1, a) \in Seq(T) /\ Len(SubSeq(p, 1, a)) = IF 1 <= a THEN a - 1 + 1 ELSE 0
          /\ \A i \in 1..(a - 1 + 1) : SubSeq(p, 1, a)[i] = p[1 + i - 1]
      BY <2>1, <3>1, SubSeqProperties
    <3> QED
      BY <2>1, <3>2
  <2>5. w \in Seq(T) /\ Len(w) = z /\ \A i \in 1..z : w[i] = p[i]
    <3>1. \A i \in 1..z : p[i] \in T
      BY <1>1, <2>1
    <3>2. /\ SubSeq(p, 1, z) \in Seq(T) /\ Len(SubSeq(p, 1, z)) = IF 1 <= z THEN z - 1 + 1 ELSE 0
          /\ \A i \in 1..(z - 1 + 1) : SubSeq(p, 1, z)[i] = p[1 + i - 1]
      BY <2>1, <3>1, SubSeqProperties
    <3> QED
      BY <2>1, <3>2
  <2> HIDE DEF u, w
  <2>6. /\ u \o l \in Seq(T) /\ Len(u \o l) = z
        /\ \A i \in 1..z : (u \o l)[i] = IF i <= a THEN u[i] ELSE l[i - a]
    <3>1. /\ u \o l \in Seq(T) /\ Len(u \o l) = Len(u) + Len(l)
          /\ \A i \in 1..(Len(u) + Len(l)) :
                (u \o l)[i] = IF i <= Len(u) THEN u[i] ELSE l[i - Len(u)]
      BY <2>3, <2>4, ConcatProperties
    <3>2. Len(u) = a /\ Len(u) + Len(l) = z
      BY <2>1, <2>3, <2>4
    <3> QED
      BY <3>1, <3>2
  <2>7. \A i \in 1..z : w[i] = (u \o l)[i]
    <3> SUFFICES ASSUME NEW i \in 1..z PROVE w[i] = (u \o l)[i]
      OBVIOUS
    <3>1. i \in 1..a \/ i \in (a + 1)..z
      BY <2>1
    <3>2. CASE i \in 1..a
      <4>1. i <= a
        BY <2>1, <3>2
      <4>2. (u \o l)[i] = u[i] /\ u[i] = p[i] /\ w[i] = p[i]
        BY <2>4, <2>5, <2>6, <3>2, <4>1
      <4> QED
        BY <4>2
    <3>3. CASE i \in (a + 1)..z
      <4>1. ~(i <= a)
        BY <2>1, <3>3
      <4> QED
        BY <2>2, <2>5, <2>6, <3>3, <4>1
    <3> QED
      BY <3>1, <3>2, <3>3
  <2>8. w = u \o l
    BY <2>5, <2>6, <2>7, SeqEqual
  <2> QED
    BY <2>8 DEF a, z, l, u, w
<1>4. Eq(G)
  <2> SUFFICES ASSUME NEW n \in 0..N
               PROVE  G[n] = IF n = 0 THEN <<>> ELSE G[n - 1] \o lists[n]
    OBVIOUS
  <2>1. CASE n = 0
    BY <1>0, <1>1, <2>1
  <2>2. CASE n # 0
    <3>1. n \in 1..N /\ n - 1 \in 0..N
      BY <1>0, <2>2
    <3> QED
      BY <1>3, <2>2, <3>1
  <2> QED
    BY <2>1, <2>2
<1>5. G[N] = p
  BY <1>0, <1>1
<1> HIDE DEF G
<1>6. ASSUME NEW F, Eq(F) PROVE F[N] = G[N] /\ F[N] \in Seq(Prices)
  <2> DEFINE S == {m \in Nat : m <= N => F[m] = G[m] /\ F[m] \in Seq(Prices)}
  <2>1. 0 \in S
    <3>1. 0 \in 0..N
      BY <1>0
    <3>2. F[0] = <<>> /\ G[0] = <<>>
      BY <1>4, <1>6, <3>1
    <3>3. <<>> \in Seq(Prices)
      OBVIOUS
    <3> QED
      BY <3>2, <3>3
  <2>2. ASSUME NEW m \in S PROVE m + 1 \in S
    <3> SUFFICES ASSUME m + 1 <= N PROVE F[m + 1] = G[m + 1] /\ F[m + 1] \in Seq(Prices)
      BY <2>2
    <3>1. /\ m \in Nat /\ m <= N /\ m + 1 \in 0..N /\ m + 1 # 0 /\ (m + 1) - 1 = m
          /\ m + 1 \in Batches
      BY <1>0, <2>2 DEF Batches
    <3>2. F[m + 1] = F[m] \o lists[m + 1]
      BY <1>6, <3>1
    <3>3. G[m + 1] = G[m] \o lists[m + 1]
      BY <1>4, <3>1
    <3>4. F[m] = G[m] /\ F[m] \in Seq(Prices)
      BY <2>2, <3>1
    <3>5. lists[m + 1] \in Seq(Prices)
      BY <3>1
    <3> QED
      BY <3>2, <3>3, <3>4, <3>5
  <2>3. S = Nat
    <3> HIDE DEF S
    <3>1. S \in SUBSET Nat
      BY DEF S
    <3> QED
      BY <2>1, <2>2, <3>1, SetInduction
  <2>4. N \in S
    <3> HIDE DEF S
    <3> QED
      BY <1>0, <2>3
  <2> QED
    BY <1>0, <2>4
<1> DEFINE F == CHOOSE F : Eq(F)
<1>7. Eq(F)
  BY <1>4
<1>8. Joined(lists) = F[N]
  BY <1>2 DEF Joined
<1> HIDE DEF F
<1>9. F[N] = G[N] /\ F[N] \in Seq(Prices)
  BY <1>6, <1>7
<1> QED
  BY <1>5, <1>8, <1>9

-----------------------------------------------------------------------------
(* II. The tasks.                                                          *)

Typed ==
    /\ stage \in [Batches -> Stages]
    /\ tries \in [Batches -> 0..MaxRetries + 1]
    /\ slot \in [Batches -> Seq(Prices)]
    /\ outcome \in {"waiting", "returned", "raised"}
    /\ results \in Seq(Prices)
    /\ priced \in [Trades -> Prices \cup {NoPrice}]

\* A task that is still trying has retries left.
Trying == \A b \in Batches : stage[b] # "failed" => tries[b] <= MaxRetries

\* A task that is done left in its slot what the engine answered for its trades.
Filled == \A b \in Batches : stage[b] = "done" => Holds(priced, slot, b)

\* What the route has been given.
Given ==
    /\ outcome = "returned" => results = priced /\ \A b \in Batches : stage[b] = "done"
    /\ (\E b \in Batches : stage[b] = "failed") => outcome = "raised"

IInv == Typed /\ Trying /\ Filled /\ Given

LEMMA InitHolds == Init => IInv
<1> SUFFICES ASSUME Init PROVE IInv
  OBVIOUS
<1>1. MaxRetries \in Nat
  BY FanoutAssumption
<1> HIDE DEF Planned
<1>2. Typed /\ Trying
  BY <1>1 DEF Init, Typed, Trying, Stages, Trades
<1>3. Filled /\ Given
  BY DEF Init, Filled, Given
<1> QED
  BY <1>2, <1>3 DEF IInv

\* A task that is not done yet keeps the list back.
LEMMA NotYetReturned ==
    ASSUME IInv, NEW b \in Batches, stage[b] # "done"
    PROVE  outcome # "returned"
BY DEF IInv, Given

\* The first failure is what the route is given.
LEMMA RaiseKeeps ==
    ASSUME IInv, NEW b \in Batches, stage[b] = "calling", Raise(b),
           tries' \in [Batches -> 0..MaxRetries + 1],
           \A c \in Batches \ {b} : tries'[c] = tries[c]
    PROVE  IInv'
<1>1. outcome # "returned"
  BY NotYetReturned
<1>2. /\ stage' = [stage EXCEPT ![b] = "failed"]
      /\ outcome' = "raised" /\ UNCHANGED <<slot, results, priced>>
  BY <1>1 DEF Raise, IInv, Typed
<1>3. stage'[b] = "failed" /\ \A c \in Batches \ {b} : stage'[c] = stage[c]
  BY <1>2 DEF IInv, Typed
<1>4. Typed'
  BY <1>2 DEF IInv, Typed, Stages
<1>5. Trying'
  BY <1>3 DEF IInv, Trying
<1>6. Filled'
  BY <1>2, <1>3 DEF IInv, Filled, Holds
<1>7. Given'
  BY <1>2 DEF Given
<1> QED
  BY <1>4, <1>5, <1>6, <1>7 DEF IInv

\* So is a call sent again, or about to be.
LEMMA RetryKeeps ==
    ASSUME IInv, NEW b \in Batches, stage[b] \in {"calling", "backoff"},
           NEW s \in {"calling", "backoff"}, stage' = [stage EXCEPT ![b] = s],
           tries' \in [Batches -> 0..MaxRetries + 1], tries'[b] <= MaxRetries,
           \A c \in Batches \ {b} : tries'[c] = tries[c],
           UNCHANGED <<slot, outcome, results, priced>>
    PROVE  IInv'
<1>1. outcome # "returned"
  BY NotYetReturned
<1>2. stage'[b] = s /\ \A c \in Batches \ {b} : stage'[c] = stage[c]
  BY DEF IInv, Typed
<1>3. Typed'
  BY DEF IInv, Typed, Stages
<1>4. Trying'
  BY <1>2 DEF IInv, Trying
<1>5. Filled'
  BY <1>2 DEF IInv, Filled, Holds
<1>6. Given'
  BY <1>1, <1>2 DEF IInv, Given
<1> QED
  BY <1>3, <1>4, <1>5, <1>6 DEF IInv

LEMMA SucceedKeeps ==
    ASSUME IInv, NEW b \in Batches, Succeed(b)
    PROVE  IInv'
<1>1. outcome # "returned"
  BY NotYetReturned DEF Succeed, Fill
<1>2. PICK answer \in [1..Sizes[b] -> Prices] :
          /\ Fill(b, answer)
          /\ IF AllDone THEN outcome' = "returned" /\ results' = Joined(slot')
             ELSE UNCHANGED <<outcome, results>>
  BY DEF Succeed
<1> HIDE DEF Planned
<1>3. /\ stage[b] = "calling" /\ stage' = [stage EXCEPT ![b] = "done"]
      /\ slot' = [slot EXCEPT ![b] = answer] /\ tries' = tries
      /\ priced' = [k \in Trades |-> IF k \in Batch(b) THEN answer[k - Planned[b - 1]]
                                     ELSE priced[k]]
  BY <1>2 DEF Fill
<1>4. /\ stage'[b] = "done" /\ stage' \in [Batches -> Stages]
      /\ \A c \in Batches \ {b} : stage'[c] = stage[c]
  BY <1>3 DEF IInv, Typed, Stages
<1>5. /\ slot'[b] = answer /\ slot' \in [Batches -> Seq(Prices)]
      /\ \A c \in Batches \ {b} : slot'[c] = slot[c]
  <2>1. answer \in Seq(Prices)
    BY BatchEnds
  <2> QED
    BY <1>3, <2>1 DEF IInv, Typed
<1>6. /\ Planned[b - 1] \in Nat /\ Planned[b] \in Nat /\ Sizes[b] \in Nat
      /\ Planned[b] = Planned[b - 1] + Sizes[b]
  BY BatchEnds
<1>7. priced' \in [Trades -> Prices \cup {NoPrice}]
  <2>1. ASSUME NEW k \in Batch(b) PROVE answer[k - Planned[b - 1]] \in Prices
    <3>1. k - Planned[b - 1] \in 1..Sizes[b]
      BY <1>6 DEF Batch
    <3> QED
      BY <3>1
  <2> QED
    BY <1>3, <2>1 DEF IInv, Typed
<1>8. Trying'
  BY <1>3, <1>4 DEF IInv, Trying
<1>9. Filled'
  <2> SUFFICES ASSUME NEW c \in Batches, stage'[c] = "done" PROVE Holds(priced, slot, c)'
    BY DEF Filled
  <2>1. Batch(c) \subseteq Trades
    <3>1. /\ Planned[c - 1] \in Nat /\ Planned[c] \in Nat /\ Planned[N] \in Nat
          /\ Planned[c] <= Planned[N]
      BY BatchEnds
    <3> QED
      BY <3>1 DEF Batch, Trades
  <2>2. CASE c = b
    BY <1>3, <1>5, <2>1, <2>2 DEF Holds
  <2>3. CASE c # b
    <3>1. Holds(priced, slot, c)
      BY <1>4, <2>3 DEF IInv, Filled
    <3>2. \A k \in Batch(c) : priced'[k] = priced[k]
      BY <1>3, <2>1, <2>3, BatchesApart
    <3> QED
      BY <1>5, <2>3, <3>1, <3>2 DEF Holds
  <2> QED
    BY <2>2, <2>3
<1>10. CASE AllDone
  <2>1. outcome' = "returned" /\ results' = Joined(slot')
    BY <1>2, <1>10
  <2>2. \A c \in Batches : stage'[c] = "done"
    BY <1>10 DEF AllDone
  <2>3. \A c \in Batches : Holds(priced', slot', c)
    BY <1>9, <2>2 DEF Filled, Holds
  <2>4. Joined(slot') = priced' /\ priced' \in Seq(Prices)
    BY <1>5, <1>7, <2>3, JoinedIsWhole
  <2>5. Typed' /\ Given'
    BY <1>3, <1>4, <1>5, <1>7, <2>1, <2>2, <2>4 DEF IInv, Typed, Given
  <2> QED
    BY <1>8, <1>9, <2>5 DEF IInv
<1>11. CASE ~AllDone
  <2>1. UNCHANGED <<outcome, results>>
    BY <1>2, <1>11
  <2>2. Typed'
    BY <1>3, <1>4, <1>5, <1>7, <2>1 DEF IInv, Typed
  <2>3. Given'
    BY <1>1, <1>4, <2>1 DEF IInv, Given
  <2> QED
    BY <1>8, <1>9, <2>2, <2>3 DEF IInv
<1> QED
  BY <1>10, <1>11

LEMMA IInvKept == IInv /\ [Next]_vars => IInv'
<1> SUFFICES ASSUME IInv, [Next]_vars PROVE IInv'
  OBVIOUS
<1>0. MaxRetries \in Nat
  BY FanoutAssumption
<1>1. ASSUME NEW b \in Batches, Resend(b) PROVE IInv'
  <2>1. tries' = tries /\ tries[b] <= MaxRetries
    BY <1>1 DEF Resend, IInv, Trying
  <2> QED
    BY <1>1, <2>1, RetryKeeps DEF Resend, IInv, Typed
<1>2. ASSUME NEW b \in Batches, Unavailable(b) PROVE IInv'
  <2>1. /\ stage[b] = "calling" /\ tries' = [tries EXCEPT ![b] = @ + 1]
        /\ tries[b] \in Nat /\ tries[b] <= MaxRetries
    BY <1>0, <1>2 DEF Unavailable, IInv, Typed, Trying
  <2>2. /\ tries' \in [Batches -> 0..MaxRetries + 1] /\ tries'[b] = tries[b] + 1
        /\ \A c \in Batches \ {b} : tries'[c] = tries[c]
    BY <1>0, <2>1 DEF IInv, Typed
  <2>3. CASE tries[b] = MaxRetries /\ Raise(b)
    BY <2>1, <2>2, <2>3, RaiseKeeps
  <2>4. CASE /\ tries[b] < MaxRetries /\ stage' = [stage EXCEPT ![b] = "backoff"]
             /\ UNCHANGED <<slot, outcome, results, priced>>
    <3>1. tries'[b] <= MaxRetries
      BY <1>0, <2>1, <2>2, <2>4
    <3> QED
      BY <2>1, <2>2, <2>4, <3>1, RetryKeeps
  <2> QED
    BY <1>2, <2>3, <2>4 DEF Unavailable
<1>3. ASSUME NEW b \in Batches, Refused(b) PROVE IInv'
  BY <1>3, RaiseKeeps DEF Refused, IInv, Typed
<1>4. ASSUME NEW b \in Batches, Succeed(b) PROVE IInv'
  BY <1>4, SucceedKeeps
<1>5. CASE UNCHANGED vars
  BY <1>5 DEF vars, IInv, Typed, Trying, Filled, Holds, Given
<1> QED
  BY <1>1, <1>2, <1>3, <1>4, <1>5 DEF Next, Step, AllSettled

LEMMA Invariance == Spec => []IInv
BY InitHolds, IInvKept, PTL DEF Spec

-----------------------------------------------------------------------------
(* Theorems.                                                               *)

\* The states of RetryingEngineClient and gather are well formed, and no batch is
\* sent more than MaxRetries + 1 times.
THEOREM TypeCorrect == Spec => []TypeOK
<1>1. IInv => TypeOK
  BY DEF IInv, Typed, Trying, TypeOK
<1> QED
  BY <1>1, Invariance, PTL

\* execute's list holds, in the place of every trade, what the engine answered for
\* it, for every plan and every order in which the calls come back.
THEOREM ListsLineUp == Spec => []ResultsInInputOrder
<1>1. IInv => ResultsInInputOrder
  BY DEF IInv, Given, ResultsInInputOrder
<1> QED
  BY <1>1, Invariance, PTL

\* A route of the orchestrator gets every price or an error, never a part.
THEOREM NeverAPart == Spec => []AllOrNothing
<1>1. IInv => AllOrNothing
  BY DEF IInv, Given, AllOrNothing
<1> QED
  BY <1>1, Invariance, PTL
=============================================================================
