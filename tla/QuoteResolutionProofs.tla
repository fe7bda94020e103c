------------------------ MODULE QuoteResolutionProofs ------------------------
(***************************************************************************)
(* What a pricing request is answered with, for every number of callers,   *)
(* quotes and snapshots and for every TTL and cache size.  The invariant   *)
(* says of every quote on its way (in the cache, in a response, among a    *)
(* call's hits) which version it is of, and how long it has been out of    *)
(* date at most, given how long its own request was under way.             *)
(***************************************************************************)
EXTENDS QuoteResolution, SubsequencesProofs, SequenceTheorems

\* v is what the service has answered for q: under a snapshot what that holds or
\* "not found", otherwise some value of the past.
Genuine(q, p, v) ==
    /\ p # Latest => v \in {snaps[p][q], 0}
    /\ p = Latest => v <= Len(changes[q])

\* v was not yet out of date at t.
ValidAt(q, v, t) == v < Len(changes[q]) => changes[q][v + 1] >= t

EntryOK(e) ==
    /\ e.key[2] <= Len(snaps) /\ e.at <= now
    /\ Genuine(e.key[1], e.key[2], e.quote.value)
    /\ e.key[2] = Latest => ValidAt(e.key[1], e.quote.value, e.at - e.quote.took)

CallOK(k) ==
    /\ k.pin <= Len(snaps) /\ k.begun <= now /\ k.sent <= now
    /\ \A m, n \in 1..Len(k.ask) : k.ask[m] = k.ask[n] => m = n
    /\ k.stage \in {"sent", "read"} => k.begun <= k.sent
    /\ k.stage = "read" => DOMAIN k.body = Members(k.ask)
    /\ \A q \in DOMAIN k.hits :
          /\ Genuine(q, k.pin, k.hits[q].value)
          /\ k.pin = Latest => ValidAt(q, k.hits[q].value, k.begun - (TTL + k.hits[q].took))
    /\ k.stage = "read" => \A q \in DOMAIN k.body :
          /\ Genuine(q, k.pin, k.body[q])
          /\ k.pin = Latest => ValidAt(q, k.body[q], k.sent)

IInv ==
    /\ TypeOK
    /\ Len(snaps) <= MaxEtags /\ \A q \in Quotes : Len(changes[q]) <= MaxChanges
    /\ CacheBounded
    /\ \A n \in 1..Len(cache) : EntryOK(cache[n])
    /\ \A c \in Calls : CallOK(calls[c])

-----------------------------------------------------------------------------
(* The cache.                                                              *)

\* No two entries of one key.
Distinct(s) == \A m, n \in 1..Len(s) : s[m].key = s[n].key => m = n

\* Every element of t is one of s.
Within(t, s) == \A n \in 1..Len(t) : \E i \in 1..Len(s) : t[n] = s[i]

LEMMA WithoutFacts ==
    ASSUME NEW s \in Seq(Entry), NEW keys, Distinct(s)
    PROVE  /\ Without(s, keys) \in Seq(Entry)
           /\ Within(Without(s, keys), s) /\ Distinct(Without(s, keys))
           /\ \A n \in 1..Len(Without(s, keys)) : Without(s, keys)[n].key \notin keys
<1> DEFINE I == {n \in 1..Len(s) : s[n].key \notin keys}
           w == Picked(s, I)
<1>0. I \in SUBSET (1..Len(s)) /\ \A i \in I : s[i].key \notin keys
  OBVIOUS
<1>1. Without(s, keys) = w
  BY DOMAIN s = 1..Len(s) DEF Without
<1> HIDE DEF I
<1>2. w \in Seq(Entry)
  BY <1>0, PickedType
<1>3. /\ \A n \in 1..Len(w) : \E i \in I : w[n] = s[i]
      /\ \A m, n \in 1..Len(w) : m < n => \E i, j \in I : i < j /\ w[m] = s[i] /\ w[n] = s[j]
  BY <1>0, PickedElements
<1> HIDE DEF w
<1>4. Within(w, s) /\ \A n \in 1..Len(w) : w[n].key \notin keys
  BY <1>0, <1>3 DEF Within
<1>5. ASSUME NEW m \in 1..Len(w), NEW n \in 1..Len(w), m < n PROVE w[m].key # w[n].key
  <2>1. PICK i \in I, j \in I : i < j /\ w[m] = s[i] /\ w[n] = s[j]
    BY <1>3, <1>5
  <2> QED
    BY <1>0, <2>1 DEF Distinct
<1>6. Distinct(w)
  <2> SUFFICES ASSUME NEW m \in 1..Len(w), NEW n \in 1..Len(w), m # n
               PROVE  w[m].key # w[n].key
    BY DEF Distinct
  <2>1. m < n \/ n < m
    BY <1>2
  <2> QED
    BY <1>5, <2>1
<1> QED
  BY <1>1, <1>2, <1>4, <1>6

LEMMA ConcatFacts ==
    ASSUME NEW s \in Seq(Entry), NEW t \in Seq(Entry), Distinct(s), Distinct(t),
           \A m \in 1..Len(s), n \in 1..Len(t) : s[m].key # t[n].key
    PROVE  /\ s \o t \in Seq(Entry) /\ Distinct(s \o t)
           /\ \A n \in 1..Len(s \o t) :
                 \/ \E i \in 1..Len(s) : (s \o t)[n] = s[i]
                 \/ \E i \in 1..Len(t) : (s \o t)[n] = t[i]
<1> DEFINE u == s \o t
<1>1. u \in Seq(Entry) /\ Len(u) = Len(s) + Len(t) /\ Len(s) \in Nat /\ Len(t) \in Nat
  OBVIOUS
<1>2. \A n \in 1..Len(u) : /\ n <= Len(s) => n \in 1..Len(s) /\ u[n] = s[n]
                           /\ n > Len(s) => n - Len(s) \in 1..Len(t) /\ u[n] = t[n - Len(s)]
  BY <1>1
<1> HIDE DEF u
<1>3. ASSUME NEW m \in 1..Len(u), NEW n \in 1..Len(u), u[m].key = u[n].key PROVE m = n
  <2>1. CASE m <= Len(s) /\ n <= Len(s)
    BY <1>2, <1>3, <2>1 DEF Distinct
  <2>2. CASE m > Len(s) /\ n > Len(s)
    <3> DEFINE a == m - Len(s)
               b == n - Len(s)
    <3>1. a \in 1..Len(t) /\ b \in 1..Len(t) /\ t[a].key = t[b].key
      BY <1>2, <1>3, <2>2
    <3>2. a = b
      <4> HIDE DEF a, b
      <4> QED
        BY <3>1 DEF Distinct
    <3> QED
      BY <1>1, <3>2
  <2>3. CASE m <= Len(s) /\ n > Len(s)
    BY <1>2, <1>3, <2>3
  <2>4. CASE m > Len(s) /\ n <= Len(s)
    BY <1>2, <1>3, <2>4
  <2> QED
    BY <1>1, <2>1, <2>2, <2>3, <2>4
<1>4. ASSUME NEW n \in 1..Len(u)
      PROVE  (\E i \in 1..Len(s) : u[n] = s[i]) \/ (\E i \in 1..Len(t) : u[n] = t[i])
  <2>1. n <= Len(s) \/ n > Len(s)
    BY <1>1
  <2> QED
    BY <1>2, <2>1
<1> QED
  BY <1>1, <1>3, <1>4 DEF Distinct, u

LEMMA SuffixFacts ==
    ASSUME NEW s \in Seq(Entry), Distinct(s), NEW k \in Nat, k <= Len(s)
    PROVE  LET t == SubSeq(s, Len(s) - k + 1, Len(s))
           IN  t \in Seq(Entry) /\ Len(t) = k /\ Distinct(t) /\ Within(t, s)
<1> DEFINE t == SubSeq(s, Len(s) - k + 1, Len(s))
<1>1. Len(s) \in Nat /\ Len(t) = k /\ t \in Seq(Entry)
  OBVIOUS
<1>2. \A n \in 1..k : t[n] = s[Len(s) - k + n] /\ Len(s) - k + n \in 1..Len(s)
  BY <1>1
<1> HIDE DEF t
<1>3. Within(t, s)
  BY <1>1, <1>2 DEF Within
<1>4. ASSUME NEW m \in 1..k, NEW n \in 1..k, t[m].key = t[n].key PROVE m = n
  <2> DEFINE a == Len(s) - k + m
             b == Len(s) - k + n
  <2>1. a \in 1..Len(s) /\ b \in 1..Len(s) /\ s[a].key = s[b].key
    BY <1>2, <1>4
  <2>2. a = b
    <3> HIDE DEF a, b
    <3> QED
      BY <2>1 DEF Distinct
  <2> QED
    BY <1>1, <2>2
<1> QED
  BY <1>1, <1>3, <1>4 DEF Distinct, t

Keys == Quotes \X (0..MaxEtags)

\* What a look-up finds is an entry of the cache.
LEMMA EntryOfFacts ==
    ASSUME cache \in Seq(Entry), NEW k, Fresh(k)
    PROVE  \E n \in 1..Len(cache) : /\ EntryOf(k) = cache[n] /\ cache[n].key = k
                                    /\ now - EntryOf(k).at <= TTL
<1>1. DOMAIN cache = 1..Len(cache)
  OBVIOUS
<1>2. \E m \in DOMAIN cache : cache[m].key = k
  BY DEF Fresh, KeysOf
<1> DEFINE n == CHOOSE m \in DOMAIN cache : cache[m].key = k
<1>3. n \in DOMAIN cache /\ cache[n].key = k
  BY <1>2
<1>4. EntryOf(k) = cache[n]
  BY DEF EntryOf
<1>5. now - EntryOf(k).at <= TTL
  BY DEF Fresh
<1> HIDE DEF n
<1> QED
  BY <1>1, <1>3, <1>4, <1>5

\* get()s drop entries and reorder them; they add none and stretch none.
LEMMA AfterGetsFacts ==
    ASSUME cache \in Seq(Entry), Distinct(cache),
           NEW ks \in Seq(Keys), \A m, n \in 1..Len(ks) : ks[m] = ks[n] => m = n
    PROVE  /\ AfterGets(ks) \in Seq(Entry) /\ Distinct(AfterGets(ks))
           /\ Within(AfterGets(ks), cache) /\ Len(AfterGets(ks)) <= Len(cache)
<1> DEFINE I == {n \in 1..Len(ks) : Fresh(ks[n])}
           kept == Picked(ks, I)
           K == {ks[n] : n \in 1..Len(ks)}
           w == Without(cache, K)
           t == [n \in 1..Len(kept) |-> EntryOf(kept[n])]
<1>1. AfterGets(ks) = w \o t
  <2>1. DOMAIN ks = 1..Len(ks) /\ DOMAIN kept = 1..Len(kept)
    <3>1. kept \in Seq(Keys)
      BY PickedType
    <3> HIDE DEF kept
    <3> QED
      BY <3>1
  <2> QED
    BY <2>1, Zenon DEF AfterGets, Touched
<1>2. w \in Seq(Entry) /\ Within(w, cache) /\ Distinct(w) /\ \A n \in 1..Len(w) : w[n].key \notin K
  <2> HIDE DEF K
  <2> QED
    BY WithoutFacts
<1>3. I \in SUBSET (1..Len(ks)) /\ \A i \in I : Fresh(ks[i])
  OBVIOUS
<1> HIDE DEF I
<1>4. kept \in Seq(Keys)
  BY <1>3, PickedType
<1>5. /\ \A n \in 1..Len(kept) : \E i \in I : kept[n] = ks[i]
      /\ \A m, n \in 1..Len(kept) : m < n =>
            \E i, j \in I : i < j /\ kept[m] = ks[i] /\ kept[n] = ks[j]
  BY <1>3, PickedElements
<1> HIDE DEF kept
<1>6. ASSUME NEW n \in 1..Len(kept)
      PROVE  /\ t[n].key = kept[n] /\ kept[n] \in K
             /\ \E i \in 1..Len(cache) : t[n] = cache[i]
  <2>1. PICK i \in I : kept[n] = ks[i]
    BY <1>5
  <2>2. Fresh(kept[n]) /\ kept[n] \in K
    BY <1>3, <2>1
  <2>3. PICK m \in 1..Len(cache) : EntryOf(kept[n]) = cache[m] /\ cache[m].key = kept[n]
    BY <2>2, EntryOfFacts
  <2>4. t[n] = EntryOf(kept[n])
    OBVIOUS
  <2> HIDE DEF t, K
  <2> QED
    BY <2>2, <2>3, <2>4
<1>7. t \in Seq(Entry) /\ Len(t) = Len(kept)
  <2>1. \A n \in 1..Len(kept) : EntryOf(kept[n]) \in Entry
    BY <1>6
  <2> QED
    BY <1>4, <2>1
<1> HIDE DEF t, K, w
<1>8. Distinct(t)
  <2>1. ASSUME NEW m \in 1..Len(kept), NEW n \in 1..Len(kept), m < n PROVE kept[m] # kept[n]
    <3>1. PICK i \in I, j \in I : i < j /\ kept[m] = ks[i] /\ kept[n] = ks[j]
      BY <1>5, <2>1
    <3> QED
      BY <1>3, <3>1
  <2> SUFFICES ASSUME NEW m \in 1..Len(kept), NEW n \in 1..Len(kept), m # n
               PROVE  t[m].key # t[n].key
    BY <1>7 DEF Distinct
  <2>2. m < n \/ n < m
    BY <1>4
  <2>3. t[m].key = kept[m] /\ t[n].key = kept[n]
    BY <1>6
  <2> QED
    BY <2>1, <2>2, <2>3
<1>9. \A m \in 1..Len(w), n \in 1..Len(t) : w[m].key # t[n].key
  BY <1>2, <1>6, <1>7
<1> DEFINE u == w \o t
<1>10. /\ u \in Seq(Entry) /\ Distinct(u)
       /\ \A n \in 1..Len(u) : \/ \E i \in 1..Len(w) : u[n] = w[i]
                              \/ \E i \in 1..Len(t) : u[n] = t[i]
  BY <1>2, <1>7, <1>8, <1>9, ConcatFacts
<1> HIDE DEF u
<1>11. Within(u, cache)
  <2> SUFFICES ASSUME NEW n \in 1..Len(u) PROVE \E i \in 1..Len(cache) : u[n] = cache[i]
    BY DEF Within
  <2>1. CASE \E i \in 1..Len(w) : u[n] = w[i]
    BY <1>2, <2>1 DEF Within
  <2>2. CASE \E i \in 1..Len(t) : u[n] = t[i]
    BY <1>6, <1>7, <2>2
  <2> QED
    BY <1>10, <2>1, <2>2
<1>12. \A m, n \in 1..Len(u) : u[m] = u[n] => m = n
  BY <1>10 DEF Distinct
<1>13. Len(u) <= Len(cache)
  BY <1>10, <1>11, <1>12, NoLonger DEF Within
<1> QED
  BY <1>1, <1>10, <1>11, <1>13 DEF u

\* put()s leave what was cached or is new, within the limit.
LEMMA AfterPutsFacts ==
    ASSUME cache \in Seq(Entry), Distinct(cache), NEW new \in Seq(Entry), Distinct(new)
    PROVE  /\ AfterPuts(new) \in Seq(Entry) /\ Distinct(AfterPuts(new))
           /\ Len(AfterPuts(new)) <= MaxEntries
           /\ \A n \in 1..Len(AfterPuts(new)) :
                 \/ \E i \in 1..Len(cache) : AfterPuts(new)[n] = cache[i]
                 \/ \E i \in 1..Len(new) : AfterPuts(new)[n] = new[i]
<1> DEFINE w == Without(cache, KeysOf(new))
           u == w \o new
           t == SubSeq(u, Len(u) - MaxEntries + 1, Len(u))
<1>1. AfterPuts(new) = IF Len(u) <= MaxEntries THEN u ELSE t
  BY DEF AfterPuts, Trimmed
<1>2. w \in Seq(Entry) /\ Within(w, cache) /\ Distinct(w)
      /\ \A n \in 1..Len(w) : w[n].key \notin KeysOf(new)
  BY WithoutFacts
<1> HIDE DEF w
<1>3. \A m \in 1..Len(w), n \in 1..Len(new) : w[m].key # new[n].key
  BY <1>2, DOMAIN new = 1..Len(new) DEF KeysOf
<1>4. /\ u \in Seq(Entry) /\ Distinct(u)
      /\ \A n \in 1..Len(u) : \/ \E i \in 1..Len(w) : u[n] = w[i]
                             \/ \E i \in 1..Len(new) : u[n] = new[i]
  BY <1>2, <1>3, ConcatFacts
<1> HIDE DEF u
<1>5. \A n \in 1..Len(u) : \/ \E i \in 1..Len(cache) : u[n] = cache[i]
                          \/ \E i \in 1..Len(new) : u[n] = new[i]
  BY <1>2, <1>4 DEF Within
<1>6. CASE Len(u) <= MaxEntries
  BY <1>1, <1>4, <1>5, <1>6
<1>7. CASE ~(Len(u) <= MaxEntries)
  <2>1. MaxEntries \in Nat /\ Len(u) \in Nat /\ MaxEntries <= Len(u)
    BY <1>4, <1>7, QuoteAssumption
  <2>2. t \in Seq(Entry) /\ Len(t) = MaxEntries /\ Distinct(t) /\ Within(t, u)
    BY <1>4, <2>1, SuffixFacts
  <2>3. AfterPuts(new) = t
    BY <1>1, <1>7
  <2> HIDE DEF t
  <2>4. \A n \in 1..Len(t) : \/ \E i \in 1..Len(cache) : t[n] = cache[i]
                            \/ \E i \in 1..Len(new) : t[n] = new[i]
    BY <1>5, <2>2 DEF Within
  <2>5. Len(t) <= MaxEntries
    BY <2>1, <2>2
  <2> QED
    BY <2>2, <2>3, <2>4, <2>5, Zenon
<1> QED
  BY <1>6, <1>7

-----------------------------------------------------------------------------
(* The steps of a call.                                                    *)

LEMMA AnswerType ==
    ASSUME NEW S \in SUBSET Quotes, NEW f \in [S -> Values]
    PROVE  f \in Answers
BY DEF Answers

LEMMA AnswerFacts ==
    ASSUME NEW f \in Answers
    PROVE  DOMAIN f \subseteq Quotes /\ \A q \in DOMAIN f : f[q] \in Values
<1>1. PICK S \in SUBSET Quotes : f \in [S -> Values]
  BY DEF Answers
<1> QED
  BY <1>1

LEMMA HitsType ==
    ASSUME NEW S \in SUBSET Quotes, NEW f \in [S -> Quote]
    PROVE  f \in Hits
BY DEF Hits

LEMMA HitsFacts ==
    ASSUME NEW f \in Hits
    PROVE  DOMAIN f \subseteq Quotes /\ \A q \in DOMAIN f : f[q] \in Quote
<1>1. PICK S \in SUBSET Quotes : f \in [S -> Quote]
  BY DEF Hits
<1> QED
  BY <1>1

LEMMA QuoteFacts ==
    ASSUME NEW h \in Quote
    PROVE  h.value \in Values /\ h.value \in Nat /\ h.took \in 0..MaxClock /\ h.took \in Nat
BY QuoteAssumption DEF Quote, Values

\* Call c becomes k and the cache changes; the service and the clock do not.
LEMMA CallStep ==
    ASSUME IInv, UNCHANGED <<now, service>>, NEW c \in Calls, NEW k \in Call, CallOK(k),
           calls' = [calls EXCEPT ![c] = k],
           cache' \in Seq(Entry), Distinct(cache'), Len(cache') <= MaxEntries,
           \A n \in 1..Len(cache') : EntryOK(cache'[n])
    PROVE  IInv'
<1>1. UNCHANGED <<now, changes, snaps>>
  BY DEF service
<1>2. calls' \in [Calls -> Call] /\ \A d \in Calls : calls'[d] = k \/ calls'[d] = calls[d]
  BY DEF IInv, TypeOK
<1>3. TypeOK'
  BY <1>1, <1>2 DEF IInv, TypeOK
<1>4. \A d \in Calls : CallOK(calls'[d])
  BY <1>2 DEF IInv
<1>5. (\A d \in Calls : CallOK(calls[d]))'
  BY <1>1, <1>4 DEF CallOK, Genuine, ValidAt
<1>6. (\A n \in 1..Len(cache) : EntryOK(cache[n]))'
  BY <1>1 DEF EntryOK, Genuine, ValidAt
<1>7. CacheBounded'
  BY DOMAIN cache' = 1..Len(cache') DEF CacheBounded, Distinct
<1>8. (Len(snaps) <= MaxEtags /\ \A q \in Quotes : Len(changes[q]) <= MaxChanges)'
  BY <1>1 DEF IInv
<1> QED
  BY <1>3, <1>5, <1>6, <1>7, <1>8 DEF IInv

\* The cache as it is will do.
LEMMA CacheFacts ==
    ASSUME IInv
    PROVE  /\ cache \in Seq(Entry) /\ Distinct(cache) /\ Len(cache) <= MaxEntries
           /\ \A n \in 1..Len(cache) : EntryOK(cache[n])
BY DOMAIN cache = 1..Len(cache) DEF IInv, TypeOK, CacheBounded, Distinct

LEMMA CallStepAlone ==
    ASSUME IInv, UNCHANGED <<now, service, cache>>, NEW c \in Calls, NEW k \in Call, CallOK(k),
           calls' = [calls EXCEPT ![c] = k]
    PROVE  IInv'
<1>1. /\ cache' \in Seq(Entry) /\ Distinct(cache') /\ Len(cache') <= MaxEntries
      /\ \A n \in 1..Len(cache') : EntryOK(cache'[n])
  BY CacheFacts, cache' = cache
<1> QED
  BY <1>1, CallStep

LEMMA NoCallOK ==
    NoCall \in Call /\ (IInv => CallOK(NoCall))
<1>1. <<>> \in Answers /\ <<>> \in Hits /\ DOMAIN <<>> = {}
  <2>1. <<>> \in [{} -> Values] /\ <<>> \in [{} -> Quote]
    OBVIOUS
  <2> QED
    BY <2>1, AnswerType, HitsType
<1>2. NoCall \in Call
  BY <1>1, QuoteAssumption DEF NoCall, Call, Latest
<1>3. ASSUME IInv PROVE CallOK(NoCall)
  BY <1>1, <1>3, QuoteAssumption DEF NoCall, CallOK, Latest, IInv, TypeOK, Members
<1> QED
  BY <1>2, <1>3

LEMMA RejectInv ==
    ASSUME IInv, NEW c \in Calls, Raise(c), UNCHANGED <<now, service, cache>>
    PROVE  IInv'
BY NoCallOK, CallStepAlone DEF Raise

\* What call c becomes when these of its fields change.
Becomes(c, st, n, at, b) ==
    [calls[c] EXCEPT !.stage = st, !.tries = n, !.sent = at, !.body = b]

LEMMA BecomesFacts ==
    ASSUME IInv, NEW c \in Calls, NEW st \in {"sent", "read", "backoff"}, NEW n \in 0..MaxRetries,
           NEW at \in 0..MaxClock, NEW b \in Answers
    PROVE  LET k == Becomes(c, st, n, at, b)
           IN  /\ k \in Call
               /\ k.stage = st /\ k.sent = at /\ k.body = b
               /\ k.ask = calls[c].ask /\ k.pin = calls[c].pin
               /\ k.hits = calls[c].hits /\ k.begun = calls[c].begun
BY DEF IInv, TypeOK, Becomes, Call

LEMMA ServeInv ==
    ASSUME IInv, NEW c \in Calls, Serve(c)
    PROVE  IInv'
<1> DEFINE b == [q \in Members(calls[c].ask) |-> Resolved(calls[c].pin)[q]]
           k == Becomes(c, "read", calls[c].tries, calls[c].sent, b)
<1>1. calls' = [calls EXCEPT ![c] = k]
  BY DEF Serve, Becomes, IInv, TypeOK, Call
<1>2. /\ \A i \in DOMAIN b : Genuine(i, calls[c].pin, b[i])
      /\ calls[c].pin = Latest => \A i \in DOMAIN b : ValidAt(i, b[i], calls[c].sent)
      /\ b \in Answers /\ DOMAIN b = Members(calls[c].ask)
  <2>1. /\ calls[c].pin \in 0..Len(snaps) /\ calls[c].ask \in Seq(Quotes)
        /\ Members(calls[c].ask) \subseteq Quotes
    BY DEF IInv, TypeOK, Call, CallOK, Members
  <2>2. ASSUME NEW i \in Members(calls[c].ask)
        PROVE  /\ b[i] \in Values /\ Genuine(i, calls[c].pin, b[i])
               /\ calls[c].pin = Latest => ValidAt(i, b[i], calls[c].sent)
    <3>1. CASE calls[c].pin = Latest
      <4>1. b[i] = Len(changes[i]) /\ Len(changes[i]) \in Values
        BY <2>1, <3>1 DEF Resolved, Live, IInv, TypeOK, Values
      <4> QED
        BY <3>1, <4>1 DEF Genuine, ValidAt, Values
    <3>2. CASE calls[c].pin # Latest
      <4>1. b[i] = snaps[calls[c].pin][i] \/ b[i] = 0
        BY <2>1, <3>2 DEF Resolved, NotFound
      <4>2. snaps[calls[c].pin] \in [Quotes -> Values] /\ 0 \in Values
        <5> DEFINE p == calls[c].pin
        <5>1. p \in 1..Len(snaps) /\ snaps \in Seq([Quotes -> Values]) /\ MaxChanges \in Nat
          BY <2>1, <3>2, QuoteAssumption DEF IInv, TypeOK, Latest
        <5> HIDE DEF p
        <5>2. snaps[p] \in [Quotes -> Values] /\ 0 \in Values
          BY <5>1 DEF Values
        <5> QED
          BY <5>2 DEF p
      <4> QED
        BY <2>1, <3>2, <4>1, <4>2 DEF Genuine, Latest
    <3> QED
      BY <3>1, <3>2
  <2>3. b \in [Members(calls[c].ask) -> Values]
    <3>1. \A i \in Members(calls[c].ask) : Resolved(calls[c].pin)[i] \in Values
      BY <2>2
    <3> QED
      BY <3>1
  <2>4. DOMAIN b = Members(calls[c].ask)
    OBVIOUS
  <2> HIDE DEF b
  <2> QED
    BY <2>1, <2>2, <2>3, <2>4, AnswerType
<1> HIDE DEF b
<1>3. /\ k \in Call /\ k.stage = "read" /\ k.sent = calls[c].sent /\ k.body = b
      /\ k.ask = calls[c].ask /\ k.pin = calls[c].pin
      /\ k.hits = calls[c].hits /\ k.begun = calls[c].begun
  <2>1. calls[c].tries \in 0..MaxRetries /\ calls[c].sent \in 0..MaxClock
    BY DEF IInv, TypeOK, Call
  <2> QED
    BY <1>2, <2>1, BecomesFacts
<1> HIDE DEF k
<1>4. CallOK(k)
  <2>1. CallOK(calls[c]) /\ calls[c].stage = "sent"
    BY DEF IInv, Serve
  <2> QED
    BY <1>2, <1>3, <2>1 DEF CallOK
<1> QED
  BY <1>1, <1>3, <1>4, CallStepAlone DEF Serve

\* After a failure: back off, with the attempt counted.
LEMMA BackOffInv ==
    ASSUME IInv, NEW c \in Calls, calls[c].tries < MaxRetries, BackOff(c, calls[c].tries + 1),
           UNCHANGED <<now, service, cache>>
    PROVE  IInv'
<1> DEFINE k == Becomes(c, "backoff", calls[c].tries + 1, 0, <<>>)
<1>1. calls' = [calls EXCEPT ![c] = k]
  BY DEF BackOff, Becomes, IInv, TypeOK, Call
<1>2. /\ k \in Call /\ k.stage = "backoff" /\ k.sent = 0
      /\ k.ask = calls[c].ask /\ k.pin = calls[c].pin
      /\ k.hits = calls[c].hits /\ k.begun = calls[c].begun
  <2>1. calls[c].tries + 1 \in 0..MaxRetries /\ 0 \in 0..MaxClock
    BY QuoteAssumption DEF IInv, TypeOK, Call
  <2>2. <<>> \in Answers
    BY NoCallOK DEF NoCall, Call
  <2> QED
    BY <2>1, <2>2, BecomesFacts
<1> HIDE DEF k
<1>3. CallOK(k)
  <2>1. CallOK(calls[c]) /\ now \in Nat
    BY DEF IInv, TypeOK
  <2> QED
    BY <1>2, <2>1 DEF CallOK
<1> QED
  BY <1>1, <1>2, <1>3, CallStepAlone

LEMMA FailInv ==
    ASSUME IInv, NEW c \in Calls, Fail(c)
    PROVE  IInv'
<1>1. CASE Raise(c)
  BY <1>1, RejectInv DEF Fail
<1>2. CASE calls[c].tries < MaxRetries /\ BackOff(c, calls[c].tries + 1)
  BY <1>2, BackOffInv DEF Fail
<1> QED
  BY <1>1, <1>2 DEF Fail

LEMMA ResendInv ==
    ASSUME IInv, NEW c \in Calls, Resend(c)
    PROVE  IInv'
<1> DEFINE k == Becomes(c, "sent", calls[c].tries, now, calls[c].body)
<1>1. calls' = [calls EXCEPT ![c] = k]
  BY DEF Resend, Becomes, IInv, TypeOK, Call
<1>2. /\ k \in Call /\ k.stage = "sent" /\ k.sent = now
      /\ k.ask = calls[c].ask /\ k.pin = calls[c].pin
      /\ k.hits = calls[c].hits /\ k.begun = calls[c].begun
  <2>1. calls[c].tries \in 0..MaxRetries /\ now \in 0..MaxClock /\ calls[c].body \in Answers
    BY DEF IInv, TypeOK, Call
  <2> QED
    BY <2>1, BecomesFacts
<1> HIDE DEF k
<1>3. CallOK(k)
  <2>1. CallOK(calls[c]) /\ now \in Nat
    BY QuoteAssumption DEF IInv, TypeOK
  <2> QED
    BY <1>2, <2>1 DEF CallOK
<1> QED
  BY <1>1, <1>2, <1>3, CallStepAlone DEF Resend

\* A call that is done, with its quotes.
Answered(pin, hits, at) == [NoCall EXCEPT !.pin = pin, !.hits = hits, !.begun = at]

LEMMA AnsweredFacts ==
    ASSUME NEW pin \in 0..MaxEtags, NEW hits \in Hits, NEW at \in 0..MaxClock
    PROVE  LET k == Answered(pin, hits, at)
           IN  /\ k \in Call /\ k.stage = "idle" /\ k.ask = <<>> /\ k.sent = 0
               /\ k.pin = pin /\ k.hits = hits /\ k.begun = at
BY NoCallOK DEF Answered, NoCall, Call

\* What was valid at s was valid before.
LEMMA ValidBefore ==
    ASSUME IInv, NEW q \in Quotes, NEW v \in Nat, NEW s \in Int, NEW t \in Int, t <= s,
           ValidAt(q, v, s)
    PROVE  ValidAt(q, v, t)
<1> SUFFICES ASSUME v < Len(changes[q]) PROVE changes[q][v + 1] >= t
  BY DEF ValidAt
<1> DEFINE h == changes[q]
           n == v + 1
<1>1. h \in Seq(0..MaxClock) /\ n \in 1..Len(h) /\ MaxClock \in Nat
  BY QuoteAssumption DEF IInv, TypeOK
<1>2. h[n] >= s
  BY DEF ValidAt
<1> HIDE DEF h, n
<1>3. h[n] \in 0..MaxClock
  BY <1>1
<1> QED
  BY <1>1, <1>2, <1>3 DEF h, n

\* A response is cached whole, each item at the time it arrives.
LEMMA ReceiveInv ==
    ASSUME IInv, NEW c \in Calls, Receive(c)
    PROVE  IInv'
<1> DEFINE k == calls[c]
           got(q) == [value |-> k.body[q], took |-> now - k.sent]
           items == [n \in 1..Len(k.ask) |->
                       [key |-> <<k.ask[n], k.pin>>, quote |-> got(k.ask[n]), at |-> now]]
           all == [q \in DOMAIN k.hits \cup DOMAIN k.body |->
                       IF q \in DOMAIN k.body THEN got(q) ELSE k.hits[q]]
           done == Answered(k.pin, all, k.begun)
<1>1. /\ k \in Call /\ CallOK(k) /\ k.stage = "read"
      /\ k.ask \in Seq(Quotes) /\ k.pin \in 0..MaxEtags /\ k.sent \in 0..MaxClock
      /\ k.begun \in 0..MaxClock /\ now \in 0..MaxClock /\ MaxClock \in Nat
      /\ k.body \in Answers /\ k.hits \in Hits /\ DOMAIN k.body = Members(k.ask)
      /\ TTL \in Nat
  BY QuoteAssumption DEF IInv, TypeOK, Receive, Call, CallOK
<1>2. cache' = AfterPuts(items) /\ calls' = [calls EXCEPT ![c] = done]
  BY <1>1, DOMAIN k.ask = 1..Len(k.ask) DEF Receive, QuoteKey, Answered
<1>3. UNCHANGED <<now, service>>
  BY DEF Receive
<1>4. \A n \in 1..Len(k.ask) : k.ask[n] \in DOMAIN k.body /\ k.ask[n] \in Quotes
  BY <1>1, DOMAIN k.ask = 1..Len(k.ask) DEF Members
<1>5. \A q \in DOMAIN k.body :
        /\ k.body[q] \in Values /\ Genuine(q, k.pin, k.body[q])
        /\ k.pin = Latest => ValidAt(q, k.body[q], k.sent)
  BY <1>1, AnswerFacts DEF CallOK
<1>6. \A q \in DOMAIN k.hits :
        /\ k.hits[q] \in Quote /\ Genuine(q, k.pin, k.hits[q].value)
        /\ k.pin = Latest => ValidAt(q, k.hits[q].value, k.begun - (TTL + k.hits[q].took))
  BY <1>1, HitsFacts DEF CallOK
<1>7. k.begun <= k.sent /\ k.sent <= now /\ k.pin <= Len(snaps) /\ k.begun <= now
  BY <1>1 DEF CallOK
<1>16. \A q \in DOMAIN k.body :
         got(q) \in Quote /\ got(q).value = k.body[q] /\ got(q).took = now - k.sent
  <2>1. now - k.sent \in 0..MaxClock
    BY <1>1, <1>7
  <2> QED
    BY <1>5, <2>1 DEF Quote
<1>8. \A m, n \in 1..Len(k.ask) : k.ask[m] = k.ask[n] => m = n
  BY <1>1 DEF CallOK
<1> HIDE DEF k, got
<1>9. items \in Seq(Entry) /\ Len(items) = Len(k.ask) /\ Distinct(items)
  <2>1. \A n \in 1..Len(k.ask) :
          [key |-> <<k.ask[n], k.pin>>, quote |-> got(k.ask[n]), at |-> now] \in Entry
    BY <1>1, <1>4, <1>16 DEF Entry
  <2>2. items \in Seq(Entry) /\ Len(items) = Len(k.ask)
    BY <1>1, <2>1
  <2>3. \A n \in 1..Len(k.ask) : items[n].key = <<k.ask[n], k.pin>>
    OBVIOUS
  <2> HIDE DEF items
  <2> QED
    BY <1>8, <2>2, <2>3 DEF Distinct
<1>10. \A n \in 1..Len(items) : EntryOK(items[n])
  <2> SUFFICES ASSUME NEW n \in 1..Len(k.ask) PROVE EntryOK(items[n])
    BY <1>9
  <2> DEFINE q == k.ask[n]
  <2>1. /\ items[n].key[1] = q /\ items[n].key[2] = k.pin
        /\ items[n].quote = got(q) /\ items[n].at = now
    OBVIOUS
  <2>2. q \in DOMAIN k.body /\ q \in Quotes
    BY <1>4
  <2> HIDE DEF q, items
  <2>3. Genuine(q, k.pin, k.body[q])
    BY <1>5, <2>2
  <2>4. ASSUME k.pin = Latest PROVE ValidAt(q, k.body[q], now - (now - k.sent))
    <3>1. ValidAt(q, k.body[q], k.sent)
      BY <1>5, <2>2, <2>4
    <3>2. now - (now - k.sent) = k.sent
      BY <1>1
    <3> QED
      BY <3>1, <3>2
  <2>5. got(q).value = k.body[q] /\ got(q).took = now - k.sent
    BY <1>16, <2>2
  <2>6. /\ Genuine(q, k.pin, got(q).value)
        /\ k.pin = Latest => ValidAt(q, got(q).value, now - got(q).took)
    BY <2>3, <2>4, <2>5
  <2>7. now <= now
    BY <1>1
  <2> QED
    BY <1>7, <2>1, <2>6, <2>7 DEF EntryOK
<1> HIDE DEF items
<1>11. /\ cache' \in Seq(Entry) /\ Distinct(cache') /\ Len(cache') <= MaxEntries
       /\ \A n \in 1..Len(cache') : EntryOK(cache'[n])
  <2>1. /\ cache \in Seq(Entry) /\ Distinct(cache)
        /\ \A n \in 1..Len(cache) : EntryOK(cache[n])
    BY CacheFacts
  <2> QED
    BY <1>2, <1>9, <1>10, <2>1, AfterPutsFacts
<1>12. all \in Hits
  <2>1. DOMAIN k.hits \cup DOMAIN k.body \in SUBSET Quotes
    BY <1>1, AnswerFacts, HitsFacts
  <2>2. all \in [DOMAIN k.hits \cup DOMAIN k.body -> Quote]
    BY <1>6, <1>16
  <2> HIDE DEF all
  <2> QED
    BY <2>1, <2>2, HitsType
<1>13. \A q \in DOMAIN all :
         /\ Genuine(q, k.pin, all[q].value)
         /\ k.pin = Latest => ValidAt(q, all[q].value, k.begun - (TTL + all[q].took))
  <2> SUFFICES ASSUME NEW q \in DOMAIN k.hits \cup DOMAIN k.body
               PROVE  /\ Genuine(q, k.pin, all[q].value)
                      /\ k.pin = Latest =>
                            ValidAt(q, all[q].value, k.begun - (TTL + all[q].took))
    OBVIOUS
  <2>1. CASE q \notin DOMAIN k.body
    BY <1>6, <2>1
  <2>2. CASE q \in DOMAIN k.body
    <3> DEFINE took == now - k.sent
    <3>1. all[q] = got(q) /\ q \in Quotes
      BY <1>1, <2>2, AnswerFacts
    <3> HIDE DEF all
    <3>2. all[q].value = k.body[q] /\ all[q].took = took
      BY <1>16, <2>2, <3>1
    <3>3. ASSUME k.pin = Latest PROVE ValidAt(q, k.body[q], k.begun - (TTL + took))
      <4>1. ValidAt(q, k.body[q], k.sent) /\ k.body[q] \in Nat
        BY <1>5, <2>2, <3>3 DEF Values
      <4>2. /\ k.begun - (TTL + took) \in Int /\ k.begun - (TTL + took) <= k.sent
            /\ k.sent \in Nat
        BY <1>1, <1>7
      <4> QED
        BY <3>1, <4>1, <4>2, ValidBefore
    <3> HIDE DEF took
    <3> QED
      BY <1>5, <2>2, <3>2, <3>3
  <2> QED
    BY <2>1, <2>2
<1> HIDE DEF all
<1>14. /\ done \in Call /\ done.stage = "idle" /\ done.ask = <<>> /\ done.sent = 0
       /\ done.pin = k.pin /\ done.hits = all /\ done.begun = k.begun
  BY <1>1, <1>12, AnsweredFacts
<1> HIDE DEF done
<1>15. CallOK(done)
  <2>1. now \in Nat /\ 1..Len(done.ask) = {}
    BY <1>1, <1>14
  <2>2. done.pin <= Len(snaps) /\ done.begun <= now /\ done.sent <= now
    BY <1>7, <1>14, <2>1
  <2>3. \A m, n \in 1..Len(done.ask) : done.ask[m] = done.ask[n] => m = n
    BY <2>1
  <2>4. \A q \in DOMAIN done.hits :
          /\ Genuine(q, done.pin, done.hits[q].value)
          /\ done.pin = Latest =>
                ValidAt(q, done.hits[q].value, done.begun - (TTL + done.hits[q].took))
    <3>1. done.hits = all /\ done.pin = k.pin /\ done.begun = k.begun
      BY <1>14
    <3> QED
      BY <1>13, <3>1, Zenon
  <2> QED
    BY <1>14, <2>2, <2>3, <2>4 DEF CallOK
<1> QED
  BY <1>2, <1>3, <1>11, <1>14, <1>15, CallStep

\* A call with its look-ups behind it.
Asking(st, ask, pin, hits, sent) ==
    [NoCall EXCEPT !.stage = st, !.ask = ask, !.pin = pin, !.hits = hits, !.sent = sent,
                   !.begun = now]

LEMMA AskingFacts ==
    ASSUME now \in 0..MaxClock, NEW st \in {"idle", "sent"}, NEW ask \in Seq(Quotes),
           NEW pin \in 0..MaxEtags, NEW hits \in Hits, NEW sent \in 0..MaxClock
    PROVE  LET k == Asking(st, ask, pin, hits, sent)
           IN  /\ k \in Call /\ k.stage = st /\ k.ask = ask /\ k.sent = sent
               /\ k.pin = pin /\ k.hits = hits /\ k.begun = now
BY NoCallOK DEF Asking, NoCall, Call

\* The ids a call misses, and what it has of the others.
LEMMA ResolveInv ==
    ASSUME IInv, NEW c \in Calls, Resolve(c)
    PROVE  IInv'
<1>1. PICK q \in Asks, p \in 0..Len(snaps) :
        LET missed == Picked(q, {n \in DOMAIN q : ~Fresh(QuoteKey(q[n], p))})
            had == [i \in Members(q) \ Members(missed) |-> EntryOf(QuoteKey(i, p)).quote]
        IN  /\ cache' = AfterGets([n \in DOMAIN q |-> QuoteKey(q[n], p)])
            /\ calls' = [calls EXCEPT ![c] =
                  [NoCall EXCEPT !.stage = IF missed = <<>> THEN "idle" ELSE "sent",
                                 !.ask = missed, !.pin = p, !.hits = had,
                                 !.sent = IF missed = <<>> THEN 0 ELSE now, !.begun = now]]
  BY DEF Resolve
<1>2. UNCHANGED <<now, service>>
  BY DEF Resolve
<1>3. /\ q \in Seq(Quotes) /\ \A m, n \in 1..Len(q) : q[m] = q[n] => m = n
      /\ p \in 0..MaxEtags /\ now \in 0..MaxClock /\ 0 \in 0..MaxClock /\ DOMAIN q = 1..Len(q)
      /\ TTL \in Nat
  <2>1. q \in Seq(Quotes) /\ DOMAIN q = 1..Len(q)
    BY QuoteAssumption
  <2>2. \A m, n \in 1..Len(q) : q[m] = q[n] => m = n
    BY <2>1, QuoteAssumption
  <2>3. p \in 0..MaxEtags
    BY QuoteAssumption DEF IInv, TypeOK
  <2>4. now \in 0..MaxClock /\ 0 \in 0..MaxClock
    BY QuoteAssumption DEF IInv, TypeOK
  <2>5. TTL \in Nat
    BY QuoteAssumption
  <2> QED
    BY <2>1, <2>2, <2>3, <2>4, <2>5
<1> DEFINE I == {n \in 1..Len(q) : ~Fresh(<<q[n], p>>)}
           missed == Picked(q, I)
           had == [i \in Members(q) \ Members(missed) |-> EntryOf(<<i, p>>).quote]
           ks == [n \in 1..Len(q) |-> <<q[n], p>>]
           st == IF missed = <<>> THEN "idle" ELSE "sent"
           sent == IF missed = <<>> THEN 0 ELSE now
           k == Asking(st, missed, p, had, sent)
<1>4. cache' = AfterGets(ks) /\ calls' = [calls EXCEPT ![c] = k]
  BY <1>1, <1>3 DEF QuoteKey, Asking
<1>5. /\ cache \in Seq(Entry) /\ Distinct(cache) /\ Len(cache) <= MaxEntries
      /\ \A n \in 1..Len(cache) : EntryOK(cache[n])
  BY CacheFacts
<1>6. ks \in Seq(Keys) /\ \A m, n \in 1..Len(ks) : ks[m] = ks[n] => m = n
  <2>1. \A n \in 1..Len(q) : <<q[n], p>> \in Keys
    BY <1>3 DEF Keys
  <2>2. ks \in Seq(Keys) /\ Len(ks) = Len(q)
    BY <1>3, <2>1
  <2> QED
    BY <1>3, <2>2
<1> HIDE DEF ks
<1>7. /\ cache' \in Seq(Entry) /\ Distinct(cache') /\ Len(cache') <= MaxEntries
      /\ \A n \in 1..Len(cache') : EntryOK(cache'[n])
  <2>1. /\ AfterGets(ks) \in Seq(Entry) /\ Distinct(AfterGets(ks))
        /\ Within(AfterGets(ks), cache) /\ Len(AfterGets(ks)) <= Len(cache)
    BY <1>5, <1>6, AfterGetsFacts
  <2>2. MaxEntries \in Nat /\ Len(cache) \in Nat /\ Len(cache') \in Nat
    BY <1>4, <1>5, <2>1, QuoteAssumption
  <2> QED
    BY <1>4, <1>5, <2>1, <2>2 DEF Within
<1>8. I \in SUBSET (1..Len(q)) /\ \A n \in (1..Len(q)) \ I : Fresh(<<q[n], p>>)
  OBVIOUS
<1> HIDE DEF I
<1>9. missed \in Seq(Quotes)
  BY <1>3, <1>8, PickedType
<1>10. /\ \A n \in I : q[n] \in Members(missed)
       /\ \A m, n \in 1..Len(missed) : missed[m] = missed[n] => m = n
  <2>1. /\ \A n \in I : \E m \in 1..Len(missed) : missed[m] = q[n]
        /\ \A m, n \in 1..Len(missed) : m < n =>
              \E i, j \in I : i < j /\ missed[m] = q[i] /\ missed[n] = q[j]
    BY <1>3, <1>8, PickedElements
  <2> HIDE DEF missed
  <2>2. DOMAIN missed = 1..Len(missed)
    BY <1>9
  <2>3. ASSUME NEW m \in 1..Len(missed), NEW n \in 1..Len(missed), m < n
        PROVE  missed[m] # missed[n]
    <3>1. PICK i \in I, j \in I : i < j /\ missed[m] = q[i] /\ missed[n] = q[j]
      BY <2>1, <2>3
    <3> QED
      BY <1>3, <1>8, <3>1
  <2>4. ASSUME NEW m \in 1..Len(missed), NEW n \in 1..Len(missed), missed[m] = missed[n]
        PROVE  m = n
    <3>1. m < n \/ n < m \/ m = n
      BY <1>9
    <3> QED
      BY <2>3, <2>4, <3>1
  <2> QED
    BY <2>1, <2>2, <2>4 DEF Members
<1> HIDE DEF missed
<1>11. ASSUME NEW i \in Members(q) \ Members(missed)
       PROVE  /\ i \in Quotes /\ had[i] \in Quote /\ Genuine(i, p, had[i].value)
              /\ p = Latest => ValidAt(i, had[i].value, now - (TTL + had[i].took))
  <2>1. PICK n \in 1..Len(q) : q[n] = i
    BY <1>3 DEF Members
  <2>2. Fresh(<<i, p>>) /\ i \in Quotes
    BY <1>3, <1>8, <1>10, <2>1
  <2>3. PICK m \in 1..Len(cache) : /\ EntryOf(<<i, p>>) = cache[m] /\ cache[m].key = <<i, p>>
                                  /\ now - EntryOf(<<i, p>>).at <= TTL
    BY <1>5, <2>2, EntryOfFacts
  <2> DEFINE e == cache[m]
  <2>4. e \in Entry /\ EntryOK(e) /\ e.key[1] = i /\ e.key[2] = p /\ now - e.at <= TTL
    BY <1>5, <2>3
  <2>5. had[i] = e.quote
    BY <2>3
  <2> HIDE DEF e, had
  <2>6. e.quote \in Quote /\ e.at \in Nat
    BY <2>4, QuoteAssumption DEF Entry
  <2> DEFINE h == e.quote
  <2>9. h.value \in Nat /\ h.took \in Nat
    BY <2>6, QuoteFacts
  <2>7. Genuine(i, p, h.value)
    BY <2>4 DEF EntryOK
  <2>8. ASSUME p = Latest PROVE ValidAt(i, h.value, now - (TTL + h.took))
    <3>1. ValidAt(i, h.value, e.at - h.took)
      BY <2>4, <2>8 DEF EntryOK
    <3>2. /\ now - (TTL + h.took) \in Int /\ e.at - h.took \in Int
          /\ now - (TTL + h.took) <= e.at - h.took
      <4> DEFINE took == h.took
                 at == e.at
      <4>1. now \in Int /\ took \in Nat /\ at \in Nat /\ TTL \in Nat /\ now - at <= TTL
        BY <1>3, <2>4, <2>6, <2>9
      <4> HIDE DEF took, at
      <4>2. /\ now - (TTL + took) \in Int /\ at - took \in Int
            /\ now - (TTL + took) <= at - took
        BY <4>1
      <4> QED
        BY <4>2 DEF took, at
    <3> QED
      BY <2>2, <2>9, <3>1, <3>2, ValidBefore
  <2> QED
    BY <2>2, <2>5, <2>6, <2>7, <2>8
<1>12. had \in Hits /\ DOMAIN had = Members(q) \ Members(missed)
  <2>1. Members(q) \ Members(missed) \in SUBSET Quotes
    BY <1>11
  <2>2. had \in [Members(q) \ Members(missed) -> Quote]
    BY <1>11
  <2> HIDE DEF had
  <2> QED
    BY <2>1, <2>2, HitsType
<1> HIDE DEF had
<1>13. /\ k \in Call /\ k.stage = st /\ k.ask = missed /\ k.sent = sent
       /\ k.pin = p /\ k.hits = had /\ k.begun = now
  BY <1>3, <1>9, <1>12, AskingFacts
<1> HIDE DEF k
<1>14. CallOK(k)
  <2>1. /\ k.pin <= Len(snaps) /\ k.begun <= now /\ k.sent <= now
        /\ k.stage \in {"sent", "read"} => k.begun <= k.sent
        /\ k.stage # "read"
    BY <1>3, <1>13
  <2>2. \A m, n \in 1..Len(k.ask) : k.ask[m] = k.ask[n] => m = n
    BY <1>10, <1>13
  <2>3. \A i \in DOMAIN k.hits :
          /\ Genuine(i, k.pin, k.hits[i].value)
          /\ k.pin = Latest => ValidAt(i, k.hits[i].value, k.begun - (TTL + k.hits[i].took))
    <3>1. k.hits = had /\ k.pin = p /\ k.begun = now
      BY <1>13
    <3> QED
      BY <1>11, <1>12, <3>1, Zenon
  <2> QED
    BY <2>1, <2>2, <2>3 DEF CallOK
<1> QED
  BY <1>2, <1>4, <1>7, <1>13, <1>14, CallStep

-----------------------------------------------------------------------------
(* The steps of the outside world.                                         *)

LEMMA ChangeInv ==
    ASSUME IInv, NEW q \in Quotes, Change(q)
    PROVE  IInv'
<1>1. /\ changes' = [changes EXCEPT ![q] = Append(@, now)] /\ Len(changes[q]) < MaxChanges
      /\ UNCHANGED <<now, snaps, cache, calls>>
  BY DEF Change
<1>2. /\ changes \in [Quotes -> Seq(0..MaxClock)] /\ now \in 0..MaxClock /\ MaxClock \in Nat
      /\ MaxChanges \in Nat /\ TTL \in Nat
      /\ \A i \in Quotes : Len(changes[i]) <= MaxChanges
  BY QuoteAssumption DEF IInv, TypeOK
<1>3. \A s \in Seq(0..MaxClock) :
        /\ Append(s, now) \in Seq(0..MaxClock) /\ Len(Append(s, now)) = Len(s) + 1
        /\ Len(s) \in Nat /\ Append(s, now)[Len(s) + 1] = now
        /\ \A n \in 1..Len(s) : Append(s, now)[n] = s[n]
  BY <1>2
<1>4. /\ changes' \in [Quotes -> Seq(0..MaxClock)]
      /\ \A i \in Quotes :
            /\ Len(changes[i]) \in Nat /\ Len(changes'[i]) \in Nat
            /\ Len(changes[i]) <= Len(changes'[i]) /\ Len(changes'[i]) <= MaxChanges
            /\ \A n \in 1..Len(changes'[i]) :
                  changes'[i][n] = IF n <= Len(changes[i]) THEN changes[i][n] ELSE now
  <2>1. changes' \in [Quotes -> Seq(0..MaxClock)]
    BY <1>1, <1>2, <1>3
  <2> SUFFICES ASSUME NEW i \in Quotes
               PROVE  /\ Len(changes[i]) \in Nat /\ Len(changes'[i]) \in Nat
                      /\ Len(changes[i]) <= Len(changes'[i]) /\ Len(changes'[i]) <= MaxChanges
                      /\ \A n \in 1..Len(changes'[i]) :
                            changes'[i][n] = IF n <= Len(changes[i]) THEN changes[i][n] ELSE now
    BY <2>1
  <2>2. CASE i # q
    BY <1>1, <1>2, <2>2
  <2>3. CASE i = q
    <3>1. changes'[i] = Append(changes[i], now) /\ changes[i] \in Seq(0..MaxClock)
      BY <1>1, <1>2, <2>3
    <3> QED
      BY <1>1, <1>2, <1>3, <2>3, <3>1
  <2> QED
    BY <2>2, <2>3
<1>5. ASSUME NEW i \in Quotes, NEW p, NEW v \in Nat, Genuine(i, p, v) PROVE Genuine(i, p, v)'
  BY <1>1, <1>4, <1>5 DEF Genuine
<1>6. ASSUME NEW i \in Quotes, NEW v \in Nat, NEW t \in Int, t <= now,
             Genuine(i, Latest, v), ValidAt(i, v, t)
      PROVE  ValidAt(i, v, t)'
  <2> SUFFICES ASSUME v < Len(changes'[i]) PROVE changes'[i][v + 1] >= t
    BY DEF ValidAt
  <2>1. v <= Len(changes[i]) /\ v + 1 \in 1..Len(changes'[i])
    BY <1>4, <1>6 DEF Genuine
  <2>2. changes'[i][v + 1] = IF v + 1 <= Len(changes[i]) THEN changes[i][v + 1] ELSE now
    BY <1>4, <2>1
  <2>3. CASE v + 1 <= Len(changes[i])
    BY <1>4, <1>6, <2>2, <2>3 DEF ValidAt
  <2>4. CASE ~(v + 1 <= Len(changes[i]))
    BY <1>2, <1>6, <2>2, <2>4
  <2> QED
    BY <2>3, <2>4
<1>7. ASSUME NEW e \in Entry, EntryOK(e) PROVE EntryOK(e)'
  <2>1. /\ e.key[1] \in Quotes /\ e.at \in Nat
        /\ e.quote.value \in Nat /\ e.quote.took \in Nat
    BY QuoteFacts, QuoteAssumption DEF Entry
  <2>2. Genuine(e.key[1], e.key[2], e.quote.value)'
    BY <1>5, <1>7, <2>1 DEF EntryOK
  <2>3. ASSUME e.key[2] = Latest PROVE ValidAt(e.key[1], e.quote.value, e.at - e.quote.took)'
    <3>1. e.at - e.quote.took \in Int /\ e.at - e.quote.took <= now
      BY <1>2, <1>7, <2>1 DEF EntryOK
    <3> QED
      BY <1>6, <1>7, <2>1, <2>3, <3>1 DEF EntryOK
  <2> QED
    BY <1>1, <1>7, <2>2, <2>3 DEF EntryOK
<1>8. ASSUME NEW k \in Call, CallOK(k) PROVE CallOK(k)'
  <2>1. /\ k.begun \in Nat /\ k.sent \in Nat /\ k.body \in Answers /\ k.hits \in Hits
        /\ k.begun <= now /\ k.sent <= now
    BY <1>8, QuoteAssumption DEF Call, CallOK
  <2>2. \A i \in DOMAIN k.hits :
          i \in Quotes /\ k.hits[i].value \in Nat /\ k.hits[i].took \in Nat
    BY <2>1, HitsFacts, QuoteFacts
  <2>3. \A i \in DOMAIN k.body : i \in Quotes /\ k.body[i] \in Nat
    BY <2>1, AnswerFacts, QuoteAssumption DEF Values
  <2>4. k.sent \in Int
    BY <2>1
  <2>5. ASSUME NEW i \in DOMAIN k.hits
        PROVE  /\ Genuine(i, k.pin, k.hits[i].value)'
               /\ k.pin = Latest => ValidAt(i, k.hits[i].value, k.begun - (TTL + k.hits[i].took))'
    <3> DEFINE h == k.hits[i]
               t == k.begun - (TTL + h.took)
    <3>1. Genuine(i, k.pin, h.value) /\ (k.pin = Latest => ValidAt(i, h.value, t))
      BY <1>8 DEF CallOK
    <3>2. i \in Quotes /\ h.value \in Nat /\ h.took \in Nat
      BY <2>2
    <3> HIDE DEF h
    <3>3. t \in Int /\ t <= now
      BY <1>2, <2>1, <3>2
    <3> HIDE DEF t
    <3>4. Genuine(i, k.pin, h.value)' /\ (k.pin = Latest => ValidAt(i, h.value, t)')
      BY <1>5, <1>6, <3>1, <3>2, <3>3
    <3> QED
      BY <3>4 DEF h, t
  <2>6. ASSUME k.stage = "read", NEW i \in DOMAIN k.body
        PROVE  /\ Genuine(i, k.pin, k.body[i])'
               /\ k.pin = Latest => ValidAt(i, k.body[i], k.sent)'
    <3>1. /\ Genuine(i, k.pin, k.body[i])
          /\ k.pin = Latest => ValidAt(i, k.body[i], k.sent)
      BY <1>8, <2>6 DEF CallOK
    <3> QED
      BY <1>5, <1>6, <2>1, <2>3, <2>4, <3>1
  <2> QED
    BY <1>1, <1>8, <2>5, <2>6 DEF CallOK
<1>9. (\A n \in 1..Len(cache) : EntryOK(cache[n]))'
  <2>1. \A n \in 1..Len(cache) : cache[n] \in Entry /\ EntryOK(cache[n])
    BY DEF IInv, TypeOK
  <2> QED
    BY <1>1, <1>7, <2>1
<1>10. (\A c \in Calls : CallOK(calls[c]))'
  <2>1. \A c \in Calls : calls[c] \in Call /\ CallOK(calls[c])
    BY DEF IInv, TypeOK
  <2> QED
    BY <1>1, <1>8, <2>1
<1>11. TypeOK' /\ CacheBounded'
  BY <1>1, <1>4 DEF IInv, TypeOK, CacheBounded
<1>12. (Len(snaps) <= MaxEtags /\ \A i \in Quotes : Len(changes[i]) <= MaxChanges)'
  BY <1>1, <1>4 DEF IInv
<1> QED
  BY <1>9, <1>10, <1>11, <1>12 DEF IInv

\* Neither the cache nor a call changes: their entries stay what they should be.
LEMMA WorldStep ==
    ASSUME IInv, UNCHANGED <<cache, calls>>,
           \A e \in Entry : EntryOK(e) => EntryOK(e)',
           \A c \in Calls : CallOK(calls[c]) => CallOK(calls[c])'
    PROVE  /\ CacheBounded' /\ (\A n \in 1..Len(cache) : EntryOK(cache[n]))'
           /\ (\A c \in Calls : CallOK(calls[c]))'
<1>1. (\A n \in 1..Len(cache) : EntryOK(cache[n]))'
  <2>1. \A n \in 1..Len(cache) : cache[n] \in Entry /\ EntryOK(cache[n])
    BY DEF IInv, TypeOK
  <2> QED
    BY <2>1
<1>2. CacheBounded'
  BY DEF IInv, CacheBounded
<1> QED
  BY <1>1, <1>2 DEF IInv

LEMMA RebuildInv ==
    ASSUME IInv, Rebuild
    PROVE  IInv'
<1>1. /\ snaps' = Append(snaps, Live) /\ Len(snaps) < MaxEtags
      /\ UNCHANGED <<now, changes, cache, calls>>
  BY DEF Rebuild
<1>2. Live \in [Quotes -> Values]
  BY QuoteAssumption DEF Live, IInv, TypeOK, Values
<1>3. /\ snaps \in Seq([Quotes -> Values]) /\ Len(snaps) \in Nat /\ MaxEtags \in Nat
  BY QuoteAssumption DEF IInv, TypeOK
<1>4. /\ snaps' \in Seq([Quotes -> Values]) /\ Len(snaps') = Len(snaps) + 1
      /\ \A n \in 1..Len(snaps) : snaps'[n] = snaps[n]
  <2> DEFINE l == Live
  <2>1. l \in [Quotes -> Values] /\ snaps' = Append(snaps, l)
    BY <1>1, <1>2
  <2> HIDE DEF l
  <2> QED
    BY <1>3, <2>1
<1>5. ASSUME NEW i, NEW p \in 0..Len(snaps), NEW v, Genuine(i, p, v) PROVE Genuine(i, p, v)'
  BY <1>1, <1>3, <1>4, <1>5 DEF Genuine, Latest
<1>6. ASSUME NEW e \in Entry, EntryOK(e) PROVE EntryOK(e)'
  <2>1. e.key[2] \in 0..Len(snaps) /\ Genuine(e.key[1], e.key[2], e.quote.value)
    BY <1>3, <1>6 DEF Entry, EntryOK
  <2>2. Genuine(e.key[1], e.key[2], e.quote.value)'
    BY <1>5, <2>1
  <2>3. e.key[2] <= Len(snaps')
    BY <1>3, <1>4, <2>1
  <2> QED
    BY <1>1, <1>6, <2>2, <2>3 DEF EntryOK, ValidAt
<1>7. ASSUME NEW k \in Call, CallOK(k) PROVE CallOK(k)'
  <2>1. k.pin \in 0..Len(snaps)
    BY <1>3, <1>7 DEF Call, CallOK
  <2>2. k.pin <= Len(snaps')
    BY <1>3, <1>4, <2>1
  <2>3. \A i : ValidAt(i, k.hits[i].value, k.begun - (TTL + k.hits[i].took)) =>
                ValidAt(i, k.hits[i].value, k.begun - (TTL + k.hits[i].took))'
    BY <1>1 DEF ValidAt
  <2>4. \A i : ValidAt(i, k.body[i], k.sent) => ValidAt(i, k.body[i], k.sent)'
    BY <1>1 DEF ValidAt
  <2>5. /\ \A i \in DOMAIN k.hits : Genuine(i, k.pin, k.hits[i].value)'
        /\ k.stage = "read" => \A i \in DOMAIN k.body : Genuine(i, k.pin, k.body[i])'
    BY <1>5, <1>7, <2>1 DEF CallOK
  <2> QED
    BY <1>1, <1>7, <2>2, <2>3, <2>4, <2>5 DEF CallOK
<1>8. /\ CacheBounded' /\ (\A n \in 1..Len(cache) : EntryOK(cache[n]))'
      /\ (\A c \in Calls : CallOK(calls[c]))'
  <2>1. ASSUME NEW c \in Calls, CallOK(calls[c]) PROVE CallOK(calls[c])'
    <3>1. calls[c] \in Call /\ calls' = calls
      BY <1>1 DEF IInv, TypeOK
    <3> QED
      BY <1>7, <2>1, <3>1
  <2> QED
    BY <1>1, <1>6, <2>1, WorldStep
<1>9. TypeOK'
  BY <1>1, <1>4 DEF IInv, TypeOK
<1>10. (Len(snaps) <= MaxEtags /\ \A i \in Quotes : Len(changes[i]) <= MaxChanges)'
  BY <1>1, <1>3, <1>4 DEF IInv
<1> QED
  BY <1>8, <1>9, <1>10 DEF IInv

LEMMA TickInv ==
    ASSUME IInv, Tick
    PROVE  IInv'
<1>1. now' = now + 1 /\ now < MaxClock /\ UNCHANGED <<changes, snaps, cache, calls>>
  BY DEF Tick, service
<1>2. now \in Nat /\ MaxClock \in Nat
  BY QuoteAssumption DEF IInv, TypeOK
<1>3. ASSUME NEW e \in Entry, EntryOK(e) PROVE EntryOK(e)'
  <2>1. e.at \in Nat
    BY QuoteAssumption DEF Entry
  <2> QED
    BY <1>1, <1>2, <1>3, <2>1 DEF EntryOK, Genuine, ValidAt
<1>4. ASSUME NEW c \in Calls, CallOK(calls[c]) PROVE CallOK(calls[c])'
  <2> DEFINE k == calls[c]
  <2>1. k \in Call
    BY DEF IInv, TypeOK
  <2>2. k.sent \in Nat /\ k.begun \in Nat
    BY <2>1, QuoteAssumption DEF Call
  <2>3. k.begun <= now' /\ k.sent <= now'
    BY <1>1, <1>2, <1>4, <2>2 DEF CallOK
  <2> QED
    BY <1>1, <1>4, <2>3 DEF CallOK, Genuine, ValidAt
<1>5. /\ CacheBounded' /\ (\A n \in 1..Len(cache) : EntryOK(cache[n]))'
      /\ (\A c \in Calls : CallOK(calls[c]))'
  BY <1>1, <1>3, <1>4, WorldStep
<1>6. TypeOK'
  BY <1>1, <1>2 DEF IInv, TypeOK
<1>7. (Len(snaps) <= MaxEtags /\ \A i \in Quotes : Len(changes[i]) <= MaxChanges)'
  BY <1>1 DEF IInv
<1> QED
  BY <1>5, <1>6, <1>7 DEF IInv

LEMMA RestartInv ==
    ASSUME IInv, Restart
    PROVE  IInv'
<1>1. /\ cache' = <<>> /\ calls' = [c \in Calls |-> NoCall]
      /\ UNCHANGED <<now, changes, snaps>>
  BY DEF Restart, service
<1>2. NoCall \in Call /\ CallOK(NoCall)
  BY NoCallOK
<1>3. CallOK(NoCall)'
  BY <1>1, <1>2 DEF CallOK, Genuine, ValidAt, NoCall
<1>4. (\A c \in Calls : CallOK(calls[c]))'
  BY <1>1, <1>3
<1>5. TypeOK'
  BY <1>1, <1>2 DEF IInv, TypeOK
<1>6. CacheBounded' /\ (\A n \in 1..Len(cache) : EntryOK(cache[n]))'
  BY <1>1, QuoteAssumption DEF CacheBounded
<1> QED
  BY <1>1, <1>4, <1>5, <1>6 DEF IInv

-----------------------------------------------------------------------------
(* The invariant and what it says.                                         *)

LEMMA InitIInv == Init => IInv
<1> SUFFICES ASSUME Init PROVE IInv
  OBVIOUS
<1>1. /\ now = 0 /\ snaps = <<>> /\ cache = <<>> /\ changes = [q \in Quotes |-> <<>>]
      /\ calls = [c \in Calls |-> NoCall]
  BY DEF Init
<1>2. MaxClock \in Nat /\ MaxEtags \in Nat /\ MaxChanges \in Nat /\ MaxEntries \in Nat
      /\ TTL \in Nat
  BY QuoteAssumption
<1>3. NoCall \in Call
  BY NoCallOK
<1>4. CallOK(NoCall)
  BY <1>1, <1>2 DEF NoCall, CallOK, Latest, Members
<1>5. TypeOK
  BY <1>1, <1>2, <1>3 DEF TypeOK
<1>6. CacheBounded
  BY <1>1, <1>2 DEF CacheBounded
<1> QED
  BY <1>1, <1>2, <1>4, <1>5, <1>6 DEF IInv

LEMMA StutterInv == IInv /\ UNCHANGED vars => IInv'
BY DEF vars, service, IInv, TypeOK, CacheBounded, EntryOK, CallOK, Genuine, ValidAt, Members

\* Every step keeps the invariant.
LEMMA Invariance == Spec => []IInv
<1>1. ASSUME IInv, Next PROVE IInv'
  <2>1. CASE \E c \in Calls : Resolve(c) \/ Advance(c)
    <3>1. PICK c \in Calls : Resolve(c) \/ Advance(c)
      BY <2>1
    <3>2. CASE Resolve(c)
      BY <1>1, <3>2, ResolveInv
    <3>3. CASE Serve(c)
      BY <1>1, <3>3, ServeInv
    <3>4. CASE Receive(c)
      BY <1>1, <3>4, ReceiveInv
    <3>5. CASE Fail(c)
      BY <1>1, <3>5, FailInv
    <3>6. CASE Reject(c)
      BY <1>1, <3>6, RejectInv DEF Reject
    <3>7. CASE Resend(c)
      BY <1>1, <3>7, ResendInv
    <3> QED
      BY <3>1, <3>2, <3>3, <3>4, <3>5, <3>6, <3>7 DEF Advance
  <2>2. CASE \E q \in Quotes : Change(q)
    BY <1>1, <2>2, ChangeInv
  <2>3. CASE Rebuild
    BY <1>1, <2>3, RebuildInv
  <2>4. CASE Tick
    BY <1>1, <2>4, TickInv
  <2>5. CASE Restart
    BY <1>1, <2>5, RestartInv
  <2> QED
    BY <1>1, <2>1, <2>2, <2>3, <2>4, <2>5 DEF Next
<1>2. IInv /\ [Next]_vars => IInv'
  BY <1>1, StutterInv
<1> QED
  BY <1>2, InitIInv, PTL DEF Spec

\* Every variable keeps its type, and no call goes on after MaxRetries failures:
\* resolve_quotes gives up after md_client_max_retries.
THEOREM TypeCorrect == Spec => []TypeOK
<1>1. IInv => TypeOK
  BY DEF IInv
<1> QED
  BY <1>1, Invariance, PTL

\* QuoteCache never exceeds md_cache_max_entries nor holds a key twice, whatever
\* order calls look up and store in.
THEOREM CacheIsBounded == Spec => []CacheBounded
<1>1. IInv => CacheBounded
  BY DEF IInv
<1> QED
  BY <1>1, Invariance, PTL

\* Quotes answered under a snapshot pin are those of that snapshot version, or
\* "not found" once the pin is superseded: the cache key carries the version.
THEOREM PinsAreExact == Spec => []PinnedExact
<1>1. IInv => PinnedExact
  BY DEF IInv, CallOK, Genuine, PinnedExact
<1> QED
  BY <1>1, Invariance, PTL

\* An unpinned answer is out of date by no more than the TTL and the time its own
\* request was under way, for every TTL, through retries, late responses and hits:
\* the client adds nothing else to what httpx and the service take.
THEOREM StalenessIsBounded == Spec => []StaleBounded
<1>1. ASSUME IInv PROVE StaleBounded
  <2> SUFFICES ASSUME NEW c \in Calls, calls[c].pin = Latest, NEW q \in DOMAIN calls[c].hits,
                      calls[c].hits[q].value < Len(changes[q])
               PROVE  changes[q][calls[c].hits[q].value + 1] + TTL + calls[c].hits[q].took
                          >= calls[c].begun
    BY DEF StaleBounded
  <2> DEFINE v == calls[c].hits[q].value
             took == calls[c].hits[q].took
             h == changes[q]
  <2>1. calls[c] \in Call /\ CallOK(calls[c]) /\ calls[c].hits \in Hits
    BY <1>1 DEF IInv, TypeOK, Call
  <2>2. q \in Quotes /\ v \in Nat /\ took \in Nat
    BY <2>1, HitsFacts, QuoteFacts
  <2>3. h[v + 1] >= calls[c].begun - (TTL + took)
    BY <2>1 DEF CallOK, ValidAt
  <2>4. h \in Seq(0..MaxClock) /\ v < Len(h) /\ MaxClock \in Nat
    BY <1>1, <2>2, QuoteAssumption DEF IInv, TypeOK
  <2>5. calls[c].begun \in Nat /\ TTL \in Nat
    BY <2>1, QuoteAssumption DEF Call
  <2> HIDE DEF v, took, h
  <2>6. h[v + 1] \in Nat
    BY <2>2, <2>4
  <2>7. h[v + 1] + TTL + took >= calls[c].begun
    BY <2>2, <2>3, <2>5, <2>6
  <2> QED
    BY <2>7 DEF v, took, h
<1> QED
  BY <1>1, Invariance, PTL
=============================================================================
