--------------------------- MODULE QuoteResolution ---------------------------
(***************************************************************************)
(* MdClient.resolve_quotes in one orchestrator process, its TTL-bounded    *)
(* LRU cache, and what the market-data service answers.  A call looks its  *)
(* ids up, posts the misses in one request, retries it on timeouts,        *)
(* transport errors and 5xx, and stores the response.  The cache suspends  *)
(* nowhere, so a call's look-ups are one step and so are its stores; other *)
(* calls, imports and snapshot rebuilds run while a request is under way.  *)
(*                                                                         *)
(* A quote is the number of times what the service answers for its id has  *)
(* changed: 0 is "not found" until an import, later numbers later values.  *)
(***************************************************************************)
EXTENDS Naturals, Sequences, FiniteSets, Subsequences

CONSTANTS
    Calls,       \* concurrent callers in the process
    Quotes,      \* canonical ids
    Asks,        \* the id lists a caller may ask for
    TTL,         \* md_cache_ttl_s, in ticks
    MaxEntries,  \* md_cache_max_entries
    MaxRetries,  \* md_client_max_retries
    MaxClock, MaxChanges, MaxEtags  \* bounds of the explored histories

Latest == 0  \* snapshot_version = None; etags are numbered from 1

ASSUME QuoteAssumption ==
    /\ Asks \subseteq Seq(Quotes) \ {<<>>}
    /\ \A q \in Asks : \A m, n \in DOMAIN q : q[m] = q[n] => m = n
    /\ {TTL, MaxEntries} \subseteq Nat \ {0}
    /\ {MaxRetries, MaxClock, MaxChanges, MaxEtags} \subseteq Nat

VARIABLES
    now,      \* the monotonic clock
    changes,  \* per id, the instants at which its quote changed
    snaps,    \* contents of md.snapshot_quotes under each etag so far
    cache,    \* the OrderedDict, least recently used entry first
    calls     \* what each caller is doing

service == <<changes, snaps>>
vars == <<now, service, cache, calls>>

Values == 0..MaxChanges
NotFound == [q \in Quotes |-> 0]
Answers == UNION {[S -> Values] : S \in SUBSET Quotes}

\* took: how long the request that brought the value was under way (for the
\* properties).
Quote == [value : Values, took : 0..MaxClock]
Hits == UNION {[S -> Quote] : S \in SUBSET Quotes}
Entry == [key : Quotes \X (0..MaxEtags), quote : Quote, at : 0..MaxClock]

\* ask: the ids it misses; hits: the quotes it has, when idle those of its last
\* answer; sent: when its request left; begun: when it looked in the cache (for
\* the properties).
Call == [stage : {"idle", "sent", "read", "backoff"}, ask : Seq(Quotes), pin : 0..MaxEtags,
         tries : 0..MaxRetries, sent : 0..MaxClock, body : Answers, hits : Hits,
         begun : 0..MaxClock]
NoCall == [stage |-> "idle", ask |-> <<>>, pin |-> Latest, tries |-> 0, sent |-> 0,
           body |-> <<>>, hits |-> <<>>, begun |-> 0]

Init ==
    /\ now = 0
    /\ changes = [q \in Quotes |-> <<>>]
    /\ snaps = <<>>
    /\ cache = <<>>
    /\ calls = [c \in Calls |-> NoCall]

-----------------------------------------------------------------------------
(* The market-data side.                                                   *)

\* An import, a correction or a deletion changes what is answered for q.
Change(q) ==
    /\ Len(changes[q]) < MaxChanges
    /\ changes' = [changes EXCEPT ![q] = Append(@, now)]
    /\ UNCHANGED <<now, snaps, cache, calls>>

Live == [q \in Quotes |-> Len(changes[q])]

\* A snapshot rebuild commits new contents under a new random etag.
Rebuild ==
    /\ Len(snaps) < MaxEtags
    /\ snaps' = Append(snaps, Live)
    /\ UNCHANGED <<now, changes, cache, calls>>

\* One statement: quote_points, or the snapshot when its etag is still the pin.
Resolved(p) == IF p = Latest THEN Live
               ELSE IF p = Len(snaps) THEN snaps[p] ELSE NotFound

-----------------------------------------------------------------------------
(* The cache.                                                              *)

\* Mutant: the key without its snapshot_version.
QuoteKey_NoPin(q, p) == <<q, Latest>>

QuoteKey(q, p) == <<q, p>>

KeysOf(s) == {s[n].key : n \in DOMAIN s}
EntryOf(k) == LET n == CHOOSE m \in DOMAIN cache : cache[m].key = k IN cache[n]

Fresh(k) == k \in KeysOf(cache) /\ now - EntryOf(k).at <= TTL

\* Mutant: a hit restarts the entry's lifetime.
Touched_Slides(k) == [EntryOf(k) EXCEPT !.at = now]

Touched(k) == EntryOf(k)

Without(s, keys) == Picked(s, {n \in DOMAIN s : s[n].key \notin keys})

\* get() of each key of ks in order: expired entries go, hits move to the end.
AfterGets(ks) ==
    LET kept == Picked(ks, {n \in DOMAIN ks : Fresh(ks[n])})
    IN  Without(cache, {ks[n] : n \in DOMAIN ks}) \o [n \in DOMAIN kept |-> Touched(kept[n])]

\* Mutant: room is made for one entry before a batch goes in.
Trimmed_Early(s, new) ==
    IF Len(s) < MaxEntries THEN s \o new ELSE SubSeq(s, Len(s) - MaxEntries + 2, Len(s)) \o new

\* Entries over the limit go from the least recently used end.
Trimmed(s, new) ==
    LET all == s \o new
    IN  IF Len(all) <= MaxEntries THEN all ELSE SubSeq(all, Len(all) - MaxEntries + 1, Len(all))

\* put() of each new entry in order.
AfterPuts(new) == Trimmed(Without(cache, KeysOf(new)), new)

-----------------------------------------------------------------------------
(* The client.                                                             *)

Members(q) == {q[n] : n \in DOMAIN q}

\* resolve_quotes up to its first suspension; without misses it is done.
Resolve(c) ==
    /\ calls[c].stage = "idle"
    /\ \E q \in Asks, p \in 0..Len(snaps) :
         LET missed == Picked(q, {n \in DOMAIN q : ~Fresh(QuoteKey(q[n], p))})
             had == [i \in Members(q) \ Members(missed) |-> EntryOf(QuoteKey(i, p)).quote]
         IN  /\ cache' = AfterGets([n \in DOMAIN q |-> QuoteKey(q[n], p)])
             /\ calls' = [calls EXCEPT ![c] =
                   [NoCall EXCEPT !.stage = IF missed = <<>> THEN "idle" ELSE "sent",
                                  !.ask = missed, !.pin = p, !.hits = had,
                                  !.sent = IF missed = <<>> THEN 0 ELSE now, !.begun = now]]
    /\ UNCHANGED <<now, service>>

\* The service runs its statement.
Serve(c) ==
    /\ calls[c].stage = "sent"
    /\ calls' = [calls EXCEPT ![c].stage = "read",
                              ![c].body = [q \in Members(calls[c].ask) |->
                                             Resolved(calls[c].pin)[q]]]
    /\ UNCHANGED <<now, service, cache>>

\* The response arrives: every item is cached and the answer is complete.
Receive(c) ==
    LET k == calls[c]
        got(q) == [value |-> k.body[q], took |-> now - k.sent]
        items == [n \in DOMAIN k.ask |->
                    [key |-> QuoteKey(k.ask[n], k.pin), quote |-> got(k.ask[n]), at |-> now]]
        all == [q \in DOMAIN k.hits \cup DOMAIN k.body |->
                    IF q \in DOMAIN k.body THEN got(q) ELSE k.hits[q]]
    IN  /\ k.stage = "read"
        /\ cache' = AfterPuts(items)
        /\ calls' = [calls EXCEPT ![c] = [NoCall EXCEPT !.pin = k.pin, !.hits = all,
                                                        !.begun = k.begun]]
        /\ UNCHANGED <<now, service>>

UnderWay(c) == calls[c].stage \in {"sent", "read"}

Raise(c) == calls' = [calls EXCEPT ![c] = NoCall]

BackOff(c, n) == calls' = [calls EXCEPT ![c].stage = "backoff", ![c].tries = n,
                                        ![c].sent = 0, ![c].body = <<>>]

\* Mutant: the bound is off by one.
Fail_OneMore(c) ==
    /\ UnderWay(c)
    /\ \/ calls[c].tries > MaxRetries /\ Raise(c)
       \/ calls[c].tries <= MaxRetries /\ BackOff(c, calls[c].tries + 1)
    /\ UNCHANGED <<now, service, cache>>

\* A timeout, a transport error or a 5xx, before or after the service has read:
\* back off and retry, or raise when the retries are used up.
Fail(c) ==
    /\ UnderWay(c)
    /\ \/ calls[c].tries = MaxRetries /\ Raise(c)
       \/ calls[c].tries < MaxRetries /\ BackOff(c, calls[c].tries + 1)
    /\ UNCHANGED <<now, service, cache>>

\* A 4xx, a body that is no JSON or does not validate: raised at once.
Reject(c) == UnderWay(c) /\ Raise(c) /\ UNCHANGED <<now, service, cache>>

\* The same request again, after the back-off.
Resend(c) ==
    /\ calls[c].stage = "backoff"
    /\ calls' = [calls EXCEPT ![c].stage = "sent", ![c].sent = now]
    /\ UNCHANGED <<now, service, cache>>

-----------------------------------------------------------------------------

\* Time passes, whatever is under way: httpx's timeout ends a phase that stalls
\* (Fail), not a request whose response keeps coming.
Tick ==
    /\ now < MaxClock
    /\ now' = now + 1
    /\ UNCHANGED <<service, cache, calls>>

\* The process restarts: cache and calls are gone, the services are not.
Restart ==
    /\ cache' = <<>>
    /\ calls' = [c \in Calls |-> NoCall]
    /\ UNCHANGED <<now, service>>

Advance(c) == Serve(c) \/ Receive(c) \/ Fail(c) \/ Reject(c) \/ Resend(c)

Next ==
    \/ \E c \in Calls : Resolve(c) \/ Advance(c)
    \/ \E q \in Quotes : Change(q)
    \/ Rebuild \/ Tick \/ Restart

Spec == Init /\ [][Next]_vars

-----------------------------------------------------------------------------
(* Properties.                                                             *)

\* Every variable keeps its type; no call goes on after MaxRetries failures.
TypeOK ==
    /\ now \in 0..MaxClock
    /\ changes \in [Quotes -> Seq(0..MaxClock)]
    /\ snaps \in Seq([Quotes -> Values])
    /\ cache \in Seq(Entry)
    /\ calls \in [Calls -> Call]

\* The cache never holds more than MaxEntries entries nor two of one key, also
\* when one response stores more entries than there is room for.
CacheBounded ==
    /\ Len(cache) <= MaxEntries
    /\ \A m, n \in DOMAIN cache : cache[m].key = cache[n].key => m = n

\* An unpinned quote, "not found" included, that a call answers with was the
\* service's answer at some moment no longer before the call began than the TTL
\* and the time its own request was under way: hits, retries and a response that
\* arrives late over a newer one cannot stretch it.
StaleBounded ==
    \A c \in Calls : calls[c].pin = Latest =>
        \A q \in DOMAIN calls[c].hits :
            LET h == calls[c].hits[q]
            IN  h.value < Len(changes[q]) =>
                    changes[q][h.value + 1] + TTL + h.took >= calls[c].begun

\* A quote answered under a snapshot pin is the one that snapshot version holds,
\* or "not found" once the pin is superseded: cached and fetched quotes of one
\* answer never come from two versions, nor from the live series.
PinnedExact ==
    \A c \in Calls : calls[c].pin # Latest =>
        \A q \in DOMAIN calls[c].hits :
            calls[c].hits[q].value \in {snaps[calls[c].pin][q], 0}
=============================================================================
