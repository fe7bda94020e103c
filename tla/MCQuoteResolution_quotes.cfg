SPECIFICATION Spec
SYMMETRY Callers
CONSTANTS
    k1 = k1  k2 = k2  qa = qa  qb = qb
    Calls = {k1, k2}
    Quotes = {qa, qb}
    Asks <- MCAsks
    TTL = 1
    MaxEntries = 1
    MaxRetries = 1
    MaxClock = 2
    MaxChanges = 1
    MaxEtags = 2
CONSTRAINT TimeOrSnapshots
INVARIANTS TypeOK CacheBounded PinnedExact StaleBounded
