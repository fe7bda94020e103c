SPECIFICATION Spec
CONSTANTS
    p1 = p1  u = u  t = t  cs = cs  cv = cv  ex = ex  b1 = b1  b2 = b2
    NoId = NoId  NoRow = NoRow  Literal = Literal
    Calls = {p1}
    Uid <- MCUid
    Requests <- MCPinned
    Ids = {t, cs, cv, ex}
    Trades = {t}
    Sets = {cs}
    Rows <- MCRows
    Saved <- MCSaved
    Blocks <- MCBlocks
    Members <- MCMembers
    MaxEntries = 6
INVARIANTS PinnedRoleHonoured
