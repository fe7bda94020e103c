SPECIFICATION FairSpec
CONSTANTS
    a = a  b = b  o1 = o1  g = g  w = w
    n1 = n1  n2 = n2  b1 = b1  b2 = b2
    NoId = NoId  NoRow = NoRow  Keep = Keep
    Clients = {a, b}
    Owners = {o1}
    OwnerOf <- MCOwnerOf
    Ids = {g, w}
    Names = {n1, n2}
    Bodies = {b1}
    Patches <- MCPatches
    Inherited <- MCInherited
    MaxVersions = 3
    RollOwner = o1
    Marked = {w}
INVARIANTS TypeOK BackstopIdle VersionsContiguous HeadIsLastVersion HistoryReplays LiveNamesUnique
PROPERTIES CascadeComplete PatchKeepsOtherColumns LedgerSpec EveryRequestEnds
