SPECIFICATION FairSpec
CONSTANTS
    Jobs = {j1, j2}
    Kinds = {"ingest", "delete", "build"}
    Ids = {a, b}
    a = a
    b = b
    Texts = {x}
    Batches <- MCBatches
    Blank = Blank
    Generated = Generated
    NoSeries = NoSeries
    Same = Same
    MaxEtag = 1
INVARIANTS BatchesWhole
PROPERTIES EveryJobEnds
