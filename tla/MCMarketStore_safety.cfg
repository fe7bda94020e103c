SPECIFICATION Spec
CONSTANTS
    Jobs = {j1, j2}
    Kinds = {"ingest", "import", "create", "describe", "delete", "build"}
    Ids = {a, b}
    a = a
    b = b
    Texts = {x}
    Batches <- MCMixed
    Blank = Blank
    Generated = Generated
    NoSeries = NoSeries
    Same = Same
    MaxEtag = 2
SYMMETRY Slots
INVARIANTS TypeOK NoOrphans
PROPERTIES EtagTracksContents UserTextKept QuotesChangedExact
