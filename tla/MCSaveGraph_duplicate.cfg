SPECIFICATION Spec
CONSTANTS
    t1 = t1  t2 = t2
    NoId = 0  Literal = Literal  NoGraph = NoGraph
    Ids <- MCIds
    Entries <- MCEntries
    Pages <- MCPages
    Tabs <- MCTabs
    MaxSaves = 2
    MaxDeleted = 1
PROPERTIES ResaveTouchesOwnRows
