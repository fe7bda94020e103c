SPECIFICATION FairSpec
CONSTANTS
    NoPrice = NoPrice
    Prices = {p1, p2}
    Sizes <- MCSizes
    MaxRetries = 1
INVARIANTS TypeOK ResultsInInputOrder AllOrNothing
PROPERTIES EveryTaskEnds
