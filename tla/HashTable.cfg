SPECIFICATION FairSpec
CONSTANTS
    Keys <- MCKeys
    Values = {u, v}
    InitialBuckets = 1
    NoKey = NoKey
    Nothing = Nothing
INVARIANTS
    WellPlaced
    LoadBounded
    IteratorPoints
PROPERTIES
    InsertReturns
    ImplementsMap
