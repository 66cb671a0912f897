SPECIFICATION FairSpec
CONSTANTS
    Addrs = {a1, a2, a3, a4}
    Payloads = {1, 2, 3}
    Rank <- MCRank
    NULL = NULL
    Undefined = Undefined
INVARIANTS
    WellLinked
PROPERTIES
    SortTerminates
    ImplementsSeqList
