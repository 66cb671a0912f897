SPECIFICATION FairSpec
CONSTANTS
    Length <- MCLength
    Hash <- MCHash
    Ascii <- MCAscii
    Padded <- MCPadded
    Cut <- MCCut
    None = None
    Corpora <- MCCorpora
    Queries <- MCQueries
    NoQuery = NoQuery
    NoAnswer = NoAnswer
INVARIANTS
    LayoutTiled
    FsckAccepts
    ReadersFind
PROPERTY ImplementsRankedSearch
