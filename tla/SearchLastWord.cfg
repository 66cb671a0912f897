SPECIFICATION Spec
CONSTANTS
    Lower <- MCLower
    NonAscii = {"~"}
    NUL = "0"
    Null = Null
    PathOrder <- MCPathOrder
    Files <- MCFiles
    Dirs <- MCDirs
    Under <- MCUnder
    Root = "/"
    Contents <- MCContents
    Queries <- MCQueries
    NoQuery = NoQuery
    NoAnswer = NoAnswer
INVARIANT EveryWordIndexed
