SPECIFICATION Spec
CONSTANTS
    Threads = {1, 2}
    NumCodes = 2
    NumShifts = 1
    NumBytes = 1
    Escapes <- MCEscapes
    Printable <- MCPrintable
    LowerCase <- MCLowerCase
    Entities <- MCEntities
    Entity <- MCEntity
    Cwd <- MCCwd
    Dirs <- MCDirs
    None = None
    BaseDirs <- MCBaseDirs
    BasePath <- Site
    Arguments <- MCArguments
    DocNames <- MCDocNames
    Words <- MCWords
    Typed <- MCTyped
    StaticURIs <- MCStaticURIs
    Removable <- MCRemovable
    Wide <- MCWide
INVARIANTS
    RefusedOnlyInRace
    StaticServed
    LinksLead
    QueryUnderstood
