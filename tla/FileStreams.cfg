SPECIFICATION Spec
CONSTANTS
    Threads = {1, 2}
    Streams = {1, 2, 3, 4}
    Owner <- MCOwnFile
    Description <- MCDescription
    BufSize <- MCBufSize
    FileSize = 3
    None = None
INVARIANTS
    ReadsWhereSought
CHECK_DEADLOCK FALSE
