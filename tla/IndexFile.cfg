SPECIFICATION WriterSpec
CONSTANTS
    NumPieces = 4
    EndPiece = 2
INVARIANTS
    HeaderLast
    CheckedIndexIsComplete
    FailureLeavesNothing
