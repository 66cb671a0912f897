SPECIFICATION WriterSpec
CONSTANTS
    NumPieces = 2
    EndPiece = 1
INVARIANT HeaderDurable
