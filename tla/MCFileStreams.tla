--------------------------- MODULE MCFileStreams ---------------------------
EXTENDS FileStreams

\* Streams 1, 2 and 3 are on one description, stream 4 on another.
MCDescription == <<1, 1, 1, 2>>
MCBufSize     == <<1, 2, 2, 1>>

\* Every thread reads its own open file.
MCOwnFile == <<1, 1, 1, 2>>
=============================================================================
