---------------------------- MODULE MCHashTable ----------------------------
EXTENDS HashTable

\* One bucket holds them all at first; of nine, 0, 9 and 18 share one.
MCKeys == {0, 1, 9, 18}
=============================================================================
