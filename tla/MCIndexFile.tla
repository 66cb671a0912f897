---------------------------- MODULE MCIndexFile ----------------------------
EXTENDS IndexFile
=============================================================================
