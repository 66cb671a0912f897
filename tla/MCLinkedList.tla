---------------------------- MODULE MCLinkedList ----------------------------
EXTENDS LinkedList

\* The comparator takes 1 and 2 as equal, and 3 as larger.
MCRank(p) == (p + 1) \div 2
=============================================================================
