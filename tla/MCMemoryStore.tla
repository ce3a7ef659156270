---------------------------- MODULE MCMemoryStore ----------------------------
\* A small instance of MemoryStore: one id is the beginning of the other.
EXTENDS MemoryStore

MCShorter == [i \in Ids |-> IF i = "ab" THEN Ids \intersect {"a"} ELSE {}]
=============================================================================
