---------------------------- MODULE DurableStore ----------------------------
(***************************************************************************)
(* What the rest of the program takes the memory store to be: a table of   *)
(* records, by layer and id, that changes one record at a time, always to  *)
(* a newer write, and that a crash or a restart does not change at all.    *)
(***************************************************************************)
EXTENDS Naturals

CONSTANTS Layers, Ids

VARIABLE contents  \* the number of the write each record was last written by, 0 for none

Init == contents = [l \in Layers |-> [i \in Ids |-> 0]]

Write(l, i) ==
  /\ contents'[l][i] > contents[l][i]
  /\ contents' = [contents EXCEPT ![l][i] = contents'[l][i]]

Next == \E l \in Layers, i \in Ids : Write(l, i)
Spec == Init /\ [][Next]_contents
=============================================================================
