---------------------------- MODULE MCWorkQueue ----------------------------
(***************************************************************************)
(* WorkQueue for TLC: the threads (B) run the same function on the same    *)
(* queue, and no step looks at the value of an item.                       *)
(***************************************************************************)
EXTENDS WorkQueue, TLC

Symmetry == Permutations(Consumers) \cup Permutations(Items)
============================================================================
