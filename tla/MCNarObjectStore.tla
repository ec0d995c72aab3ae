-------------------------- MODULE MCNarObjectStore --------------------------
(* NarObjectStore on a small instance; keys, contents and tasks are        *)
(* interchangeable.                                                        *)
EXTENDS NarObjectStore, TLC

Symmetry == Permutations(Keys) \cup Permutations(Data) \cup Permutations(Tasks)
=============================================================================
