--------------------------- MODULE MCMemoryStore ---------------------------
(* Instances of MemoryStore for TLC: threads, and single disagreements. *)
EXTENDS MemoryStore, TLC

\* Keys and workers are model values that no definition tells apart.
Symmetric == Permutations(Keys) \cup Permutations(Workers)
=============================================================================
