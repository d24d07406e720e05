--------------------------- MODULE MCMemoryServer ---------------------------
(* Instances of MemoryServer for TLC. *)
EXTENDS MemoryServer, TLC

\* Keys and workers are model values that no definition tells apart.
Symmetric == Permutations(Keys) \cup Permutations(Workers)
=============================================================================
