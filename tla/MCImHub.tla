------------------------------ MODULE MCImHub ------------------------------
(* A generation per session is enough: each session creates at most one.    *)
EXTENDS ImHub, TLC

Interchangeable == Permutations(Sessions) \cup Permutations(Generations)
=============================================================================
