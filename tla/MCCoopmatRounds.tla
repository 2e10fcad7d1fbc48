--------------------------- MODULE MCCoopmatRounds ---------------------------
(***************************************************************************)
(* CoopmatRounds for TLC: seeds and jobs are interchangeable.              *)
(***************************************************************************)
EXTENDS CoopmatRounds, TLC

Symmetry == Permutations(Seed) \cup Permutations(Job)
=============================================================================
