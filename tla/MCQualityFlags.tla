----------------------------- MODULE MCQualityFlags -----------------------------
(* Instances of QualityFlags for TLC. *)
EXTENDS QualityFlags, TLC

Symmetry ==
  Permutations(Handlers) \cup Permutations(Assets) \cup Permutations(Flags)
    \cup Permutations(People)
===============================================================================
