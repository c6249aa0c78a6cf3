-------------------------- MODULE MCRelationshipGraph --------------------------
(* Instances of RelationshipGraph for TLC. *)
EXTENDS RelationshipGraph, TLC

(* Assets and handlers are interchangeable (safety runs only). *)
Symmetry == Permutations(Assets) \cup Permutations(Callers)
===============================================================================
