------------------------------ MODULE TypedGraphs ------------------------------
(***************************************************************************)
(* Graphs of assets with typed edges, as table relationships stores them:  *)
(* an edge is a triple <<from, to, type>>, and each type is a graph of its *)
(* own.  The operators are stated without recursion, so that lemmas about  *)
(* them can be proved for every set of assets (RelationshipGraphProofs).   *)
(***************************************************************************)
CONSTANTS
  Assets,     \* asset ids (UUIDs)
  Types       \* relationship types (WRAPS, STAKES, BRIDGES, ...)

(* The assets that a has an edge of type ty to. *)
Successors(rel, ty, a) == {b \in Assets : <<a, b, ty>> \in rel}

(* No edge of type ty leaves S. *)
Closed(rel, ty, S) == \A a \in S : Successors(rel, ty, a) \subseteq S

(***************************************************************************)
(* b can be reached from a along edges of type ty: every closed set that   *)
(* holds a holds b.  (This is the least such set, stated without           *)
(* recursion so that theorems can be proved about it.)                     *)
(***************************************************************************)
Reaches(rel, ty, a, b) ==
  \A S \in SUBSET Assets : (a \in S /\ Closed(rel, ty, S)) => b \in S

(***************************************************************************)
(* No edge of rel lies on a cycle of its type: every non-empty set of      *)
(* assets has a member with no edge back into the set.                     *)
(***************************************************************************)
Acyclic(rel) ==
  \A ty \in Types : \A S \in SUBSET Assets :
    S # {} => \E a \in S : Successors(rel, ty, a) \cap S = {}
===============================================================================
