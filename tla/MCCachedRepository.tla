--------------------------- MODULE MCCachedRepository ---------------------------
(* Instances of CachedRepository for TLC. *)
EXTENDS CachedRepository, TLC

CONSTANTS a1, ch1

(* The one chain names asset a1 as its native asset. *)
NativeA1 == ch1 :> a1

NoChains == [c \in {} |-> a1]
===============================================================================
