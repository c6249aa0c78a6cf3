----------------------------- MODULE MCAssetGroups -----------------------------
(* Instances of AssetGroups for TLC. *)
EXTENDS AssetGroups, TLC

CONSTANTS a1, a2, g1, g2

Ask(op, group, named) == [op |-> op, group |-> group, assets |-> named]

(* Two groups to list, and every operation on the first. *)
MCRequests ==
  { Ask("Create", g1, {a1}), Ask("Create", g2, {}), Ask("Get", g1, {}),
    Ask("Add", g1, {a1}), Ask("Add", g1, {a2}), Ask("Remove", g1, {a1}),
    Ask("List", g1, {}), Ask("Transact", g1, {a1}) }
===============================================================================
