------------------------------- MODULE MCSeeding -------------------------------
(* Instances of Seeding for TLC. *)
EXTENDS Seeding, TLC

CONSTANTS eth, weth, ethereum, r1, r2

MCKind == r1 :> "file" @@ r2 :> "search"

(* A search for the one also returns the other. *)
MCMatching == eth :> {eth, weth} @@ weth :> {weth}
MCWanted == {<<eth, ethereum>>}
===============================================================================
