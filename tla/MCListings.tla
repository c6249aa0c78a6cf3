------------------------------ MODULE MCListings ------------------------------
(* Instances of Listings for TLC. *)
EXTENDS Listings, TLC

CONSTANTS a1, a2, ch, v, i, m1, m2, x, s1, s2, coingecko

(* Rows that share assets, symbols, external ids and the primary mark. *)
MCRequests ==
  { Deployment(a1, ch, TRUE), Deployment(a2, ch, TRUE),
    Market(m1, i, v, s1, {a1}, TRUE), Market(m2, i, v, s1, {}, TRUE),
    Market(m2, i, v, s2, {a1, a2}, TRUE), Market(m1, i, x, s1, {}, TRUE),
    Deployment(a1, ch, FALSE), Market(m2, i, v, s2, {}, FALSE),
    Identifier(a1, coingecko, s1, TRUE), Identifier(a2, coingecko, s1, FALSE),
    Identifier(a1, coingecko, s2, TRUE), Identifier(m1, coingecko, s2, FALSE) }
===============================================================================
