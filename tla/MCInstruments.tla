----------------------------- MODULE MCInstruments -----------------------------
(* Instances of Instruments for TLC. *)
EXTENDS Instruments, TLC

CONSTANTS a1, a2, k1, k2

Wants(code, kind, refs, flaw) ==
  [code |-> code, kind |-> kind, refs |-> refs, flaw |-> flaw]

(* A request of every kind, and for each way to fail one that does. *)
MCRequests ==
  { Wants(k1, "BASE", {}, "none"),
    Wants(k1, "SPOT", {a1, a2}, "none"),
    Wants(k2, "SPOT", {a1}, "none"),
    Wants(k1, "PERPETUAL", {a1}, "none"),
    Wants(k1, "PERPETUAL", {a1}, "multiplier"),
    Wants(k2, "FUTURE", {a2}, "none"),
    Wants(k2, "FUTURE", {a1}, "terms"),
    Wants(k2, "OPTION", {a1}, "none"),
    Wants(k1, "OPTION", {a1}, "case"),
    Wants(k2, "LENDING_DEPOSIT", {a2}, "none"),
    Wants(k1, "LENDING_DEPOSIT", {}, "none"),
    Wants(k1, "LENDING_BORROW", {a1}, "none") }
===============================================================================
