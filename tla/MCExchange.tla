----------------------------- MODULE MCExchange -----------------------------
(***************************************************************************)
(* Instances of Exchange: two consumers that hear each other, and two      *)
(* producers that both answer.                                             *)
(***************************************************************************)
EXTENDS Exchange

CONSTANTS c1, c2, p1, p2

MCConsumers == {c1, c2}
MCProducers == {p1, p2}
=============================================================================
