---------------------------- MODULE MCBootstrap -----------------------------
(***************************************************************************)
(* One device and a controller, each started up to three times.            *)
(***************************************************************************)
EXTENDS Bootstrap

CONSTANT d1
=============================================================================
