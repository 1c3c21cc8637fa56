----------------------------- MODULE MCPrograms -----------------------------
(***************************************************************************)
(* Instances of Programs: readings that differ by ten, by more and by      *)
(* less, in both directions, and the least storage the hub starts with.    *)
(***************************************************************************)
EXTENDS Programs

MCRounds == {1, 2, 5}
MCValues == {0, 10, 11, 21, 85}
=============================================================================
