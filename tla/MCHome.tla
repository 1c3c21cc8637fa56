------------------------------- MODULE MCHome -------------------------------
(***************************************************************************)
(* Instances of Home: readings on both sides of the hub's thresholds, that *)
(* differ by more and by less than the sensors' ten.                       *)
(***************************************************************************)
EXTENDS Home

MCMotion == {5, 45, 52}
(* A motion sensor that reads next to nothing when nothing moves. *)
MCQuietMotion == {5, 52}
MCIlluminance == {5, 45, 52, 61}
=============================================================================
