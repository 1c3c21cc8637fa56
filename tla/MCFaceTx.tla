------------------------------ MODULE MCFaceTx ------------------------------
(***************************************************************************)
(* Instances of FaceTx.  The MTUs leave no room for payload, or room for   *)
(* two or five bytes of it; the sizes are at the MTU, one above it, and at *)
(* the largest number of fragments and beyond.                             *)
(***************************************************************************)
EXTENDS FaceTx

MCSizes == {1, 5, 6, 8, 9, 63, 64, 65}
MCMtus == {3, 5, 8}
=============================================================================
