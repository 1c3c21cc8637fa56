------------------------------ MODULE MCL2Link ------------------------------
(***************************************************************************)
(* Instances of L2Link: an MTU of five bytes leaves two for payload, so    *)
(* that p is three fragments, q five, the last one short, and w one frame. *)
(***************************************************************************)
EXTENDS L2Link

CONSTANTS p, q, w

MCSize == [x \in Packets |-> CASE x = p -> 6 [] x = q -> 9 [] x = w -> 4]
=============================================================================
