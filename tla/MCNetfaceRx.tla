---------------------------- MODULE MCNetfaceRx ----------------------------
(***************************************************************************)
(* Instances of NetfaceRx.  The packets of the network are one that is not *)
(* a fragment, and the first, the last or the only fragment of a packet.   *)
(***************************************************************************)
EXTENDS NetfaceRx

Frag(id, seq, last) == [id |-> id, seq |-> seq, last |-> last, len |-> 1]

TwoFragments == {Frag("a", 0, FALSE), Frag("a", 1, TRUE)}
MCFrames == TwoFragments \cup {Whole}
OneFragment == {Frag("a", 0, TRUE), Whole}
=============================================================================
