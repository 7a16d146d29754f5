------------------------------- MODULE MCIds -------------------------------
(* A small instance of Ids.  Two seeds, one low and one as high as the      *)
(* assumption allows, so that a later millisecond may draw a smaller random *)
(* part than an earlier one, and that a burst of MaxMints is reached.       *)
EXTENDS Ids

MCSeeds == {0, 3}
=============================================================================
