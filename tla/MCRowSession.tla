---------------------------- MODULE MCRowSession ----------------------------
(* Percentages on both sides of zero, originals at both ends of the width. *)
EXTENDS RowSession

MCPercentages == {-60, 0, 15, 35, 50, 100, 1500}

MCOriginals == 0 .. U32Max
=============================================================================
