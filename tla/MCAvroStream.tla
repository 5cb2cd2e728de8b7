---------------------------- MODULE MCAvroStream ----------------------------
(* A header of 3 bytes, records of 2, 3, 1, 2, 5, 1 and 4 bytes, a buffer of 4. *)
EXTENDS AvroStream, TLC

SmallEnds ==
  0 :> 3 @@ 1 :> 5 @@ 2 :> 8 @@ 3 :> 9 @@ 4 :> 11 @@ 5 :> 16 @@ 6 :> 17 @@ 7 :> 21
Sizes == {-1, 0, 1, 2, 3, 7}
=============================================================================
