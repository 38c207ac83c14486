------------------------------ MODULE MCUeRrc ------------------------------
(***************************************************************************)
(* UeRrc for TLC: two open cells and two closed ones (3, 4).               *)
(***************************************************************************)
EXTENDS UeRrc, TLC

Level(a, b, c, d) == 1 :> a @@ 2 :> b @@ 3 :> c @@ 4 :> d

\* All cells are heard: a closed cell is the strongest, two cells are equally
\* strong, an open cell is the strongest.  Only some are heard: closed ones,
\* one at its minimum, one at -140 dBm.
SomeReports ==
  {Level(2, 3, 3, 4), Level(3, 2, 2, 3), Level(2, 3, 2, 2),
   3 :> 3, 2 :> 2 @@ 4 :> 3, 1 :> 1, 2 :> 0 @@ 3 :> 1}

SameMinimum == [c \in Cell |-> 1]

\* connEstFailCount of the cells.
TwiceInCell1 == [c \in Cell |-> IF c = 1 THEN 2 ELSE 1]
=============================================================================
